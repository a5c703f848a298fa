----------------------------- MODULE QueryPlan -----------------------------
(***************************************************************************)
(* The arguments of a @db directive, the plan db/query.ts makes of them,   *)
(* and the rows the MongoDB and the SQL adapters ask their drivers for.    *)
(*                                                                         *)
(* A where= text is a sequence of tokens: words, env.NAME, quotes,         *)
(* parentheses, operators and connectives, a connective with its blanks    *)
(* (" && ") or without ("&&").  A value is a pair of a type and an integer *)
(* that orders the values of the type; a row is a function from fields to  *)
(* values.                                                                 *)
(* What a driver selects follows the drivers: a column that is missing is  *)
(* Null, SQL compares nothing with Null and takes a numeric text for the   *)
(* number, MongoDB orders values of one type only and takes a limit of 0   *)
(* for no limit.  Null sorts below every value, in Postgres above.  Where  *)
(* the order of rows, or which row, is the database's choice, a query has  *)
(* several answers.                                                        *)
(*                                                                         *)
(* The definitions just before another one are mutants of it.              *)
(***************************************************************************)
EXTENDS Integers, Sequences, SequencesExt, FiniteSetsExt

CONSTANTS
    Name(_),   \* the field a text names
    Rank(_),   \* what orders a text
    Env        \* ctx.env: variable names to what orders their texts

Null      == <<"null", 0>>
Number(n) == <<"number", n>>
Text(n)   == <<"text", n>>

None == [kind |-> "none"]        \* the parser threw

Links == {" && ", " || "}

-----------------------------------------------------------------------------
(* query.ts: where= *)

\* inferValue: one word is what it is typed as, env.NAME is always text, and
\* unset it is the empty text; everything else is a text, without the quotes
\* around it.
InferValue(raw) ==
    CASE Len(raw) = 1 /\ raw[1].is = "word" -> raw[1].of
      [] Len(raw) > 0 /\ raw[1].is = "env" ->
             Text(IF Len(raw) = 1 /\ raw[1].name \in DOMAIN Env THEN Env[raw[1].name] ELSE Rank(<<>>))
      [] Len(raw) > 0 /\ raw[1].is = "quote" /\ raw[Len(raw)].is = "quote" ->
             Text(Rank(SubSeq(raw, 2, Len(raw) - 1)))
      [] OTHER -> Text(Rank(raw))

Priority == <<">=", "<=", "!=", "==", ">", "<">>

\* The first operator is looked for inside the longer ones as well.
Shows(t, op) == t.is = op \/ <<t.is, op>> \in {<<">=", ">">>, <<"<=", "<">>}

FirstOf(expr, op) ==
    LET at == { i \in 1..Len(expr) : Shows(expr[i], op) } IN IF at = {} THEN 0 ELSE Min(at)

\* The operators with something before their first occurrence.
Usable(expr) == { k \in 1..Len(Priority) : FirstOf(expr, Priority[k]) > 1 }

\* parseOneFilter cuts at the first occurrence of the first operator of the
\* list, wherever that is: what lies before is the field and what lies behind
\* is the value.
ParseOneFilter(expr) ==
    LET op == Priority[Min(Usable(expr))]
        at == FirstOf(expr, op)
    IN IF Usable(expr) = {} THEN None
       ELSE [field |-> Name(SubSeq(expr, 1, at - 1)),
             op    |-> op,
             value |-> InferValue(SubSeq(expr, at + 1, Len(expr)))]

\* How many parentheses are open before token p: a quote counts for nothing.
CountBefore(where, p, t) == Cardinality({ i \in 1..(p - 1) : where[i].is = t })
Depth(where, p) == CountBefore(where, p, "(") - CountBefore(where, p, ")")

CutsAnywhere(where) == { p \in 1..Len(where) : where[p].is \in Links }

\* splitOnLogic cuts at a connective between blanks, outside all parentheses.
Cuts(where) == { p \in 1..Len(where) : where[p].is \in Links /\ Depth(where, p) = 0 }

LastCut(where, p) == Max({0} \cup { c \in Cuts(where) : c < p })

\* The parts of the text, each at the position behind it.  Nothing behind the
\* last connective is no part.
SplitOnLogic(where) ==
    LET end == Len(where) + 1 IN
    [p \in Cuts(where) \cup (IF LastCut(where, end) = Len(where) THEN {} ELSE {end}) |->
        SubSeq(where, LastCut(where, p) + 1, p - 1)]

\* parseFilterToken: one pair of parentheses around the part is dropped.
ParseFilterToken(expr) ==
    IF Len(expr) > 1 /\ expr[1].is = "(" /\ expr[Len(expr)].is = ")"
    THEN ParseOneFilter(SubSeq(expr, 2, Len(expr) - 1))
    ELSE ParseOneFilter(expr)

\* parseFilters: the conditions by their positions, and whether any connective
\* was ||.
ParseFilters(where) ==
    LET parts == SplitOnLogic(where) IN
    [filters |-> [p \in DOMAIN parts |-> ParseFilterToken(parts[p])],
     hasOr   |-> \E c \in Cuts(where) : where[c].is = " || "]

-----------------------------------------------------------------------------
(* query.ts: the plan.  Arguments are a function from the options present. *)

Operations == {"find", "one", "count", "aggregate", "raw"}

Given(args, name) == name \in DOMAIN args

\* An option that may be left out is the empty sequence or one of its value.
Optional(args, name) == IF Given(args, name) THEN args[name] ELSE <<>>

\* count=true is one of the functions of aggregate=.
CountsGroups(args) == Given(args, "aggregate") /\ Given(args, "count") /\ args.count = "true"

Present(args) == { op \in Operations : Given(args, op) }

TheOnly(ops) == IF Cardinality(ops) = 1 THEN CHOOSE op \in ops : TRUE ELSE "none"

\* detectOperation: exactly one.
DetectOperation(args) ==
    TheOnly(Present(args) \ (IF CountsGroups(args) THEN {"count"} ELSE {}))

\* parseAggregateOps
ParseAggregateOps(args) ==
    (IF CountsGroups(args) THEN { [func |-> "count", field |-> "*"] } ELSE {})
    \cup { [func |-> f, field |-> args[f]] : f \in {"sum", "avg", "min", "max"} \cap DOMAIN args }

\* validateQueryPlan
ValidPlan(args, op, aggregations) ==
    /\ op = "count" => ~ Given(args, "sort") /\ ~ Given(args, "columns")
    /\ op = "aggregate" => Given(args, "group") /\ aggregations # {}

\* parseQueryInternal
ParseQuery(args) ==
    LET op    == DetectOperation(args)
        where == ParseFilters(Optional(args, "where"))
        aggregations == IF op = "aggregate" THEN ParseAggregateOps(args) ELSE {}
    IN IF op = "none" THEN None
       ELSE IF op = "raw" THEN [kind |-> "raw", query |-> args.raw]
       ELSE IF None \in Range(where.filters) \/ ~ ValidPlan(args, op, aggregations) THEN None
       ELSE [kind |-> "plan", operation |-> op, collection |-> args[op],
             where |-> where.filters, hasOr |-> where.hasOr,
             sort |-> Optional(args, "sort"), limit |-> Optional(args, "limit"),
             columns |-> Optional(args, "columns"), group |-> Optional(args, "group"),
             aggregations |-> aggregations]

-----------------------------------------------------------------------------
(* What the drivers select *)

At(row, field) == IF field \in DOMAIN row THEN row[field] ELSE Null

Compares(op, a, b) ==
    CASE op = "==" -> a = b  [] op = "!=" -> a # b
      [] op = ">"  -> a > b  [] op = "<"  -> a < b
      [] op = ">=" -> a >= b [] op = "<=" -> a <= b

MongoHolds(f, row) ==
    LET a == At(row, f.field)
        alike == a[1] = f.value[1]
    IN IF f.op = "!=" THEN alike => Compares(f.op, a[2], f.value[2])
       ELSE alike /\ Compares(f.op, a[2], f.value[2])

SqlHolds(f, row) ==
    LET a == At(row, f.field) IN
    /\ "null" \notin {a[1], f.value[1]}
    /\ Compares(f.op, a[2], f.value[2])

\* buildFilter: the conditions of an AND become the keys of one object, so of
\* two on one field only the later remains.
MongoFilter(plan) ==
    LET on == DOMAIN plan.where IN
    IF plan.hasOr THEN Range(plan.where)
    ELSE { plan.where[i] : i \in { i \in on :
               \A j \in on : j > i => plan.where[j].field # plan.where[i].field } }

MongoMatches(plan, row) ==
    \/ DOMAIN plan.where = {}
    \/ IF plan.hasOr THEN \E f \in MongoFilter(plan) : MongoHolds(f, row)
                     ELSE \A f \in MongoFilter(plan) : MongoHolds(f, row)

SqlMatchesAll(plan, row) == \A i \in DOMAIN plan.where : SqlHolds(plan.where[i], row)

\* buildWhere
SqlMatches(plan, row) ==
    \/ DOMAIN plan.where = {}
    \/ IF plan.hasOr THEN \E f \in Range(plan.where) : SqlHolds(f, row)
                     ELSE \A f \in Range(plan.where) : SqlHolds(f, row)

Dialects == {"postgres", "mysql", "mssql", "sqlite"}

\* Whether Null sorts below every value.
NullsLow(dialect) == dialect # "postgres"

Less(v, w, low) ==
    IF "null" \in {v[1], w[1]} THEN v # w /\ ((v[1] = "null") <=> low) ELSE v[2] < w[2]

\* By the terms of a sort in their order, the first that tells two rows apart.
Before(a, b, sort, low) ==
    \E k \in DOMAIN sort :
        /\ \A l \in DOMAIN sort : l < k => At(a, sort[l].field) = At(b, sort[l].field)
        /\ LET v == At(a, sort[k].field)
               w == At(b, sort[k].field)
           IN IF sort[k].dir = "asc" THEN Less(v, w, low) ELSE Less(w, v, low)

\* buildSort: a field has one place in the object, its first, and the direction
\* it is given last.
MongoSort(sort) ==
    LET of(i) == { j \in DOMAIN sort : sort[j].field = sort[i].field } IN
    [i \in { i \in DOMAIN sort : \A j \in of(i) : i <= j } |->
        [field |-> sort[i].field, dir |-> sort[CHOOSE j \in of(i) : \A k \in of(i) : k <= j].dir]]

\* Every order of S.
InAnyOrder(S) == { s \in [1..Cardinality(S) -> S] : \A i, j \in DOMAIN s : i # j => s[i] # s[j] }

\* The orders of the rows at hits a sort permits: rows that tie come in any.
Orders(table, hits, sort, low) ==
    { s \in InAnyOrder(hits) :
        \A i, j \in DOMAIN s : i < j => ~ Before(table[s[j]], table[s[i]], sort, low) }

FirstOnes(s, n) == SubSeq(s, 1, IF n < Len(s) THEN n ELSE Len(s))

\* The rows of a group a function of it is taken of.
Numeric(rows, at, field) == { i \in at : At(rows[i], field)[1] = "number" }

Total(rows, at, field) == MapThenSumSet(LAMBDA i : At(rows[i], field)[2], at)

\* The average is left out: it only divides the sum.
Aggregated(a, rows, at, zero) ==
    LET numbers == Numeric(rows, at, a.field)
        values  == { At(rows[i], a.field)[2] : i \in numbers }
    IN IF a.func = "count" THEN Number(Cardinality(at))
       ELSE IF numbers = {} THEN (IF a.func = "sum" THEN zero ELSE Null)
       ELSE CASE a.func \in {"sum", "avg"} -> Number(Total(rows, numbers, a.field))
              [] a.func = "min"            -> Number(Min(values))
              [] a.func = "max"            -> Number(Max(values))

\* One row for each value of the group field; zero is the sum of no numbers.
Grouped(plan, rows, hits, zero) ==
    LET by(i) == At(rows[i], plan.group[1])
        at(g) == { i \in hits : by(i) = g }
    IN { [by |-> g, of |-> { <<a, Aggregated(a, rows, at(g), zero)>> : a \in plan.aggregations }] :
         g \in { by(i) : i \in hits } }

\* buildProjection: columns keep their own names.
MongoProject(row, columns) ==
    IF columns = <<>> THEN row
    ELSE [f \in { columns[i].field : i \in DOMAIN columns } \cap DOMAIN row |-> row[f]]

\* buildSelectCols: columns get their labels.
SqlProject(row, columns) ==
    IF columns = <<>> THEN row
    ELSE [l \in { columns[i].label : i \in DOMAIN columns } |->
             At(row, columns[CHOOSE i \in DOMAIN columns : columns[i].label = l].field)]

Counted(hits) == { << [count |-> Number(Cardinality(hits))] >> }

\* MongoDbAdapter.execute: what it may return.
MongoAnswers(plan, table) ==
    LET hits == { i \in DOMAIN table : MongoMatches(plan, table[i]) } IN
    CASE plan.operation = "find" ->
             { LET first == IF plan.limit \in {<<>>, <<0>>} THEN s ELSE FirstOnes(s, plan.limit[1])
               IN [i \in DOMAIN first |-> MongoProject(table[first[i]], plan.columns)] :
               s \in Orders(table, hits, MongoSort(plan.sort), TRUE) }
      [] plan.operation = "one" ->
             IF hits = {} THEN {<<>>} ELSE { << table[i] >> : i \in hits }
      [] plan.operation = "count" -> Counted(hits)
      [] plan.operation = "aggregate" -> InAnyOrder(Grouped(plan, table, hits, Number(0)))

\* buildSqlBody, run by the database.
SqlAnswers(plan, table, dialect) ==
    LET hits == { i \in DOMAIN table : SqlMatches(plan, table[i]) } IN
    CASE plan.operation = "find" ->
             { LET first == IF plan.limit = <<>> THEN s ELSE FirstOnes(s, plan.limit[1])
               IN [i \in DOMAIN first |-> SqlProject(table[first[i]], plan.columns)] :
               s \in Orders(table, hits, plan.sort, NullsLow(dialect)) }
      [] plan.operation = "one" ->
             IF hits = {} THEN {<<>>} ELSE { << SqlProject(table[i], plan.columns) >> : i \in hits }
      [] plan.operation = "count" -> Counted(hits)
      [] plan.operation = "aggregate" -> InAnyOrder(Grouped(plan, table, hits, Null))

=============================================================================
