---------------------------- MODULE DbDirective ----------------------------
(***************************************************************************)
(* One @db directive: an author writes its where= and its other options,   *)
(* db/query.ts makes a plan of them, and an adapter of either kind is      *)
(* asked for it.  QueryPlan has the parser and the adapters.               *)
(***************************************************************************)
EXTENDS QueryPlan

CONSTANTS
    Conditions,   \* what may be written between connectives
    Wheres,       \* texts and what they say: conditions, where each stands and what follows
    Odd,          \* texts that say something the parser has no rules for
    Options,      \* the options of a directive but where=
    Stored        \* what the collection may hold

\* A field, an operator and a value.
IsCondition(c) ==
    /\ c \in Seq(Range(c)) /\ Len(c) >= 2
    /\ c[1].is = "word" /\ c[2].is \in Range(Priority)

\* Where a condition itself stands, in parentheses of its own or not.
First(s) == IF s.bracketed THEN s.from + 1 ELSE s.from
Final(s) == IF s.bracketed THEN s.to - 1 ELSE s.to

\* One condition behind the other, each with what follows it.
Spells(text, says) ==
    /\ Len(text) = IF says = <<>> THEN 0 ELSE says[Len(says)].to
    /\ \A n \in DOMAIN says :
          LET s == says[n] IN
          /\ s.from = IF n = 1 THEN 1 ELSE says[n - 1].to + 2
          /\ First(s) \in Nat /\ Final(s) \in Nat
          /\ SubSeq(text, First(s), Final(s)) = s.condition
          /\ s.bracketed => text[s.from].is = "(" /\ text[s.to].is = ")"
          /\ n < Len(says) => text[s.to + 1].is = s.then

\* An odd text is one whose parentheses hold more than a condition or do not
\* match, or whose connectives have no blanks; what has no operator throws.
\* A negative limit is not modelled: each driver has its own reading of it.
ASSUME DirectiveAssumption ==
    /\ \A c \in Conditions : IsCondition(c)
    /\ \A w \in Wheres :
          /\ w.says \in Seq([condition : Conditions, from : Nat, to : Nat,
                             bracketed : BOOLEAN, then : Links \cup {"end"}])
          /\ \A n \in DOMAIN w.says : w.says[n].then = "end" <=> n = Len(w.says)
          /\ w.text \in Seq(Range(w.text)) /\ Spells(w.text, w.says)
    /\ \A t \in Odd : t \in Seq(Range(t))
    /\ \A t \in Stored : t \in Seq(Range(t))
    /\ \A o \in Options :
          /\ "limit" \in DOMAIN o => o.limit \in Seq(Nat) /\ o.limit # <<>>
          /\ "sort" \in DOMAIN o => o.sort \in Seq(Range(o.sort))

VARIABLES
    asked,   \* what the where= of the directive says: one of Wheres, none for an odd text
    args,    \* its options, the text of the where= included
    stored,  \* the rows of the collection
    plan     \* what the parser made of args

dbVars == <<asked, args, stored, plan>>

Unparsed == [kind |-> "unparsed"]

With(options, text) ==
    [n \in DOMAIN options \cup {"where"} |-> IF n = "where" THEN text ELSE options[n]]

DbInit ==
    /\ \E o \in Options :
          \/ \E w \in Wheres : asked = {w.says} /\ args = With(o, w.text)
          \/ \E t \in Odd : asked = {} /\ args = With(o, t)
    /\ stored \in Stored
    /\ plan = Unparsed

Parse ==
    /\ plan = Unparsed
    /\ plan' = ParseQuery(args)
    /\ UNCHANGED <<asked, args, stored>>

DbSpec == DbInit /\ [][Parse]_dbVars

-----------------------------------------------------------------------------
(* Properties *)

Planned == plan.kind = "plan"

\* && binds tighter than ||: some run of conditions between two || holds.  A
\* text without conditions lets every row through.
Says(where, true) ==
    \/ where = <<>>
    \/ \E i \in DOMAIN where :
          /\ i > 1 => where[i - 1].then = " || "
          /\ \A j \in i..Len(where) : (\A k \in i..(j - 1) : where[k].then = " && ") => j \in true

\* A field, an operator, and the rest is the value.
Means(c) == [field |-> Name(SubSeq(c, 1, 1)), op |-> c[2].is, value |-> InferValue(SubSeq(c, 3, Len(c)))]

SqlTrue(where, row)   == { i \in DOMAIN where : SqlHolds(Means(where[i].condition), row) }
MongoTrue(where, row) == { i \in DOMAIN where : MongoHolds(Means(where[i].condition), row) }

\* What the parser does not take for a part of the value, quotes or not: a
\* parenthesis, an operator it looks for earlier, and a connective between
\* blanks, unless the condition stands in parentheses.
Above(op) == { Priority[k] : k \in { k \in DOMAIN Priority : \A l \in DOMAIN Priority : Priority[l] = op => k < l } }

Plain(s) ==
    \A i \in 3..Len(s.condition) :
        LET t == s.condition[i] IN
        /\ t.is \notin {"(", ")"}
        /\ \A op \in Above(s.condition[2].is) : ~ Shows(t, op)
        /\ t.is \in Links => s.bracketed

\* Every value is plain, and one connective throughout.
Uniform(where) ==
    /\ \A i \in DOMAIN where : Plain(where[i])
    /\ \E l \in Links : \A i \in DOMAIN where : i < Len(where) => where[i].then = l

\* No AND has two conditions on a field.
Separate(where) ==
    \A i, j \in DOMAIN where :
        (i # j /\ Means(where[i].condition).field = Means(where[j].condition).field)
        => \A k \in DOMAIN where : k < Len(where) => where[k].then = " || "

\* With one connective throughout, SQL selects exactly the rows the where=
\* says, whichever conditions stand in parentheses, and whatever a value holds
\* but what Plain names: an operator the parser looks for later, a connective
\* without blanks, or one in the parentheses (query.ts:86-182,
\* sql-shared.ts:10-19).
SqlSelectsWhatItSays ==
    Planned => \A w \in asked : Uniform(w) =>
        \A r \in Range(stored) : SqlMatches(plan, r) <=> Says(w, SqlTrue(w, r))

\* MongoDB does too, unless an AND has two conditions on one field, of which
\* buildFilter keeps the later (mongodb.ts:101-107).
MongoSelectsWhatItSays ==
    Planned => \A w \in asked : (Uniform(w) /\ Separate(w)) =>
        \A r \in Range(stored) : MongoMatches(plan, r) <=> Says(w, MongoTrue(w, r))

\* Such a text is never what a directive is refused for: without a where= it
\* is refused as well.
NeverRefused ==
    plan = None => \A w \in asked : Uniform(w) => ParseQuery(With(args, <<>>)) = None

\* What the text says is what each database is asked for.
SelectsWhatItSays == SqlSelectsWhatItSays /\ MongoSelectsWhatItSays /\ NeverRefused

\* The fields a plan compares, shows and aggregates.
Mentioned ==
    { plan.where[i].field : i \in DOMAIN plan.where }
    \cup { plan.columns[i].field : i \in DOMAIN plan.columns }
    \cup { a.field : a \in { a \in plan.aggregations : a.func # "count" } }

\* Every row has a number there, and is compared with numbers.
NumbersOnly ==
    /\ \A r \in Range(stored) : \A f \in Mentioned : f \in DOMAIN r /\ r[f][1] = "number"
    /\ \A i \in DOMAIN plan.where : plan.where[i].value[1] = "number"

\* A row is sorted by a field once and by numbers; by Null too, but in Postgres.
SortsAlike(dialect) ==
    /\ \A i, j \in DOMAIN plan.sort : plan.sort[i].field = plan.sort[j].field => i = j
    /\ \A i \in DOMAIN plan.sort, r \in Range(stored) :
          At(r, plan.sort[i].field)[1] \in {"number"} \cup (IF NullsLow(dialect) THEN {"null"} ELSE {})

\* A plan means the same to every adapter, even where it means something else
\* than the text says: each database may return what the other may, in the
\* orders both may choose among, as long as no value compared, shown or
\* aggregated is null or a text, no AND has two conditions on one field, rows
\* are sorted by numbers and grouped by no texts, columns keep their names and `one` has none, and the
\* limit is not 0 (mongodb.ts:65-139, sql-shared.ts:10-61).
AdaptersAgree ==
    \A dialect \in Dialects :
        (/\ Planned /\ NumbersOnly /\ SortsAlike(dialect)
         /\ plan.hasOr \/ \A i, j \in DOMAIN plan.where : plan.where[i].field = plan.where[j].field => i = j
         /\ \A r \in Range(stored), g \in Range(plan.group) : At(r, g)[1] # "text"
         /\ plan.limit # <<0>>
         /\ \A i \in DOMAIN plan.columns : plan.columns[i].field = plan.columns[i].label
         /\ plan.operation = "one" => plan.columns = <<>>)
        => MongoAnswers(plan, stored) = SqlAnswers(plan, stored, dialect)

=============================================================================
