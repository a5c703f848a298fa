----------------------------- MODULE MCWriteOps -----------------------------
(***************************************************************************)
(* Instances of WriteOps: every update of many small frontmatter blocks by *)
(* one render, and two renders that overlap on a few files.                *)
(***************************************************************************)
EXTENDS WriteOps

One == "one"
Two == "two"
Both == {One, Two}

\* A scalar, a list of items of several shapes, and what can stand between.
Scalars == {<<Field("status", "x")>>, <<Field("status", "y")>>, <<Other("note")>>, <<>>}
Entries ==
  {<<Item(2, None, "x")>>, <<Item(2, "id", "x")>>, <<Item(2, "id", "x"), Sub(4, "st", "y")>>,
   <<Item(2, None, "y"), Blank>>, <<Item(4, None, "y")>>,
   <<Item(2, "st", "y"), Sub(4, "id", "x")>>}
Lists ==
  {<<Field("tags", None)>> \o e : e \in Entries}
    \cup {<<Field("tags", None)>> \o e \o f : e, f \in Entries}
    \cup {<<Field("tags", None)>>, <<Field("tags", "x")>>, <<>>}
Others == {<<Field("refs", None), Item(2, None, "x")>>, <<Field("refs", None), Item(4, "id", "x")>>, <<>>}

Bodies == ({s \o l \o o : s \in Scalars, l \in Lists, o \in Others}
             \cup {o \o l \o s : s \in Scalars, l \in Lists, o \in Others}) \ {<<>>}
Brackets == {<<Field("tags", "[]")>> \o s : s \in Scalars}

Asked ==
  {Set(n, t) : n \in {"status", "tags", "new"}, t \in {"x", "y"}}
    \cup {AppendItem(n, "x") : n \in {"tags", "refs", "new"}}
    \cup {SetItem("tags", n, s, "y") : n \in 0..2, s \in {None, "id", "st"}}

Alone ==
  {[file |-> File(b, <<>>), todo |-> [r \in Both |-> IF r = One THEN <<Update(u)>> ELSE <<>>]] :
     b \in Bodies \cup Brackets, u \in Asked}

Doc == <<Field("status", "x"), Field("tags", None), Item(2, None, "x")>>
TheTemplate == File(Doc, <<>>)

Work == {Touch, Copy, CopyIfMissing, AppendIfMissing("line"),
         Update(Set("status", "y")), Update(AppendItem("tags", "y"))}
Orders == {<<d>> : d \in Work \cup {Mkdir, Forbidden}} \cup {<<d, e>> : d, e \in Work}

Together ==
  {[file |-> f, todo |-> [r \in Both |-> IF r = One THEN d ELSE e]] :
     f \in {Absent, File(Doc, <<>>)}, d, e \in Orders}

AllScenarios == Alone \cup Together
EmptyLists   == {s \in Alone : s.file.body \in Brackets}
=============================================================================
