---------------------------- MODULE Frontmatter ----------------------------
(***************************************************************************)
(* The frontmatter of a document as @update-frontmatter and                *)
(* @read-frontmatter see it: write-ops.ts and frontmatter-utils.ts of the  *)
(* engine.  Both scan lines with regular expressions; nothing parses YAML. *)
(*                                                                         *)
(* A body is the sequence of lines between the two `---`.  Texts are       *)
(* opaque and hold no `$`, which String.replace would expand.              *)
(*                                                                         *)
(* StopNever, AppendedBehindAnchor and SubInserted are mutants of the      *)
(* definitions that follow them.                                           *)
(***************************************************************************)
EXTENDS Integers, Sequences, FiniteSets, FiniteSetsExt

-----------------------------------------------------------------------------
(* Lines                                                                   *)

\* The empty text.
None == "(none)"
Texts == STRING \cup {None}

Line(k, ind, name, text) == [k |-> k, ind |-> ind, name |-> name, text |-> text]

Field(name, text)   == Line("field", 0, name, text)    \* `name: text`
Other(text)         == Line("other", 0, None, text)    \* a comment, at the margin
Blank               == Line("blank", 0, None, None)
Item(ind, name, text) == Line("item", ind, name, text) \* `  - text`, `  - name: text`
Sub(ind, name, text) == Line("sub", ind, name, text)   \* `    name: text`

Lines == [k : {"field", "other", "blank", "item", "sub"}, ind : Nat,
          name : Texts, text : Texts]

TopLevel(l) == l.k \in {"field", "other"}

-----------------------------------------------------------------------------
(* What both directives look for                                           *)

\* fieldRegex and the anchor of a list: the first line `name:` at the margin.
FieldLines(b, name) == {i \in DOMAIN b : b[i].k = "field" /\ b[i].name = name}
Has(b, name)        == FieldLines(b, name) # {}

Anchor(b, name)     == Min(FieldLines(b, name))

\* The first line behind the list whose anchor is line a.
Stop(b, a) == Min({i \in a + 1 .. Len(b) : TopLevel(b[i])} \cup {Len(b) + 1})

\* The items, at whatever indent, and the line behind each.
Items(b, a)  == {i \in a + 1 .. Stop(b, a) - 1 : b[i].k = "item"}
End(b, a, i) == Min({j \in Items(b, a) : j > i} \cup {Stop(b, a)})

\* listIndent: that of the last item.
Indent(b, a) == IF Items(b, a) = {} THEN 2 ELSE b[Max(Items(b, a))].ind

Inserted(b, at, l) == SubSeq(b, 1, at - 1) \o <<l>> \o SubSeq(b, at, Len(b))

-----------------------------------------------------------------------------
(* @update-frontmatter: what it is asked for, and the body it makes of b.  *)

Set(name, text)             == [op |-> "set", name |-> name, n |-> 0, sub |-> None, text |-> text]
AppendItem(name, text)      == [op |-> "append", name |-> name, n |-> 0, sub |-> None, text |-> text]
SetItem(name, n, sub, text) == [op |-> "item", name |-> name, n |-> n, sub |-> sub, text |-> text]

Requests == [op : {"set", "append", "item"}, name : Texts, n : Nat, sub : Texts,
             text : Texts]

SetField(b, u) ==
  IF Has(b, u.name) THEN [b EXCEPT ![Anchor(b, u.name)] = Field(u.name, u.text)]
  ELSE Append(b, Field(u.name, u.text))

\* The field holds a list written as one line, other than `[]`.
Inline(b, name) == b[Anchor(b, name)].text \notin {None, "[]"}

AppendedBehindAnchor(b, u) ==
  LET a == Anchor(b, u.name) IN Inserted(b, a + 1, Item(Indent(b, a), None, u.text))

Appended(b, u) ==
  LET a  == Anchor(b, u.name)
      at == IF Items(b, a) = {} THEN a + 1 ELSE Stop(b, a)
  IN Inserted(b, at, Item(Indent(b, a), None, u.text))

\* The Nth item, from 0; a set of one line or none.
Nth(b, a, n) ==
  {i \in Items(b, a) : Cardinality({j \in Items(b, a) : j < i}) = n}

\* The whole item becomes one line.
Replaced(b, a, i, text) ==
  SubSeq(b, 1, i - 1) \o <<Item(Indent(b, a), None, text)>> \o SubSeq(b, End(b, a, i), Len(b))

\* The lines of an item that carry its sub-field, of which the `-` line and
\* then the first counts.
SubLines(b, a, i, sub) ==
  {j \in i .. End(b, a, i) - 1 :
     b[j].name = sub /\ b[j].k = IF j = i THEN "item" ELSE "sub"}

MappingIndent(b, a, i) ==
  LET mapped == {j \in i + 1 .. End(b, a, i) - 1 : b[j].k # "blank"}
  IN IF mapped = {} THEN Indent(b, a) + 2 ELSE b[Min(mapped)].ind

SubReplaced(b, a, i, sub, text) ==
  LET lines == SubLines(b, a, i, sub)
  IN IF lines = {}
     THEN Inserted(b, End(b, a, i), Sub(MappingIndent(b, a, i), sub, text))
     ELSE [b EXCEPT ![Min(lines)].text = text]

\* A list update that ends in a warning.
Refused(b, u) ==
  /\ u.op # "set"
  /\ \/ Has(b, u.name) /\ Inline(b, u.name)
     \/ u.op = "item" /\ ~Has(b, u.name)
     \/ u.op = "item" /\ Has(b, u.name) /\ Nth(b, Anchor(b, u.name), u.n) = {}

Updated(b, u) ==
  LET a == Anchor(b, u.name)
      i == CHOOSE j \in Nth(b, a, u.n) : TRUE
  IN CASE Refused(b, u) -> b
       [] u.op = "set" -> SetField(b, u)
       [] u.op = "append" /\ ~Has(b, u.name) ->
            b \o <<Field(u.name, None), Item(2, None, u.text)>>
       [] u.op = "append" /\ Has(b, u.name) /\ ~Refused(b, u) -> Appended(b, u)
       [] u.op = "item" /\ ~Refused(b, u) ->
            IF u.sub = None THEN Replaced(b, a, i, u.text) ELSE SubReplaced(b, a, i, u.sub, u.text)

-----------------------------------------------------------------------------
(* @read-frontmatter: the text of a field, or its items in order.          *)

ItemTexts(b, a) ==
  {<<Cardinality({j \in Items(b, a) : j < i}), b[i].name, b[i].text>> : i \in Items(b, a)}

Reading(b, name) ==
  IF ~Has(b, name) THEN [text |-> None, items |-> {}]
  ELSE LET a == Anchor(b, name)
       IN [text |-> b[a].text,
           items |-> IF b[a].text = None THEN ItemTexts(b, a) ELSE {}]
=============================================================================
