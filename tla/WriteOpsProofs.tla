--------------------------- MODULE WriteOpsProofs ---------------------------
(***************************************************************************)
(* Proofs about Frontmatter and WriteOps, for all files, all directives    *)
(* and any number of renders: an update does what it says and nothing      *)
(* else, and a document does not lose the fields it had.                   *)
(*                                                                         *)
(* That updates are exact is a fact about bodies: every update is local to *)
(* its field (Local), which leaves the other fields as they read, and      *)
(* moves the items of its list without changing their order (Aligns),      *)
(* which leaves their numbers as they were.  AsPlanned carries it into the *)
(* states: a call holds what its update makes of the file it has seen.     *)
(*                                                                         *)
(* The invariant FieldsSurvive is not inductive: nothing in it says what a *)
(* render that has the file open is about to write, nor that the only file *)
(* without fields is one that some render has just emptied.  Guarded adds  *)
(* both.                                                                   *)
(***************************************************************************)
EXTENDS WriteOps, NaturalLemmas, SequenceTheorems, FiniteSetTheorems

-----------------------------------------------------------------------------
(* Lines                                                                   *)

LEMMA ItemIsALine ==
  ASSUME NEW ind \in Nat, NEW text \in Texts
  PROVE  Item(ind, None, text) \in Lines
<1>1. None \in Texts BY DEF Texts
<1>2. \A name \in Texts : Item(ind, name, text) \in Lines BY DEF Item, Line, Lines
<1> QED BY <1>1, <1>2

\* One line put in the place of the lines between p and q.
Splice(b, p, l, q) == SubSeq(b, 1, p) \o <<l>> \o SubSeq(b, q, Len(b))

\* Where its lines come to lie.
LEMMA SpliceLies ==
  ASSUME NEW b \in Seq(Lines), NEW l \in Lines, NEW p \in 0 .. Len(b),
         NEW q \in p + 1 .. Len(b) + 1
  PROVE  /\ Splice(b, p, l, q) \in Seq(Lines)
         /\ Len(Splice(b, p, l, q)) = Len(b) + (p + 2 - q)
         /\ \A i \in 1 .. p : Splice(b, p, l, q)[i] = b[i]
         /\ Splice(b, p, l, q)[p + 1] = l
         /\ \A i \in q .. Len(b) : Splice(b, p, l, q)[i + (p + 2 - q)] = b[i]
<1> DEFINE s == SubSeq(b, 1, p)
           t == SubSeq(b, q, Len(b))
           m == s \o <<l>>
<1>0. Len(b) \in Nat /\ DOMAIN b = 1 .. Len(b) /\ p \in Int /\ q \in Int /\ Len(b) \in Int
  OBVIOUS
<1>1. \A i \in 1 .. p : b[i] \in Lines BY <1>0
<1>2. \A i \in q .. Len(b) : b[i] \in Lines BY <1>0
<1>3. s \in Seq(Lines) /\ Len(s) = p /\ \A i \in 1 .. p : s[i] = b[i]
  <2>1. /\ SubSeq(b, 1, p) \in Seq(Lines)
        /\ Len(SubSeq(b, 1, p)) = IF 1 <= p THEN p - 1 + 1 ELSE 0
        /\ \A i \in 1 .. p - 1 + 1 : SubSeq(b, 1, p)[i] = b[1 + i - 1]
    BY <1>0, <1>1, SubSeqProperties
  <2> QED BY <1>0, <2>1
<1>4. /\ t \in Seq(Lines) /\ Len(t) = Len(b) - q + 1
      /\ \A i \in 1 .. Len(b) - q + 1 : t[i] = b[q + i - 1]
  <2>1. /\ SubSeq(b, q, Len(b)) \in Seq(Lines)
        /\ Len(SubSeq(b, q, Len(b))) = IF q <= Len(b) THEN Len(b) - q + 1 ELSE 0
        /\ \A i \in 1 .. Len(b) - q + 1 : SubSeq(b, q, Len(b))[i] = b[q + i - 1]
    BY <1>0, <1>2, SubSeqProperties
  <2> QED BY <1>0, <2>1
<1>5. <<l>> \in Seq(Lines) /\ Len(<<l>>) = 1 OBVIOUS
<1> HIDE DEF s, t
<1>6. /\ m \in Seq(Lines) /\ Len(m) = p + 1
      /\ m[p + 1] = l /\ \A i \in 1 .. p : m[i] = b[i]
  <2>1. /\ s \o <<l>> \in Seq(Lines)
        /\ Len(s \o <<l>>) = Len(s) + Len(<<l>>)
        /\ \A i \in 1 .. Len(s) + Len(<<l>>) :
             (s \o <<l>>)[i] = IF i <= Len(s) THEN s[i] ELSE <<l>>[i - Len(s)]
    BY <1>3, <1>5, ConcatProperties
  <2>2. p + 1 \in 1 .. p + 1 /\ ~(p + 1 <= p) /\ p + 1 - p = 1 BY <1>0
  <2>3. (s \o <<l>>)[p + 1] = l BY <1>3, <1>5, <2>1, <2>2
  <2> QED BY <1>0, <1>3, <1>5, <2>1, <2>3
<1> HIDE DEF m
<1>7. /\ m \o t \in Seq(Lines)
      /\ Len(m \o t) = Len(m) + Len(t)
      /\ \A i \in 1 .. Len(m) + Len(t) : (m \o t)[i] = IF i <= Len(m) THEN m[i] ELSE t[i - Len(m)]
  BY <1>4, <1>6, ConcatProperties
<1>8. \A i \in 1 .. p + 1 : (m \o t)[i] = m[i]
  <2>1. \A i \in 1 .. p + 1 : i \in 1 .. Len(m) + Len(t) /\ i <= Len(m) BY <1>0, <1>4, <1>6
  <2> QED BY <1>7, <2>1
<1>9. ASSUME NEW i \in q .. Len(b)
      PROVE  (m \o t)[i + (p + 2 - q)] = b[i]
  <2>1. i - q + 1 \in 1 .. Len(b) - q + 1 BY <1>0
  <2>2. t[i - q + 1] = b[i]
    <3>1. t[i - q + 1] = b[q + (i - q + 1) - 1] BY <1>4, <2>1
    <3>2. q + (i - q + 1) - 1 = i BY <1>0
    <3> QED BY <3>1, <3>2
  <2>3. i + (p + 2 - q) \in 1 .. Len(m) + Len(t) BY <1>0, <1>4, <1>6, SMTT(30)
  <2>4. ~(i + (p + 2 - q) <= Len(m)) /\ i + (p + 2 - q) - Len(m) = i - q + 1 BY <1>0, <1>6
  <2> QED BY <1>7, <2>2, <2>3, <2>4
<1>10. Len(m \o t) = Len(b) + (p + 2 - q) BY <1>0, <1>4, <1>6, <1>7
<1>11. (m \o t)[p + 1] = l BY <1>0, <1>6, <1>8
<1>12. \A i \in 1 .. p : (m \o t)[i] = b[i] BY <1>0, <1>6, <1>8
<1>13. Splice(b, p, l, q) = m \o t BY DEF Splice, m, s, t
<1> QED BY <1>7, <1>9, <1>10, <1>11, <1>12, <1>13

\* The same for arguments of which the bounds are known together.
Fits(b, p, l, q) == l \in Lines /\ p \in 0 .. Len(b) /\ q \in p + 1 .. Len(b) + 1

Lies(b, p, l, q) ==
  /\ Splice(b, p, l, q) \in Seq(Lines)
  /\ Len(Splice(b, p, l, q)) = Len(b) + (p + 2 - q)
  /\ \A i \in 1 .. p : Splice(b, p, l, q)[i] = b[i]
  /\ Splice(b, p, l, q)[p + 1] = l
  /\ \A i \in q .. Len(b) : Splice(b, p, l, q)[i + (p + 2 - q)] = b[i]

LEMMA FittingLies ==
  ASSUME NEW b \in Seq(Lines), NEW p, NEW l, NEW q, Fits(b, p, l, q)
  PROVE  Lies(b, p, l, q)
BY SpliceLies DEF Fits, Lies

LEMMA SpliceKeeps ==
  ASSUME NEW b \in Seq(Lines), NEW l \in Lines, NEW p \in 0 .. Len(b),
         NEW q \in p + 1 .. Len(b) + 1
  PROVE  /\ Splice(b, p, l, q) \in Seq(Lines)
         /\ \A i \in DOMAIN b : i <= p \/ i >= q =>
              \E j \in DOMAIN Splice(b, p, l, q) : Splice(b, p, l, q)[j] = b[i]
<1> DEFINE c == Splice(b, p, l, q)
<1>1. /\ c \in Seq(Lines) /\ Len(c) = Len(b) + (p + 2 - q)
      /\ \A i \in 1 .. p : c[i] = b[i]
      /\ \A i \in q .. Len(b) : c[i + (p + 2 - q)] = b[i]
  <2>1. Fits(b, p, l, q) BY DEF Fits
  <2>2. Lies(b, p, l, q) BY <2>1, FittingLies
  <2> QED BY <2>2 DEF Lies
<1> HIDE DEF c
<1>2. Len(b) \in Nat /\ DOMAIN b = 1 .. Len(b) /\ DOMAIN c = 1 .. Len(c) BY <1>1
<1>3. ASSUME NEW i \in DOMAIN b, i <= p PROVE i \in DOMAIN c /\ c[i] = b[i]
  BY <1>1, <1>2, <1>3
<1>4. ASSUME NEW i \in DOMAIN b, i >= q
      PROVE  i + (p + 2 - q) \in DOMAIN c /\ c[i + (p + 2 - q)] = b[i]
  BY <1>1, <1>2, <1>4
<1>5. c \in Seq(Lines)
      /\ \A i \in DOMAIN b : i <= p \/ i >= q => \E j \in DOMAIN c : c[j] = b[i]
  BY <1>1, <1>3, <1>4
<1> QED BY <1>5 DEF c

\* Every field of b is one of c.
Carries(b, c) ==
  \A i \in DOMAIN b : b[i].k = "field" =>
    \E j \in DOMAIN c : c[j].k = "field" /\ c[j].name = b[i].name

LEMMA CarriesNames ==
  ASSUME NEW b, NEW c, Carries(b, c)
  PROVE  Names(b) \subseteq Names(c)
BY DEF Carries, Names

LEMMA InsertedKeeps ==
  ASSUME NEW b \in Seq(Lines), NEW l \in Lines, NEW at \in 1 .. Len(b) + 1
  PROVE  Inserted(b, at, l) \in Seq(Lines) /\ Carries(b, Inserted(b, at, l))
<1>1. Len(b) \in Nat /\ DOMAIN b = 1 .. Len(b) OBVIOUS
<1>2. at - 1 \in 0 .. Len(b) /\ at \in (at - 1) + 1 .. Len(b) + 1 BY <1>1
<1>3. Inserted(b, at, l) = Splice(b, at - 1, l, at) BY DEF Inserted, Splice
<1>4. \A i \in DOMAIN b : i <= at - 1 \/ i >= at BY <1>1
<1> HIDE DEF Splice
<1>5. /\ Splice(b, at - 1, l, at) \in Seq(Lines)
      /\ \A i \in DOMAIN b : i <= at - 1 \/ i >= at =>
           \E j \in DOMAIN Splice(b, at - 1, l, at) : Splice(b, at - 1, l, at)[j] = b[i]
  BY <1>2, SpliceKeeps
<1> QED BY <1>3, <1>4, <1>5 DEF Carries

-----------------------------------------------------------------------------
(* Where a list lies                                                       *)

LEMMA AnchorIsAField ==
  ASSUME NEW b \in Seq(Lines), NEW name, Has(b, name)
  PROVE  /\ Anchor(b, name) \in DOMAIN b
         /\ b[Anchor(b, name)].k = "field" /\ b[Anchor(b, name)].name = name
<1>1. FieldLines(b, name) \in SUBSET Nat BY DEF FieldLines
<1>2. Min(FieldLines(b, name)) \in FieldLines(b, name) BY <1>1, MinOf DEF Has
<1> QED BY <1>2 DEF Anchor, FieldLines

\* The lines of a list are behind its anchor, and none of them is a field.
LEMMA StopIsBehind ==
  ASSUME NEW b \in Seq(Lines), NEW a \in DOMAIN b
  PROVE  /\ Stop(b, a) \in a + 1 .. Len(b) + 1
         /\ \A i \in a + 1 .. Stop(b, a) - 1 : i \in DOMAIN b /\ b[i].k # "field"
<1> DEFINE S == {i \in a + 1 .. Len(b) : TopLevel(b[i])} \cup {Len(b) + 1}
<1>1. Len(b) \in Nat /\ DOMAIN b = 1 .. Len(b) /\ a \in 1 .. Len(b) OBVIOUS
<1>2. S \in SUBSET Nat /\ S # {} /\ \A i \in S : i \in a + 1 .. Len(b) + 1 BY <1>1
<1>3. Min(S) \in S /\ \A k \in S : Min(S) <= k
  <2> HIDE DEF S
  <2> QED BY <1>2, MinOf
<1>4. Min(S) \in a + 1 .. Len(b) + 1 BY <1>2, <1>3
<1>5. ASSUME NEW i \in a + 1 .. Min(S) - 1
      PROVE  i \in DOMAIN b /\ b[i].k # "field"
  <2>1. i \in a + 1 .. Len(b) BY <1>1, <1>4
  <2>2. i \notin S
    <3>1. ~(Min(S) <= i) BY <1>1, <1>4
    <3> QED BY <1>3, <3>1
  <2>3. ~TopLevel(b[i]) BY <2>1, <2>2
  <2> QED BY <1>1, <2>1, <2>3 DEF TopLevel
<1>6. Stop(b, a) = Min(S) BY DEF Stop
<1> HIDE DEF S
<1> QED BY <1>4, <1>5, <1>6

LEMMA ItemsLie ==
  ASSUME NEW b \in Seq(Lines), NEW a \in DOMAIN b
  PROVE  /\ Items(b, a) \subseteq a + 1 .. Stop(b, a) - 1
         /\ Items(b, a) \subseteq DOMAIN b
BY StopIsBehind DEF Items

\* An item ends behind its line, and where the list does at the latest.
LEMMA EndIsBehind ==
  ASSUME NEW b \in Seq(Lines), NEW a \in DOMAIN b, NEW i \in Items(b, a)
  PROVE  End(b, a, i) \in i + 1 .. Stop(b, a)
<1> DEFINE S == {j \in Items(b, a) : j > i} \cup {Stop(b, a)}
<1>1. /\ Stop(b, a) \in Nat /\ i \in Nat /\ i + 1 <= Stop(b, a)
      /\ \A j \in Items(b, a) : j \in Nat /\ j <= Stop(b, a)
  BY ItemsLie, StopIsBehind
<1>a. ASSUME NEW j \in S PROVE j \in i + 1 .. Stop(b, a)
  <2>1. CASE j \in Items(b, a) /\ j > i BY <1>1, <2>1
  <2>2. CASE j = Stop(b, a) BY <1>1, <2>2
  <2> QED BY <2>1, <2>2
<1>b. i + 1 .. Stop(b, a) \subseteq Nat BY <1>1
<1>2. S \in SUBSET Nat /\ S # {} /\ \A j \in S : j \in i + 1 .. Stop(b, a)
  <2>1. S # {} OBVIOUS
  <2> HIDE DEF S
  <2> QED BY <1>a, <1>b, <2>1
<1>3. Min(S) \in S
  <2> HIDE DEF S
  <2> QED BY <1>2, MinOf
<1> QED BY <1>2, <1>3 DEF End

LEMMA IndentIsANumber ==
  ASSUME NEW b \in Seq(Lines), NEW a \in DOMAIN b
  PROVE  Indent(b, a) \in Nat
<1>1. CASE Items(b, a) = {} BY <1>1 DEF Indent
<1>2. CASE Items(b, a) # {}
  <2>1. Len(b) \in Nat /\ DOMAIN b = 1 .. Len(b) OBVIOUS
  <2>2. Items(b, a) \in SUBSET (0 .. Len(b)) BY <2>1, ItemsLie
  <2>3. Max(Items(b, a)) \in Items(b, a) BY <1>2, <2>1, <2>2, MaxOf
  <2>4. Max(Items(b, a)) \in DOMAIN b BY <2>3, ItemsLie
  <2>5. b[Max(Items(b, a))] \in Lines BY <2>4
  <2> QED BY <1>2, <2>5 DEF Indent, Lines
<1> QED BY <1>1, <1>2

LEMMA MappingIndentIsANumber ==
  ASSUME NEW b \in Seq(Lines), NEW a \in DOMAIN b, NEW i \in Items(b, a)
  PROVE  MappingIndent(b, a, i) \in Nat
<1> DEFINE S == {j \in i + 1 .. End(b, a, i) - 1 : b[j].k # "blank"}
<1>0. Len(b) \in Nat /\ DOMAIN b = 1 .. Len(b) /\ i \in 1 .. Len(b)
      /\ End(b, a, i) \in 1 .. Len(b) + 1
  BY EndIsBehind, ItemsLie, StopIsBehind
<1>1. CASE S = {} BY <1>1, IndentIsANumber DEF MappingIndent
<1>2. CASE S # {}
  <2>1. S \in SUBSET Nat /\ S \subseteq DOMAIN b BY <1>0
  <2>2. Min(S) \in S
    <3> HIDE DEF S
    <3> QED BY <1>2, <2>1, MinOf
  <2>3. b[Min(S)] \in Lines BY <2>1, <2>2
  <2> QED BY <1>2, <2>3 DEF MappingIndent, Lines
<1> QED BY <1>1, <1>2

-----------------------------------------------------------------------------
(* An update keeps the fields of a body.                                   *)

LEMMA SetFieldKeeps ==
  ASSUME NEW b \in Seq(Lines), NEW u \in Requests
  PROVE  SetField(b, u) \in Seq(Lines) /\ Carries(b, SetField(b, u))
<1> DEFINE f == Field(u.name, u.text)
<1>1. f \in Lines /\ f.k = "field" /\ f.name = u.name BY DEF Requests, Field, Line, Lines
<1> HIDE DEF f
<1>2. CASE Has(b, u.name)
  <2> DEFINE a == Anchor(b, u.name)
  <2>1. a \in DOMAIN b /\ b[a].name = u.name BY <1>2, AnchorIsAField
  <2> HIDE DEF a
  <2>2. [b EXCEPT ![a] = f] \in Seq(Lines) /\ DOMAIN [b EXCEPT ![a] = f] = DOMAIN b
    BY <1>1, <2>1
  <2>3. \A i \in DOMAIN b : [b EXCEPT ![a] = f][i] = IF i = a THEN f ELSE b[i] BY <2>1
  <2>4. Carries(b, [b EXCEPT ![a] = f]) BY <1>1, <2>1, <2>2, <2>3 DEF Carries
  <2>5. SetField(b, u) = [b EXCEPT ![a] = f] BY <1>2 DEF SetField, a, f
  <2> QED BY <2>2, <2>4, <2>5
<1>3. CASE ~Has(b, u.name)
  <2>1. /\ Append(b, f) \in Seq(Lines) /\ Len(Append(b, f)) = Len(b) + 1
        /\ \A i \in 1 .. Len(b) : Append(b, f)[i] = b[i]
    BY <1>1, AppendProperties
  <2>2. \A i \in DOMAIN b : i \in DOMAIN Append(b, f) /\ Append(b, f)[i] = b[i] BY <2>1
  <2>3. SetField(b, u) = Append(b, f) BY <1>3 DEF SetField, f
  <2> QED BY <2>1, <2>2, <2>3 DEF Carries
<1> QED BY <1>2, <1>3

LEMMA AppendedKeeps ==
  ASSUME NEW b \in Seq(Lines), NEW u \in Requests, Has(b, u.name)
  PROVE  Appended(b, u) \in Seq(Lines) /\ Carries(b, Appended(b, u))
<1> DEFINE a == Anchor(b, u.name)
           at == IF Items(b, a) = {} THEN a + 1 ELSE Stop(b, a)
           l == Item(Indent(b, a), None, u.text)
<1>1. a \in DOMAIN b BY AnchorIsAField
<1>2. Appended(b, u) = Inserted(b, at, l) BY DEF Appended
<1> HIDE DEF a
<1>3. at \in 1 .. Len(b) + 1
  <2>1. Stop(b, a) \in a + 1 .. Len(b) + 1 BY <1>1, StopIsBehind
  <2>2. a \in 1 .. Len(b) /\ Len(b) \in Nat BY <1>1
  <2> QED BY <2>1, <2>2
<1>4. l \in Lines
  <2>1. Indent(b, a) \in Nat BY <1>1, IndentIsANumber
  <2>2. u.text \in Texts BY DEF Requests
  <2> QED BY <2>1, <2>2, ItemIsALine
<1> HIDE DEF at, l
<1> QED BY <1>2, <1>3, <1>4, InsertedKeeps

\* The lines an item gives up are none but its own.
LEMMA ReplacedKeeps ==
  ASSUME NEW b \in Seq(Lines), NEW a \in DOMAIN b, NEW i \in Items(b, a), NEW text \in Texts
  PROVE  Replaced(b, a, i, text) \in Seq(Lines) /\ Carries(b, Replaced(b, a, i, text))
<1> DEFINE l == Item(Indent(b, a), None, text)
           e == End(b, a, i)
           s == Splice(b, i - 1, l, e)
<1>1. l \in Lines
  <2>1. Indent(b, a) \in Nat BY IndentIsANumber
  <2> QED BY <2>1, ItemIsALine
<1>2. Replaced(b, a, i, text) = s BY DEF Replaced, Splice
<1>3. Len(b) \in Nat /\ DOMAIN b = 1 .. Len(b) OBVIOUS
<1>4. e \in i + 1 .. Stop(b, a) /\ i \in a + 1 .. Stop(b, a) - 1 /\ i \in DOMAIN b
      /\ Stop(b, a) \in a + 1 .. Len(b) + 1
  BY EndIsBehind, ItemsLie, StopIsBehind
<1>5. \A j \in a + 1 .. Stop(b, a) - 1 : b[j].k # "field" BY StopIsBehind
<1> HIDE DEF l, e
<1>6. i - 1 \in 0 .. Len(b) /\ e \in (i - 1) + 1 .. Len(b) + 1 BY <1>3, <1>4
<1>7. /\ s \in Seq(Lines)
      /\ \A j \in DOMAIN b : j <= i - 1 \/ j >= e => \E k \in DOMAIN s : s[k] = b[j]
  <2> HIDE DEF Splice
  <2> QED BY <1>1, <1>6, SpliceKeeps
<1>8. ASSUME NEW j \in DOMAIN b, b[j].k = "field"
      PROVE  j <= i - 1 \/ j >= e
  <2>1. j \notin a + 1 .. Stop(b, a) - 1 BY <1>5, <1>8
  <2> QED BY <1>3, <1>4, <2>1
<1> HIDE DEF s
<1>9. Carries(b, s)
  <2>1. SUFFICES ASSUME NEW j \in DOMAIN b, b[j].k = "field"
        PROVE  \E k \in DOMAIN s : s[k].k = "field" /\ s[k].name = b[j].name
    BY DEF Carries
  <2>2. PICK k \in DOMAIN s : s[k] = b[j] BY <1>7, <1>8, <2>1
  <2> QED BY <2>1, <2>2
<1> QED BY <1>2, <1>7, <1>9

LEMMA SubReplacedKeeps ==
  ASSUME NEW b \in Seq(Lines), NEW a \in DOMAIN b, NEW i \in Items(b, a),
         NEW sub \in Texts, NEW text \in Texts
  PROVE  SubReplaced(b, a, i, sub, text) \in Seq(Lines)
         /\ Carries(b, SubReplaced(b, a, i, sub, text))
<1> DEFINE S == SubLines(b, a, i, sub)
<1>0. Len(b) \in Nat /\ DOMAIN b = 1 .. Len(b) /\ i \in 1 .. Len(b)
      /\ End(b, a, i) \in i + 1 .. Len(b) + 1
  BY EndIsBehind, ItemsLie, StopIsBehind
<1>1. CASE S = {}
  <2> DEFINE l == Sub(MappingIndent(b, a, i), sub, text)
  <2>1. l \in Lines
    <3>1. MappingIndent(b, a, i) \in Nat BY MappingIndentIsANumber
    <3> QED BY <3>1 DEF Sub, Line, Lines
  <2>2. SubReplaced(b, a, i, sub, text) = Inserted(b, End(b, a, i), l) BY <1>1 DEF SubReplaced
  <2>3. End(b, a, i) \in 1 .. Len(b) + 1 BY <1>0
  <2> HIDE DEF l
  <2> QED BY <2>1, <2>2, <2>3, InsertedKeeps
<1>2. CASE S # {}
  <2> DEFINE m == Min(S)
             n == [b EXCEPT ![m].text = text]
  <2>1. S \in SUBSET Nat /\ S \subseteq DOMAIN b BY <1>0 DEF SubLines
  <2>2. m \in DOMAIN b
    <3>1. Min(S) \in S
      <4> HIDE DEF S
      <4> QED BY <1>2, <2>1, MinOf
    <3> QED BY <2>1, <3>1
  <2>3. SubReplaced(b, a, i, sub, text) = n BY <1>2 DEF SubReplaced
  <2> HIDE DEF m
  <2>4. [b[m] EXCEPT !.text = text] \in Lines
    <3>1. b[m] \in Lines BY <2>2
    <3> QED BY <3>1 DEF Lines
  <2>5. n = [b EXCEPT ![m] = [b[m] EXCEPT !.text = text]] OBVIOUS
  <2>6. n \in Seq(Lines) /\ DOMAIN n = DOMAIN b BY <2>2, <2>4, <2>5
  <2>7. \A j \in DOMAIN b : n[j].k = b[j].k /\ n[j].name = b[j].name
    <3>1. TAKE j \in DOMAIN b
    <3>2. CASE j # m BY <3>2
    <3>3. CASE j = m
      <4>1. b[m] \in Lines BY <2>2
      <4>2. n[m] = [b[m] EXCEPT !.text = text] BY <2>2, <2>5
      <4> QED BY <3>3, <4>1, <4>2 DEF Lines
    <3> QED BY <3>2, <3>3
  <2> HIDE DEF n
  <2>8. Carries(b, n) BY <2>6, <2>7 DEF Carries
  <2> QED BY <2>3, <2>6, <2>8
<1> QED BY <1>1, <1>2

\* What updateListField adds for a list that is not there.
LEMMA NewListKeeps ==
  ASSUME NEW b \in Seq(Lines), NEW u \in Requests
  PROVE  /\ b \o <<Field(u.name, None), Item(2, None, u.text)>> \in Seq(Lines)
         /\ Carries(b, b \o <<Field(u.name, None), Item(2, None, u.text)>>)
<1> DEFINE t == <<Field(u.name, None), Item(2, None, u.text)>>
<1>1. Field(u.name, None) \in Lines BY DEF Field, Line, Lines, Requests, Texts
<1>2. Item(2, None, u.text) \in Lines
  <2>1. u.text \in Texts /\ 2 \in Nat BY DEF Requests
  <2> QED BY <2>1, ItemIsALine
<1>3. t \in Seq(Lines) BY <1>1, <1>2
<1> HIDE DEF t
<1>4. /\ b \o t \in Seq(Lines) /\ Len(b \o t) = Len(b) + Len(t)
      /\ \A i \in 1 .. Len(b) + Len(t) : (b \o t)[i] = IF i <= Len(b) THEN b[i] ELSE t[i - Len(b)]
  BY <1>3, ConcatProperties
<1>5. \A i \in DOMAIN b : i \in DOMAIN (b \o t) /\ (b \o t)[i] = b[i] BY <1>3, <1>4
<1>6. Carries(b, b \o t) BY <1>5 DEF Carries
<1> QED BY <1>4, <1>6 DEF t

\* Whatever is asked of @update-frontmatter, each field of the body is a
\* field of the new one.
THEOREM UpdateKeepsFields ==
  ASSUME NEW b \in Seq(Lines), NEW u \in Requests
  PROVE  Updated(b, u) \in Seq(Lines) /\ Names(b) \subseteq Names(Updated(b, u))
<1> DEFINE a == Anchor(b, u.name)
           i == CHOOSE j \in Nth(b, a, u.n) : TRUE
<1>0. u.op \in {"set", "append", "item"} /\ u.text \in Texts /\ u.sub \in Texts BY DEF Requests
<1>1. CASE Refused(b, u)
  <2>1. Updated(b, u) = b BY <1>1 DEF Updated, Refused
  <2> QED BY <2>1
<1>2. CASE u.op = "set"
  <2>1. ~Refused(b, u) BY <1>2 DEF Refused
  <2>2. Updated(b, u) = SetField(b, u) BY <1>2, <2>1 DEF Updated
  <2> QED BY <2>2, SetFieldKeeps, CarriesNames
<1>3. CASE u.op = "append" /\ ~Has(b, u.name)
  <2>1. ~Refused(b, u) BY <1>3 DEF Refused
  <2>2. Updated(b, u) = b \o <<Field(u.name, None), Item(2, None, u.text)>>
    BY <1>3, <2>1 DEF Updated
  <2> QED BY <2>2, NewListKeeps, CarriesNames
<1>4. CASE u.op = "append" /\ Has(b, u.name) /\ ~Refused(b, u)
  <2>1. Updated(b, u) = Appended(b, u) BY <1>4 DEF Updated
  <2> QED BY <1>4, <2>1, AppendedKeeps, CarriesNames
<1>5. CASE u.op = "item" /\ ~Refused(b, u)
  <2>1. Has(b, u.name) /\ Nth(b, a, u.n) # {} BY <1>5 DEF Refused
  <2>2. a \in DOMAIN b BY <2>1, AnchorIsAField
  <2>3. i \in Items(b, a) BY <2>1 DEF Nth
  <2>4. Updated(b, u) = IF u.sub = None THEN Replaced(b, a, i, u.text)
                        ELSE SubReplaced(b, a, i, u.sub, u.text)
    BY <1>5 DEF Updated
  <2> HIDE DEF a, i
  <2>5. CASE u.sub = None
    <3>1. Updated(b, u) = Replaced(b, a, i, u.text) BY <2>4, <2>5
    <3>2. Replaced(b, a, i, u.text) \in Seq(Lines) /\ Carries(b, Replaced(b, a, i, u.text))
      BY <1>0, <2>2, <2>3, ReplacedKeeps
    <3> QED BY <3>1, <3>2, CarriesNames
  <2>6. CASE u.sub # None
    <3>1. Updated(b, u) = SubReplaced(b, a, i, u.sub, u.text) BY <2>4, <2>6
    <3>2. SubReplaced(b, a, i, u.sub, u.text) \in Seq(Lines)
          /\ Carries(b, SubReplaced(b, a, i, u.sub, u.text))
      BY <1>0, <2>2, <2>3, SubReplacedKeeps
    <3> QED BY <3>1, <3>2, CarriesNames
  <2> QED BY <2>5, <2>6
<1> QED BY <1>0, <1>1, <1>2, <1>3, <1>4, <1>5

-----------------------------------------------------------------------------
(* Where fields, lists and items lie, told from the lines around them      *)

LEMMA MinIs ==
  ASSUME NEW S \in SUBSET Nat, NEW m \in S, \A k \in S : m <= k
  PROVE  Min(S) = m
<1>1. Min(S) \in S /\ Min(S) <= m BY MinOf
<1>2. m <= Min(S) /\ Min(S) \in Nat /\ m \in Nat BY <1>1
<1> QED BY <1>1, <1>2

LEMMA AnchorIs ==
  ASSUME NEW b \in Seq(Lines), NEW name, NEW p \in DOMAIN b,
         b[p].k = "field", b[p].name = name,
         \A i \in 1 .. p - 1 : ~(b[i].k = "field" /\ b[i].name = name)
  PROVE  Has(b, name) /\ Anchor(b, name) = p
<1> DEFINE S == FieldLines(b, name)
<1>1. Len(b) \in Nat /\ DOMAIN b = 1 .. Len(b) OBVIOUS
<1>2. p \in S /\ S \in SUBSET Nat BY <1>1 DEF FieldLines
<1>3. \A k \in S : p <= k
  <2>1. TAKE k \in S
  <2>2. k \in 1 .. Len(b) /\ b[k].k = "field" /\ b[k].name = name BY <1>1 DEF FieldLines
  <2> QED BY <1>1, <2>2
<1> HIDE DEF S
<1>4. Min(S) = p BY <1>2, <1>3, MinIs
<1> QED BY <1>2, <1>4 DEF S, Has, Anchor

\* The anchor is the first line that names its field.
LEMMA AnchorIsFirst ==
  ASSUME NEW b \in Seq(Lines), NEW name, Has(b, name)
  PROVE  \A i \in 1 .. Anchor(b, name) - 1 : ~(b[i].k = "field" /\ b[i].name = name)
<1> DEFINE S == FieldLines(b, name)
<1>1. Len(b) \in Nat /\ DOMAIN b = 1 .. Len(b) OBVIOUS
<1>2. S \in SUBSET Nat /\ S # {} BY <1>1 DEF FieldLines, Has
<1>3. Min(S) \in S /\ \A k \in S : Min(S) <= k
  <2> HIDE DEF S
  <2> QED BY <1>2, MinOf
<1>4. Min(S) \in 1 .. Len(b) BY <1>1, <1>3 DEF FieldLines
<1>5. ASSUME NEW i \in 1 .. Min(S) - 1 PROVE ~(b[i].k = "field" /\ b[i].name = name)
  <2>1. i \in DOMAIN b /\ ~(Min(S) <= i) BY <1>1, <1>4
  <2>2. i \notin S BY <1>3, <2>1
  <2> QED BY <2>1, <2>2 DEF FieldLines
<1> QED BY <1>5 DEF Anchor

\* What lies between an anchor and the line behind its list, and what that is.
Between(b, a, t) ==
  /\ t \in a + 1 .. Len(b) + 1
  /\ t = Len(b) + 1 \/ TopLevel(b[t])
  /\ \A i \in a + 1 .. t - 1 : ~TopLevel(b[i])

LEMMA StopIsBetween ==
  ASSUME NEW b \in Seq(Lines), NEW a \in DOMAIN b
  PROVE  Between(b, a, Stop(b, a))
<1> DEFINE S == {i \in a + 1 .. Len(b) : TopLevel(b[i])} \cup {Len(b) + 1}
<1>1. Len(b) \in Nat /\ DOMAIN b = 1 .. Len(b) /\ a \in 1 .. Len(b) OBVIOUS
<1>2. S \in SUBSET Nat /\ S # {} /\ \A i \in S : i \in a + 1 .. Len(b) + 1 BY <1>1
<1>3. Min(S) \in S /\ \A k \in S : Min(S) <= k
  <2> HIDE DEF S
  <2> QED BY <1>2, MinOf
<1>4. Min(S) \in a + 1 .. Len(b) + 1 BY <1>2, <1>3
<1>5. ASSUME NEW i \in a + 1 .. Min(S) - 1 PROVE ~TopLevel(b[i])
  <2>1. i \in a + 1 .. Len(b) /\ ~(Min(S) <= i) BY <1>1, <1>4
  <2>2. i \notin S BY <1>3, <2>1
  <2> QED BY <2>1, <2>2
<1>6. Min(S) = Len(b) + 1 \/ TopLevel(b[Min(S)]) BY <1>3
<1>7. Stop(b, a) = Min(S) BY DEF Stop
<1> HIDE DEF S
<1> QED BY <1>4, <1>5, <1>6, <1>7 DEF Between

LEMMA StopIs ==
  ASSUME NEW b \in Seq(Lines), NEW a \in DOMAIN b, NEW t, Between(b, a, t)
  PROVE  Stop(b, a) = t
<1> DEFINE S == {i \in a + 1 .. Len(b) : TopLevel(b[i])} \cup {Len(b) + 1}
<1>1. Len(b) \in Nat /\ DOMAIN b = 1 .. Len(b) /\ a \in 1 .. Len(b) OBVIOUS
<1>2. S \in SUBSET Nat BY <1>1
<1>3. t \in S BY <1>1 DEF Between
<1>4. \A k \in S : t <= k
  <2>1. TAKE k \in S
  <2>2. t \in a + 1 .. Len(b) + 1 /\ \A i \in a + 1 .. t - 1 : ~TopLevel(b[i]) BY DEF Between
  <2>3. CASE k = Len(b) + 1 BY <1>1, <2>2, <2>3
  <2>4. CASE k \in a + 1 .. Len(b) /\ TopLevel(b[k])
    <3>1. k \notin a + 1 .. t - 1 BY <2>2, <2>4
    <3> QED BY <1>1, <2>2, <2>4, <3>1
  <2> QED BY <2>3, <2>4
<1>5. Stop(b, a) = Min(S) BY DEF Stop
<1> HIDE DEF S
<1> QED BY <1>2, <1>3, <1>4, <1>5, MinIs

-----------------------------------------------------------------------------
(* Counting what comes before                                              *)

Before(S, i) == {j \in S : j < i}

\* A finite set of places in a sequence.
Places(S) == S \subseteq Nat /\ IsFiniteSet(S)

LEMMA BeforeIsFinite ==
  ASSUME NEW S, Places(S), NEW i
  PROVE  IsFiniteSet(Before(S, i)) /\ Cardinality(Before(S, i)) \in Nat
<1>1. Before(S, i) \in SUBSET S BY DEF Before
<1>2. IsFiniteSet(Before(S, i)) BY <1>1, FS_Subset DEF Places
<1> QED BY <1>2, FS_CardinalityType

\* Of two members of a set, the later has more before it.
LEMMA CountsTellApart ==
  ASSUME NEW S, Places(S), NEW i \in S, NEW j \in S,
         Cardinality(Before(S, i)) = Cardinality(Before(S, j))
  PROVE  i = j
<1>0. \A z \in S : z \in Nat BY DEF Places
<1>1. ASSUME NEW x \in S, NEW y \in S, x < y
      PROVE  Cardinality(Before(S, x)) # Cardinality(Before(S, y))
  <2>1. \A z \in S : z < x => z < y BY <1>0, <1>1
  <2>2. Before(S, x) \in SUBSET Before(S, y) BY <2>1 DEF Before
  <2>3. x \in Before(S, y) /\ x \notin Before(S, x) BY <1>0, <1>1 DEF Before
  <2>4. IsFiniteSet(Before(S, y)) BY BeforeIsFinite
  <2> QED BY <2>2, <2>3, <2>4, FS_Subset
<1>2. ~(i < j) /\ ~(j < i) BY <1>1
<1> QED BY <1>0, <1>2

\* A map of S onto T that keeps the order.
Aligns(m, S, T) ==
  /\ m \in [S -> T]
  /\ \A t \in T : \E s \in S : m[s] = t
  /\ \A i, j \in S : m[i] < m[j] <=> i < j

LEMMA AlignedCounts ==
  ASSUME NEW S, Places(S), NEW T, Places(T),
         NEW m, Aligns(m, S, T), NEW i \in S
  PROVE  Cardinality(Before(T, m[i])) = Cardinality(Before(S, i))
<1> DEFINE B == Before(S, i)
           C == Before(T, m[i])
           f == [j \in B |-> m[j]]
<1>0. /\ m \in [S -> T] /\ \A t \in T : \E s \in S : m[s] = t
      /\ \A x, y \in S : m[x] < m[y] <=> x < y
  BY DEF Aligns
<1>a. \A s \in S : s \in Nat BY DEF Places
<1>b. \A t \in T : t \in Nat BY DEF Places
<1>1. \A j \in B : j \in S /\ j < i BY DEF Before
<1>2. \A j \in C : j \in T /\ j < m[i] BY DEF Before
<1>3. \A j \in B : m[j] \in C BY <1>0, <1>1 DEF Before
<1>4. ASSUME NEW c \in C PROVE \E j \in B : m[j] = c
  <2>1. PICK s \in S : m[s] = c BY <1>0, <1>2
  <2>2. s < i BY <1>0, <1>2, <2>1
  <2> QED BY <2>1, <2>2 DEF Before
<1>5. ASSUME NEW x \in B, NEW y \in B, m[x] = m[y] PROVE x = y
  <2>1. m[x] \in Nat /\ m[y] \in Nat /\ x \in Nat /\ y \in Nat BY <1>0, <1>1, <1>a, <1>b
  <2>2. ~(m[x] < m[y]) /\ ~(m[y] < m[x]) BY <1>5, <2>1
  <2>3. ~(x < y) /\ ~(y < x) BY <1>0, <1>1, <2>2
  <2> QED BY <2>1, <2>3
<1>6. IsFiniteSet(B) BY BeforeIsFinite
<1> HIDE DEF B, C
<1>7. f \in [B -> C] BY <1>3
<1>8. \A x \in B : f[x] = m[x] OBVIOUS
<1> HIDE DEF f
<1>9. f \in Bijection(B, C)
  BY <1>4, <1>5, <1>7, <1>8 DEF Bijection, Injection, Surjection, IsInjective
<1>10. ExistsBijection(B, C) BY <1>9 DEF ExistsBijection
<1>11. Cardinality(C) = Cardinality(B) BY <1>6, <1>10, FS_Bijection
<1> QED BY <1>11 DEF B, C

\* ItemTexts, item by item.
LEMMA ItemTextsAre ==
  ASSUME NEW b, NEW a
  PROVE  ItemTexts(b, a) =
           {<<Cardinality(Before(Items(b, a), i)), b[i].name, b[i].text>> : i \in Items(b, a)}
BY DEF ItemTexts, Before

LEMMA ItemsAreLines ==
  ASSUME NEW b \in Seq(Lines), NEW a \in DOMAIN b
  PROVE  Len(b) \in Nat /\ Items(b, a) \subseteq 1 .. Len(b) /\ Places(Items(b, a))
<1>1. Len(b) \in Nat /\ Items(b, a) \in SUBSET (1 .. Len(b)) BY ItemsLie
<1>2. IsFiniteSet(1 .. Len(b)) BY <1>1, FS_Interval
<1>3. IsFiniteSet(Items(b, a)) BY <1>1, <1>2, FS_Subset
<1> QED BY <1>1, <1>3 DEF Places

\* Items that keep their order and their texts are read as before.
LEMMA AlignedTexts ==
  ASSUME NEW b \in Seq(Lines), NEW a \in DOMAIN b, NEW c \in Seq(Lines), NEW e \in DOMAIN c,
         NEW m, Aligns(m, Items(b, a), Items(c, e)),
         \A i \in Items(b, a) : c[m[i]].name = b[i].name /\ c[m[i]].text = b[i].text
  PROVE  ItemTexts(c, e) = ItemTexts(b, a)
<1> DEFINE S == Items(b, a)
           T == Items(c, e)
           Was(i) == <<Cardinality(Before(S, i)), b[i].name, b[i].text>>
           Is(i) == <<Cardinality(Before(T, i)), c[i].name, c[i].text>>
<1>1. Places(S) /\ Places(T) BY ItemsAreLines
<1>2. \A i \in S : Cardinality(Before(T, m[i])) = Cardinality(Before(S, i))
  <2>1. Aligns(m, S, T) OBVIOUS
  <2> HIDE DEF S, T
  <2> QED BY <1>1, <2>1, AlignedCounts
<1>3. \A i \in S : Is(m[i]) = Was(i) BY <1>2
<1>4. (\A i \in S : m[i] \in T) /\ \A t \in T : \E s \in S : m[s] = t BY DEF Aligns
<1>5. ItemTexts(b, a) = {Was(i) : i \in S} /\ ItemTexts(c, e) = {Is(i) : i \in T}
  BY ItemTextsAre
<1> HIDE DEF S, T, Was, Is
<1> QED BY <1>3, <1>4, <1>5

\* A list that lies elsewhere is read as before.
LEMMA MovedTexts ==
  ASSUME NEW b \in Seq(Lines), NEW a \in DOMAIN b, NEW c \in Seq(Lines), NEW d \in Int,
         a + d \in DOMAIN c, Stop(c, a + d) = Stop(b, a) + d,
         \A i \in a + 1 .. Stop(b, a) - 1 : c[i + d] = b[i]
  PROVE  ItemTexts(c, a + d) = ItemTexts(b, a)
<1> DEFINE S == Items(b, a)
           T == Items(c, a + d)
           m == [i \in S |-> i + d]
<1>0. a \in Nat /\ Stop(b, a) \in Nat BY StopIsBehind
<1>1. \A i \in S : i \in a + 1 .. Stop(b, a) - 1 /\ b[i].k = "item" BY DEF Items
<1>2. ASSUME NEW i \in S PROVE i + d \in T
  <2>1. i + d \in (a + d) + 1 .. Stop(c, a + d) - 1 BY <1>0, <1>1
  <2> QED BY <1>1, <2>1 DEF Items
<1>3. ASSUME NEW t \in T PROVE t - d \in S /\ (t - d) + d = t
  <2>1. t \in (a + d) + 1 .. Stop(c, a + d) - 1 /\ c[t].k = "item" BY DEF Items
  <2>2. t - d \in a + 1 .. Stop(b, a) - 1 /\ (t - d) + d = t BY <1>0, <2>1
  <2> QED BY <2>1, <2>2 DEF Items
<1>4. \A i \in S : c[i + d] = b[i] BY <1>1
<1>5. \A i \in S : i \in Int BY <1>0, <1>1
<1> HIDE DEF S, T
<1>6. m \in [S -> T] /\ \A i \in S : m[i] = i + d BY <1>2
<1> HIDE DEF m
<1>7. Aligns(m, S, T)
  <2>1. \A t \in T : \E s \in S : m[s] = t BY <1>3, <1>6
  <2>2. \A i, j \in S : m[i] < m[j] <=> i < j BY <1>5, <1>6
  <2> QED BY <1>6, <2>1, <2>2 DEF Aligns
<1> QED BY <1>4, <1>6, <1>7, AlignedTexts DEF S, T

-----------------------------------------------------------------------------
(* Changes to one field and its list                                       *)

\* c is b but for the field at line p and its list, which ends before line s;
\* what is behind it comes to lie d lines on.  A new field stands at the end.
Local(b, c, p, s, d, name) ==
  /\ d \in Int /\ s \in 1 .. Len(b) + 1 /\ p \in 1 .. s /\ p < s + d /\ Len(c) = Len(b) + d
  /\ \A i \in 1 .. p - 1 : c[i] = b[i]
  /\ \A i \in s .. Len(b) : c[i + d] = b[i]
  /\ p < s => b[p].k = "field" /\ b[p].name = name /\ Between(b, p, s)
  /\ p = s => p = Len(b) + 1
  /\ c[p].k = "field" /\ c[p].name = name
  /\ \A i \in p + 1 .. s + d - 1 : ~TopLevel(c[i])
  /\ \A i \in 1 .. p - 1 : ~(b[i].k = "field" /\ b[i].name = name)

LEMMA LocalAnchor ==
  ASSUME NEW b \in Seq(Lines), NEW c \in Seq(Lines), NEW p, NEW s, NEW d, NEW name,
         Local(b, c, p, s, d, name)
  PROVE  /\ Has(c, name) /\ Anchor(c, name) = p /\ p \in DOMAIN c
         /\ Stop(c, p) = s + d
<1>1. Len(b) \in Nat /\ Len(c) \in Nat /\ DOMAIN b = 1 .. Len(b) /\ DOMAIN c = 1 .. Len(c)
  OBVIOUS
<1>2. p \in DOMAIN c BY <1>1 DEF Local
<1>3. \A i \in 1 .. p - 1 : ~(c[i].k = "field" /\ c[i].name = name) BY DEF Local
<1>4. c[p].k = "field" /\ c[p].name = name BY DEF Local
<1>5. Between(c, p, s + d)
  <2>0. p \in Int /\ s \in Int /\ d \in Int BY <1>1 DEF Local
  <2>1. s + d \in p + 1 .. Len(c) + 1 BY <1>1 DEF Local
  <2>2. s + d = Len(c) + 1 \/ TopLevel(c[s + d])
    <3>1. CASE s = Len(b) + 1 BY <1>1, <3>1 DEF Local
    <3>2. CASE s # Len(b) + 1
      <4>1. s \in s .. Len(b) BY <1>1, <3>2 DEF Local
      <4>2. c[s + d] = b[s] BY <4>1 DEF Local
      <4>3. p < s BY <1>1, <3>2 DEF Local
      <4>4. TopLevel(b[s]) BY <3>2, <4>3 DEF Local, Between
      <4> QED BY <4>2, <4>4
    <3> QED BY <3>1, <3>2
  <2>3. \A i \in p + 1 .. s + d - 1 : ~TopLevel(c[i]) BY DEF Local
  <2> QED BY <2>0, <2>1, <2>2, <2>3 DEF Between
<1> QED BY <1>2, <1>3, <1>4, <1>5, AnchorIs, StopIs

\* Where a line of b is in c, and the other way round.
LEMMA LocalLines ==
  ASSUME NEW b \in Seq(Lines), NEW c \in Seq(Lines), NEW p, NEW s, NEW d, NEW name,
         Local(b, c, p, s, d, name)
  PROVE  /\ \A i \in DOMAIN b : TopLevel(b[i]) =>
              \/ i < p /\ i \in DOMAIN c /\ c[i] = b[i]
              \/ i = p /\ b[i].k = "field" /\ b[i].name = name
              \/ i >= s /\ i + d \in DOMAIN c /\ c[i + d] = b[i]
         /\ \A i \in DOMAIN c : TopLevel(c[i]) =>
              \/ i < p /\ i \in DOMAIN b /\ c[i] = b[i]
              \/ i = p
              \/ i - d >= s /\ i - d \in DOMAIN b /\ c[i] = b[i - d]
<1>1. Len(b) \in Nat /\ Len(c) \in Nat /\ DOMAIN b = 1 .. Len(b) /\ DOMAIN c = 1 .. Len(c)
  OBVIOUS
<1>2. /\ d \in Int /\ s \in 1 .. Len(b) + 1 /\ p \in 1 .. s /\ p < s + d
      /\ Len(c) = Len(b) + d
      /\ \A i \in 1 .. p - 1 : c[i] = b[i]
      /\ \A i \in s .. Len(b) : c[i + d] = b[i]
      /\ p < s => b[p].k = "field" /\ b[p].name = name /\ Between(b, p, s)
      /\ p = s => p = Len(b) + 1
      /\ \A i \in p + 1 .. s + d - 1 : ~TopLevel(c[i])
  BY DEF Local
<1>3. ASSUME NEW i \in DOMAIN b, TopLevel(b[i])
      PROVE  \/ i < p /\ i \in DOMAIN c /\ c[i] = b[i]
             \/ i = p /\ b[i].k = "field" /\ b[i].name = name
             \/ i >= s /\ i + d \in DOMAIN c /\ c[i + d] = b[i]
  <2>1. CASE i < p BY <1>1, <1>2, <2>1
  <2>2. CASE i >= s BY <1>1, <1>2, <2>2
  <2>3. CASE i >= p /\ i < s
    <3>1. p < s /\ \A j \in p + 1 .. s - 1 : ~TopLevel(b[j]) BY <1>1, <1>2, <2>3 DEF Between
    <3>2. i \notin p + 1 .. s - 1 BY <1>3, <3>1
    <3>3. i = p BY <1>1, <1>2, <2>3, <3>2
    <3> QED BY <1>2, <3>1, <3>3
  <2> QED BY <1>1, <1>2, <2>1, <2>2, <2>3
<1>4. ASSUME NEW i \in DOMAIN c, TopLevel(c[i])
      PROVE  \/ i < p /\ i \in DOMAIN b /\ c[i] = b[i]
             \/ i = p
             \/ i - d >= s /\ i - d \in DOMAIN b /\ c[i] = b[i - d]
  <2>1. CASE i < p BY <1>1, <1>2, <2>1
  <2>2. CASE i >= s + d
    <3>1. i - d \in s .. Len(b) /\ (i - d) + d = i BY <1>1, <1>2, <2>2
    <3>2. c[(i - d) + d] = b[i - d] BY <1>2, <3>1
    <3> QED BY <1>1, <1>2, <3>1, <3>2
  <2>3. CASE i >= p /\ i < s + d
    <3>1. i \notin p + 1 .. s + d - 1 BY <1>2, <1>4
    <3> QED BY <1>1, <1>2, <2>3, <3>1
  <2> QED BY <1>1, <1>2, <2>1, <2>2, <2>3
<1> QED BY <1>3, <1>4

LEMMA NamesAre ==
  ASSUME NEW b, NEW name
  PROVE  /\ name \in Names(b) <=> \E i \in DOMAIN b : b[i].k = "field" /\ b[i].name = name
         /\ name \in Names(b) <=> Has(b, name)
BY DEF Names, Has, FieldLines

LEMMA LocalNames ==
  ASSUME NEW b \in Seq(Lines), NEW c \in Seq(Lines), NEW p, NEW s, NEW d, NEW name,
         Local(b, c, p, s, d, name)
  PROVE  Names(c) = Names(b) \cup {name}
<1>1. ASSUME NEW x \in Names(c) PROVE x \in Names(b) \cup {name}
  <2>1. PICK i \in DOMAIN c : c[i].k = "field" /\ c[i].name = x BY NamesAre
  <2>2. TopLevel(c[i]) BY <2>1 DEF TopLevel
  <2>3. \/ i \in DOMAIN b /\ c[i] = b[i]
        \/ i = p
        \/ i - d \in DOMAIN b /\ c[i] = b[i - d]
    BY <2>2, LocalLines
  <2>4. CASE i = p BY <2>1, <2>4 DEF Local
  <2>5. CASE \E j \in DOMAIN b : c[i] = b[j]
    <3>1. PICK j \in DOMAIN b : c[i] = b[j] BY <2>5
    <3> QED BY <2>1, <3>1, NamesAre
  <2> QED BY <2>3, <2>4, <2>5
<1>2. ASSUME NEW x \in Names(b) PROVE x \in Names(c) \cup {name}
  <2>1. PICK i \in DOMAIN b : b[i].k = "field" /\ b[i].name = x BY NamesAre
  <2>2. TopLevel(b[i]) BY <2>1 DEF TopLevel
  <2>3. \/ i \in DOMAIN c /\ c[i] = b[i]
        \/ b[i].name = name
        \/ i + d \in DOMAIN c /\ c[i + d] = b[i]
    BY <2>2, LocalLines
  <2>4. CASE b[i].name = name BY <2>1, <2>4
  <2>5. CASE \E j \in DOMAIN c : c[j] = b[i]
    <3>1. PICK j \in DOMAIN c : c[j] = b[i] BY <2>5
    <3> QED BY <2>1, <3>1, NamesAre
  <2> QED BY <2>3, <2>4, <2>5
<1>3. name \in Names(c) BY LocalAnchor, NamesAre
<1> QED BY <1>1, <1>2, <1>3

\* A field that keeps its text and the texts of its items is read as before.
LEMMA ReadAlike ==
  ASSUME NEW b, NEW c, NEW name, Has(b, name), Has(c, name),
         c[Anchor(c, name)].text = b[Anchor(b, name)].text,
         ItemTexts(c, Anchor(c, name)) = ItemTexts(b, Anchor(b, name))
  PROVE  Reading(c, name) = Reading(b, name)
BY DEF Reading

LEMMA LocalReads ==
  ASSUME NEW b \in Seq(Lines), NEW c \in Seq(Lines), NEW p, NEW s, NEW d, NEW name,
         Local(b, c, p, s, d, name), NEW other, other # name, Has(b, other)
  PROVE  Reading(c, other) = Reading(b, other)
<1> DEFINE a == Anchor(b, other)
           t == Stop(b, a)
<1>1. Len(b) \in Nat /\ Len(c) \in Nat /\ DOMAIN b = 1 .. Len(b) /\ DOMAIN c = 1 .. Len(c)
  OBVIOUS
<1>2. /\ d \in Int /\ s \in 1 .. Len(b) + 1 /\ p \in 1 .. s /\ p < s + d
      /\ Len(c) = Len(b) + d
      /\ \A i \in 1 .. p - 1 : c[i] = b[i]
      /\ \A i \in s .. Len(b) : c[i + d] = b[i]
      /\ p < s => b[p].k = "field" /\ b[p].name = name /\ Between(b, p, s)
      /\ p = s => p = Len(b) + 1
      /\ c[p].k = "field" /\ c[p].name = name
      /\ \A i \in p + 1 .. s + d - 1 : ~TopLevel(c[i])
  BY DEF Local
<1>3. a \in DOMAIN b /\ b[a].k = "field" /\ b[a].name = other BY AnchorIsAField
<1>4. \A i \in 1 .. a - 1 : ~(b[i].k = "field" /\ b[i].name = other) BY AnchorIsFirst
<1>5. Between(b, a, t) BY <1>3, StopIsBetween
<1>6. a < p \/ a >= s
  <2>1. TopLevel(b[a]) BY <1>3 DEF TopLevel
  <2> QED BY <1>3, <2>1, LocalLines
<1> HIDE DEF a, t
<1>7. CASE a < p
  <2>1. a \in DOMAIN c /\ c[a] = b[a] BY <1>1, <1>2, <1>3, <1>7
  <2>2. \A i \in 1 .. a - 1 : ~(c[i].k = "field" /\ c[i].name = other) BY <1>1, <1>2, <1>3, <1>4, <1>7
  <2>3. Has(c, other) /\ Anchor(c, other) = a BY <1>3, <2>1, <2>2, AnchorIs
  <2>4. t <= p
    <3>1. t \in a + 1 .. Len(b) + 1 /\ \A i \in a + 1 .. t - 1 : ~TopLevel(b[i]) BY <1>5 DEF Between
    <3>2. CASE p = s BY <1>1, <1>2, <1>3, <3>1, <3>2
    <3>3. CASE p < s
      <4>1. TopLevel(b[p]) BY <1>2, <3>3 DEF TopLevel
      <4>2. p \notin a + 1 .. t - 1 BY <3>1, <4>1
      <4> QED BY <1>1, <1>2, <1>3, <1>7, <3>1, <4>2
    <3> QED BY <1>2, <3>2, <3>3
  <2>5. \A i \in a + 1 .. t - 1 : c[i] = b[i] BY <1>1, <1>2, <1>3, <1>5, <2>4 DEF Between
  <2>6. Between(c, a, t)
    <3>1. t \in a + 1 .. Len(b) + 1 BY <1>5 DEF Between
    <3>2. t \in a + 1 .. Len(c) + 1 BY <1>1, <1>2, <1>3, <2>4, <3>1
    <3>3. \A i \in a + 1 .. t - 1 : ~TopLevel(c[i]) BY <1>5, <2>5 DEF Between
    <3>4. TopLevel(c[t])
      <4>1. CASE t = p BY <1>2, <4>1 DEF TopLevel
      <4>2. CASE t < p
        <5>1. t # Len(b) + 1 /\ t \in 1 .. p - 1 BY <1>1, <1>2, <1>3, <3>1, <4>2
        <5>2. TopLevel(b[t]) BY <1>5, <5>1 DEF Between
        <5> QED BY <1>2, <5>1, <5>2
      <4> QED BY <1>1, <1>2, <1>3, <2>4, <3>1, <4>1, <4>2
    <3> QED BY <3>2, <3>3, <3>4 DEF Between
  <2>7. Stop(c, a) = t BY <2>1, <2>6, StopIs
  <2>8. ItemTexts(c, a) = ItemTexts(b, a)
    <3>1. a + 0 = a /\ t + 0 = t /\ \A i \in a + 1 .. t - 1 : i + 0 = i
      BY <1>1, <1>3, <1>5 DEF Between
    <3>2. Stop(c, a + 0) = Stop(b, a) + 0 /\ a + 0 \in DOMAIN c
      BY <2>1, <2>7, <3>1 DEF t
    <3>3. \A i \in a + 1 .. Stop(b, a) - 1 : c[i + 0] = b[i] BY <2>5, <3>1 DEF t
    <3>4. ItemTexts(c, a + 0) = ItemTexts(b, a) BY <1>3, <3>2, <3>3, MovedTexts
    <3> QED BY <3>1, <3>4
  <2> QED BY <2>1, <2>3, <2>8, ReadAlike DEF a
<1>8. CASE a >= s
  <2>1. a + d \in DOMAIN c /\ c[a + d] = b[a] BY <1>1, <1>2, <1>3, <1>8
  <2>2. ASSUME NEW i \in 1 .. (a + d) - 1, c[i].k = "field", c[i].name = other PROVE FALSE
    <3>1. i \in DOMAIN c /\ TopLevel(c[i]) BY <1>1, <1>2, <1>3, <2>1, <2>2 DEF TopLevel
    <3>2. i # p BY <1>2, <2>2
    <3>3. \/ i < p /\ c[i] = b[i]
          \/ i - d >= s /\ i - d \in DOMAIN b /\ c[i] = b[i - d]
      BY <3>1, <3>2, LocalLines
    <3>4. CASE i < p /\ c[i] = b[i]
      <4>1. i \in 1 .. a - 1 BY <1>1, <1>2, <1>3, <1>8, <3>4
      <4> QED BY <1>4, <2>2, <3>4, <4>1
    <3>5. CASE i - d >= s /\ i - d \in DOMAIN b /\ c[i] = b[i - d]
      <4>1. i - d \in 1 .. a - 1 BY <1>1, <1>2, <1>3, <3>5
      <4> QED BY <1>4, <2>2, <3>5, <4>1
    <3> QED BY <3>3, <3>4, <3>5
  <2>3. Has(c, other) /\ Anchor(c, other) = a + d
    <3> DEFINE e == a + d
    <3>1. e \in DOMAIN c /\ c[e].k = "field" /\ c[e].name = other BY <1>3, <2>1
    <3>2. \A i \in 1 .. e - 1 : ~(c[i].k = "field" /\ c[i].name = other) BY <2>2
    <3> HIDE DEF e
    <3>3. Has(c, other) /\ Anchor(c, other) = e BY <3>1, <3>2, AnchorIs
    <3> QED BY <3>3 DEF e
  <2>4. \A i \in a + 1 .. t - 1 : c[i + d] = b[i] BY <1>1, <1>2, <1>3, <1>5, <1>8 DEF Between
  <2>5. Between(c, a + d, t + d)
    <3>1. t \in a + 1 .. Len(b) + 1 BY <1>5 DEF Between
    <3>2. t + d \in (a + d) + 1 .. Len(c) + 1 BY <1>1, <1>2, <1>3, <3>1
    <3>3. ASSUME NEW i \in (a + d) + 1 .. (t + d) - 1 PROVE ~TopLevel(c[i])
      <4>1. i - d \in a + 1 .. t - 1 /\ (i - d) + d = i BY <1>1, <1>2, <1>3, <3>1
      <4>2. c[(i - d) + d] = b[i - d] /\ ~TopLevel(b[i - d]) BY <1>5, <2>4, <4>1 DEF Between
      <4> QED BY <4>1, <4>2
    <3>4. t + d = Len(c) + 1 \/ TopLevel(c[t + d])
      <4>1. CASE t = Len(b) + 1 BY <1>1, <1>2, <4>1
      <4>2. CASE t # Len(b) + 1
        <5>a. t \in Int /\ t <= Len(b) + 1 /\ t > a BY <1>1, <1>3, <3>1
        <5>0. t \in Int /\ a \in Int /\ s \in Int /\ t <= Len(b) /\ t > a
          BY <1>1, <1>2, <1>3, <4>2, <5>a
        <5>1. t \in s .. Len(b) BY <1>1, <1>8, <5>0
        <5>2. TopLevel(b[t]) BY <1>5, <4>2 DEF Between
        <5> QED BY <1>2, <5>1, <5>2
      <4> QED BY <4>1, <4>2
    <3> QED BY <3>2, <3>3, <3>4 DEF Between
  <2>6. Stop(c, a + d) = t + d BY <2>1, <2>5, StopIs
  <2>7. ItemTexts(c, a + d) = ItemTexts(b, a) BY <1>2, <1>3, <2>1, <2>4, <2>6, MovedTexts DEF t
  <2> QED BY <2>1, <2>3, <2>7, ReadAlike DEF a
<1> QED BY <1>6, <1>7, <1>8

\* Every update of write-ops.ts is local to the field it is asked about.
LEMMA SpliceIsLocal ==
  ASSUME NEW b \in Seq(Lines), NEW name, Has(b, name), NEW l \in Lines, ~TopLevel(l),
         NEW p \in Anchor(b, name) .. Len(b), NEW q \in p + 1 .. Stop(b, Anchor(b, name))
  PROVE  /\ Splice(b, p, l, q) \in Seq(Lines)
         /\ Local(b, Splice(b, p, l, q), Anchor(b, name), Stop(b, Anchor(b, name)), p + 2 - q, name)
<1> DEFINE a == Anchor(b, name)
           s == Stop(b, a)
           c == Splice(b, p, l, q)
           d == p + 2 - q
<1>1. a \in DOMAIN b /\ b[a].k = "field" /\ b[a].name = name BY AnchorIsAField
<1>2. Between(b, a, s) BY <1>1, StopIsBetween
<1>3. \A i \in 1 .. a - 1 : ~(b[i].k = "field" /\ b[i].name = name) BY AnchorIsFirst
<1>4. Len(b) \in Nat /\ a \in 1 .. Len(b) /\ s \in a + 1 .. Len(b) + 1
      /\ p \in a .. Len(b) /\ q \in p + 1 .. s
  BY <1>1, <1>2 DEF Between
<1>5. p \in 0 .. Len(b) /\ q \in p + 1 .. Len(b) + 1 BY <1>4
<1>6. /\ c \in Seq(Lines) /\ Len(c) = Len(b) + d
      /\ \A i \in 1 .. p : c[i] = b[i]
      /\ c[p + 1] = l
      /\ \A i \in q .. Len(b) : c[i + d] = b[i]
  BY <1>5, SpliceLies
<1> HIDE DEF a, s, c
<1>7. d \in Int /\ s \in 1 .. Len(b) + 1 /\ a \in 1 .. s /\ a < s /\ a < s + d BY <1>4
<1>8. \A i \in 1 .. a - 1 : c[i] = b[i] BY <1>4, <1>6
<1>9. \A i \in s .. Len(b) : c[i + d] = b[i] BY <1>4, <1>6
<1>10. c[a] = b[a] BY <1>4, <1>6
<1>11. ASSUME NEW i \in a + 1 .. s + d - 1 PROVE ~TopLevel(c[i])
  <2>0. \A j \in a + 1 .. s - 1 : ~TopLevel(b[j]) BY <1>2 DEF Between
  <2>1. CASE i <= p
    <3>1. i \in 1 .. p /\ i \in a + 1 .. s - 1 BY <1>4, <2>1
    <3> QED BY <1>6, <2>0, <3>1
  <2>2. CASE i = p + 1 BY <1>6, <2>2
  <2>3. CASE i > p + 1
    <3>1. i - d \in q .. Len(b) /\ i - d \in a + 1 .. s - 1 /\ (i - d) + d = i BY <1>4, <2>3
    <3>2. c[(i - d) + d] = b[i - d] BY <1>6, <3>1
    <3> QED BY <2>0, <3>1, <3>2
  <2> QED BY <1>4, <2>1, <2>2, <2>3
<1> HIDE DEF d
<1>12. Local(b, c, a, s, d, name)
  BY <1>1, <1>2, <1>3, <1>6, <1>7, <1>8, <1>9, <1>10, <1>11 DEF Local
<1> QED BY <1>6, <1>12 DEF a, s, c, d

LEMMA ChangeIsLocal ==
  ASSUME NEW b \in Seq(Lines), NEW c \in Seq(Lines), NEW name, Has(b, name), Len(c) = Len(b),
         NEW m \in Anchor(b, name) .. Stop(b, Anchor(b, name)) - 1,
         \A i \in DOMAIN b : i # m => c[i] = b[i],
         IF m = Anchor(b, name) THEN c[m].k = "field" /\ c[m].name = name ELSE ~TopLevel(c[m])
  PROVE  Local(b, c, Anchor(b, name), Stop(b, Anchor(b, name)), 0, name)
<1> DEFINE a == Anchor(b, name)
           s == Stop(b, a)
<1>1. a \in DOMAIN b /\ b[a].k = "field" /\ b[a].name = name BY AnchorIsAField
<1>2. Between(b, a, s) BY <1>1, StopIsBetween
<1>3. \A i \in 1 .. a - 1 : ~(b[i].k = "field" /\ b[i].name = name) BY AnchorIsFirst
<1>4. Len(b) \in Nat /\ DOMAIN b = 1 .. Len(b) /\ a \in 1 .. Len(b) /\ s \in a + 1 .. Len(b) + 1
      /\ m \in a .. s - 1
  BY <1>1, <1>2 DEF Between
<1> HIDE DEF a, s
<1>5. s \in 1 .. Len(b) + 1 /\ a \in 1 .. s /\ a < s /\ a < s + 0 /\ s + 0 = s BY <1>4
<1>6. \A i \in 1 .. a - 1 : c[i] = b[i] BY <1>4
<1>7. \A i \in s .. Len(b) : c[i + 0] = b[i]
  <2>1. \A i \in s .. Len(b) : c[i] = b[i] /\ i + 0 = i BY <1>4
  <2> QED BY <2>1
<1>8. c[a].k = "field" /\ c[a].name = name BY <1>1, <1>4 DEF a
<1>9. ASSUME NEW i \in a + 1 .. s - 1 PROVE ~TopLevel(c[i])
  <2>0. \A j \in a + 1 .. s - 1 : ~TopLevel(b[j]) BY <1>2 DEF Between
  <2>1. i \in DOMAIN b /\ i # a BY <1>4
  <2> QED BY <2>0, <2>1 DEF a
<1>10. Local(b, c, a, s, 0, name)
  <2>1. 0 \in Int /\ Len(c) = Len(b) + 0 BY <1>4
  <2>2. \A i \in a + 1 .. s + 0 - 1 : ~TopLevel(c[i]) BY <1>5, <1>9
  <2> QED BY <1>1, <1>2, <1>3, <1>5, <1>6, <1>7, <1>8, <2>1, <2>2 DEF Local
<1> QED BY <1>10 DEF a, s

LEMMA AdditionIsLocal ==
  ASSUME NEW b \in Seq(Lines), NEW c \in Seq(Lines), NEW name, ~Has(b, name),
         NEW d \in Nat \ {0}, Len(c) = Len(b) + d,
         \A i \in 1 .. Len(b) : c[i] = b[i],
         c[Len(b) + 1].k = "field", c[Len(b) + 1].name = name,
         \A i \in Len(b) + 2 .. Len(b) + d : ~TopLevel(c[i])
  PROVE  Local(b, c, Len(b) + 1, Len(b) + 1, d, name)
<1> DEFINE p == Len(b) + 1
<1>1. Len(b) \in Nat /\ DOMAIN b = 1 .. Len(b) OBVIOUS
<1>2. d \in Int /\ p \in 1 .. Len(b) + 1 /\ p \in 1 .. p /\ p < p + d /\ ~(p < p) /\ p - 1 = Len(b)
      /\ p + 1 = Len(b) + 2 /\ p + d - 1 = Len(b) + d
  BY <1>1
<1>3. \A i \in p .. Len(b) : c[i + d] = b[i] BY <1>1
<1>4. \A i \in 1 .. p - 1 : ~(b[i].k = "field" /\ b[i].name = name)
  BY <1>1 DEF Has, FieldLines
<1>5. (\A i \in 1 .. p - 1 : c[i] = b[i]) /\ \A i \in p + 1 .. p + d - 1 : ~TopLevel(c[i])
  BY <1>2
<1>6. c[p].k = "field" /\ c[p].name = name OBVIOUS
<1> HIDE DEF p
<1>7. p = Len(b) + 1 BY DEF p
<1>8. Local(b, c, p, p, d, name) BY <1>2, <1>3, <1>4, <1>5, <1>6, <1>7 DEF Local
<1> QED BY <1>8 DEF p

-----------------------------------------------------------------------------
(* Items that are counted                                                  *)

LEMMA NthIsOne ==
  ASSUME NEW b \in Seq(Lines), NEW a \in DOMAIN b, NEW n, NEW i \in Nth(b, a, n)
  PROVE  /\ i \in Items(b, a) /\ Cardinality(Before(Items(b, a), i)) = n
         /\ Nth(b, a, n) = {i}
<1> DEFINE S == Items(b, a)
<1>1. Places(S) BY ItemsAreLines
<1>2. \A j : j \in Nth(b, a, n) <=> j \in S /\ Cardinality(Before(S, j)) = n
  BY DEF Nth, Before
<1> HIDE DEF S
<1>3. ASSUME NEW j \in Nth(b, a, n) PROVE j = i BY <1>1, <1>2, CountsTellApart
<1>4. i \in S /\ Cardinality(Before(S, i)) = n BY <1>2
<1> QED BY <1>3, <1>4 DEF S

LEMMA AlignedNth ==
  ASSUME NEW b \in Seq(Lines), NEW a \in DOMAIN b, NEW c \in Seq(Lines), NEW e \in DOMAIN c,
         NEW m, Aligns(m, Items(b, a), Items(c, e)), NEW n, NEW i \in Nth(b, a, n)
  PROVE  m[i] \in Nth(c, e, n)
<1> DEFINE S == Items(b, a)
           T == Items(c, e)
<1>1. Places(S) /\ Places(T) BY ItemsAreLines
<1>2. i \in S /\ Cardinality(Before(S, i)) = n BY NthIsOne
<1>3. Aligns(m, S, T) OBVIOUS
<1>4. \A j : j \in T /\ Cardinality(Before(T, j)) = n => j \in Nth(c, e, n) BY DEF Nth, Before
<1> HIDE DEF S, T
<1>5. m[i] \in T BY <1>2, <1>3 DEF Aligns
<1>6. Cardinality(Before(T, m[i])) = n BY <1>1, <1>2, <1>3, AlignedCounts
<1> QED BY <1>4, <1>5, <1>6

\* Where the item at line j is after one line took the place of those
\* between p and q: items before and behind keep their order, and if an item
\* was replaced the new one stands for it.
Place(p, q, j) == IF j <= p THEN j ELSE IF j < q THEN p + 1 ELSE j + (p + 2 - q)

\* One item for one item, or none for none.
OneForOne(b, a, p, l, q) ==
  IF l.k = "item"
  THEN \E x \in Items(b, a) : p < x /\ x < q /\ \A y \in Items(b, a) : p < y /\ y < q => y = x
  ELSE \A x \in Items(b, a) : x <= p \/ x >= q

LEMMA SplicedItems ==
  ASSUME NEW b \in Seq(Lines), NEW name, Has(b, name), NEW l \in Lines, ~TopLevel(l),
         NEW p \in Anchor(b, name) .. Len(b), NEW q \in p + 1 .. Stop(b, Anchor(b, name)),
         OneForOne(b, Anchor(b, name), p, l, q)
  PROVE  Aligns([j \in Items(b, Anchor(b, name)) |-> Place(p, q, j)],
                Items(b, Anchor(b, name)), Items(Splice(b, p, l, q), Anchor(b, name)))
<1> DEFINE a == Anchor(b, name)
           s == Stop(b, a)
           c == Splice(b, p, l, q)
           d == p + 2 - q
           S == Items(b, a)
           T == Items(c, a)
           m == [j \in S |-> Place(p, q, j)]
<1>1. a \in DOMAIN b BY AnchorIsAField
<1>2. Local(b, c, a, s, d, name) /\ c \in Seq(Lines) BY SpliceIsLocal
<1>3. Stop(c, a) = s + d BY <1>2, LocalAnchor
<1>4. Len(b) \in Nat /\ a \in 1 .. Len(b) /\ s \in a + 1 .. Len(b) + 1
      /\ p \in a .. Len(b) /\ q \in p + 1 .. s
  BY <1>1, StopIsBehind
<1>5. p \in 0 .. Len(b) /\ q \in p + 1 .. Len(b) + 1 BY <1>4
<1>6. /\ \A i \in 1 .. p : c[i] = b[i]
      /\ c[p + 1] = l
      /\ \A i \in q .. Len(b) : c[i + d] = b[i]
  BY <1>5, SpliceLies
<1>7. \A j : j \in S <=> j \in a + 1 .. s - 1 /\ b[j].k = "item" BY DEF Items
<1>8. \A j : j \in T <=> j \in a + 1 .. s + d - 1 /\ c[j].k = "item"
  <2> DEFINE z == Stop(c, a)
  <2>1. T = {j \in a + 1 .. z - 1 : c[j].k = "item"} BY DEF Items
  <2> HIDE DEF z
  <2>2. z = s + d /\ s \in Int /\ d \in Int /\ a \in Int BY <1>3, <1>4 DEF z
  <2>3. \A j : j \in a + 1 .. z - 1 <=> j \in a + 1 .. s + d - 1
    <3> HIDE DEF a, s, c, d, T
    <3> QED BY <2>2
  <2> HIDE DEF T, d
  <2> QED BY <2>1, <2>3
<1>9. OneForOne(b, a, p, l, q) OBVIOUS
<1>10. \A x \in S : p < x /\ x < q => l.k = "item" /\ \A y \in S : p < y /\ y < q => y = x
  BY <1>4, <1>7, <1>9 DEF OneForOne
<1>11. l.k = "item" => \E x \in S : p < x /\ x < q BY <1>9 DEF OneForOne
<1> HIDE DEF a, s, c, S, T
<1>12. ASSUME NEW j \in S PROVE Place(p, q, j) \in T
  <2>0. j \in a + 1 .. s - 1 /\ b[j].k = "item" BY <1>7
  <2>1. CASE j <= p
    <3>1. Place(p, q, j) = j BY <2>1 DEF Place
    <3>2. j \in 1 .. p /\ j \in a + 1 .. s + d - 1 BY <1>4, <2>0, <2>1
    <3> QED BY <1>6, <1>8, <2>0, <3>1, <3>2
  <2>2. CASE j > p /\ j < q
    <3>1. Place(p, q, j) = p + 1 BY <1>4, <2>0, <2>2 DEF Place
    <3>2. p + 1 \in a + 1 .. s + d - 1 BY <1>4, <2>0, <2>2
    <3> QED BY <1>6, <1>8, <1>10, <2>2, <3>1, <3>2
  <2>3. CASE j >= q
    <3>1. Place(p, q, j) = j + d BY <1>4, <2>0, <2>3 DEF Place
    <3>a. j \in q .. Len(b) BY <1>4, <2>0, <2>3
    <3>b. j + d \in a + 1 .. s + d - 1
      <4>1. j + d > p /\ p >= a /\ j <= s - 1 /\ j \in Int /\ s \in Int /\ d \in Int BY <1>4, <2>0, <2>3
      <4>2. p \in Int /\ a \in Int BY <1>4
      <4> HIDE DEF d
      <4> QED BY <4>1, <4>2
    <3>2. j \in q .. Len(b) /\ j + d \in a + 1 .. s + d - 1 BY <3>a, <3>b
    <3> QED BY <1>6, <1>8, <2>0, <3>1, <3>2
  <2> QED BY <1>4, <2>0, <2>1, <2>2, <2>3
<1>13. ASSUME NEW t \in T PROVE \E j \in S : Place(p, q, j) = t
  <2>0. t \in a + 1 .. s + d - 1 /\ c[t].k = "item" BY <1>8
  <2>1. CASE t <= p
    <3>1. t \in 1 .. p /\ t \in a + 1 .. s - 1 BY <1>4, <2>0, <2>1
    <3>2. t \in S BY <1>6, <1>7, <2>0, <3>1
    <3> QED BY <2>1, <3>2 DEF Place
  <2>2. CASE t = p + 1
    <3>1. PICK x \in S : p < x /\ x < q BY <1>6, <1>11, <2>0, <2>2
    <3>2. Place(p, q, x) = p + 1 BY <1>4, <1>7, <3>1 DEF Place
    <3> QED BY <2>2, <3>2
  <2>3. CASE t > p + 1
    <3>1. t - d \in q .. Len(b) /\ t - d \in a + 1 .. s - 1 /\ (t - d) + d = t BY <1>4, <2>0, <2>3
    <3>2. t - d \in S BY <1>6, <1>7, <2>0, <3>1
    <3>3. Place(p, q, t - d) = (t - d) + d BY <1>4, <3>1 DEF Place
    <3> QED BY <3>1, <3>2, <3>3
  <2> QED BY <1>4, <2>0, <2>1, <2>2, <2>3
<1>14. ASSUME NEW i \in S, NEW j \in S PROVE Place(p, q, i) < Place(p, q, j) <=> i < j
  <2>0. i \in Nat /\ j \in Nat BY <1>4, <1>7
  <2>1. i > p /\ i < q /\ j > p /\ j < q => i = j BY <1>10
  <2> QED BY <1>4, <2>0, <2>1 DEF Place
<1>15. m \in [S -> T] /\ \A j \in S : m[j] = Place(p, q, j) BY <1>12
<1> HIDE DEF m
<1>16. Aligns(m, S, T) BY <1>13, <1>14, <1>15 DEF Aligns
<1> QED BY <1>16 DEF a, c, S, T, m

-----------------------------------------------------------------------------
(* What each update does to a body                                         *)

\* Updated by its cases.
LEMMA UpdatedIs ==
  ASSUME NEW b \in Seq(Lines), NEW u \in Requests, ~Refused(b, u)
  PROVE  /\ u.op = "set" => Updated(b, u) = SetField(b, u)
         /\ u.op = "append" /\ ~Has(b, u.name) =>
              Updated(b, u) = b \o <<Field(u.name, None), Item(2, None, u.text)>>
         /\ u.op = "append" /\ Has(b, u.name) => Updated(b, u) = Appended(b, u)
         /\ u.op = "item" =>
              /\ Has(b, u.name)
              /\ \E i \in Nth(b, Anchor(b, u.name), u.n) :
                   Updated(b, u) = IF u.sub = None
                                   THEN Replaced(b, Anchor(b, u.name), i, u.text)
                                   ELSE SubReplaced(b, Anchor(b, u.name), i, u.sub, u.text)
         /\ u.op # "set" /\ Has(b, u.name) =>
              b[Anchor(b, u.name)].text = None \/ b[Anchor(b, u.name)].text = "[]"
<1> DEFINE a == Anchor(b, u.name)
           i == CHOOSE j \in Nth(b, a, u.n) : TRUE
<1>1. u.op = "set" => Updated(b, u) = SetField(b, u) BY DEF Updated
<1>2. u.op = "append" /\ ~Has(b, u.name) =>
        Updated(b, u) = b \o <<Field(u.name, None), Item(2, None, u.text)>>
  BY DEF Updated
<1>3. u.op = "append" /\ Has(b, u.name) => Updated(b, u) = Appended(b, u) BY DEF Updated
<1>4. ASSUME u.op = "item"
      PROVE  /\ Has(b, u.name)
             /\ \E j \in Nth(b, a, u.n) :
                  Updated(b, u) = IF u.sub = None THEN Replaced(b, a, j, u.text)
                                  ELSE SubReplaced(b, a, j, u.sub, u.text)
  <2>1. Has(b, u.name) /\ Nth(b, a, u.n) # {} BY <1>4 DEF Refused
  <2>2. i \in Nth(b, a, u.n) BY <2>1
  <2>3. Updated(b, u) = IF u.sub = None THEN Replaced(b, a, i, u.text)
                        ELSE SubReplaced(b, a, i, u.sub, u.text)
    BY <1>4 DEF Updated
  <2> HIDE DEF a, i
  <2> QED BY <2>1, <2>2, <2>3
<1>5. u.op # "set" /\ Has(b, u.name) => b[a].text = None \/ b[a].text = "[]"
  BY DEF Refused, Inline
<1> QED BY <1>1, <1>2, <1>3, <1>4, <1>5

\* The lines that updates write.
LEMMA LinesWritten ==
  ASSUME NEW u \in Requests, NEW ind \in Nat, NEW text \in Texts, NEW sub \in Texts
  PROVE  /\ Field(u.name, text) \in Lines /\ Item(ind, None, text) \in Lines
         /\ Sub(ind, sub, text) \in Lines
         /\ Field(u.name, text).k = "field" /\ Field(u.name, text).name = u.name
         /\ Field(u.name, text).text = text
         /\ Item(ind, None, text).k = "item" /\ Item(ind, None, text).name = None
         /\ Item(ind, None, text).text = text /\ Item(ind, None, text).ind = ind
         /\ Sub(ind, sub, text).k = "sub" /\ Sub(ind, sub, text).name = sub
         /\ Sub(ind, sub, text).text = text
         /\ ~TopLevel(Item(ind, None, text)) /\ ~TopLevel(Sub(ind, sub, text))
<1>1. None \in Texts /\ u.name \in Texts BY DEF Texts, Requests
<1>2. Field(u.name, text) \in Lines BY <1>1 DEF Field, Line, Lines
<1>3. Sub(ind, sub, text) \in Lines BY DEF Sub, Line, Lines
<1> QED BY <1>2, <1>3, ItemIsALine DEF Field, Item, Sub, Line, TopLevel

LEMMA SetIsLocal ==
  ASSUME NEW b \in Seq(Lines), NEW u \in Requests
  PROVE  /\ SetField(b, u) \in Seq(Lines)
         /\ \E p \in DOMAIN SetField(b, u) : \E s, d :
              /\ Local(b, SetField(b, u), p, s, d, u.name)
              /\ SetField(b, u)[p] = Field(u.name, u.text)
<1> DEFINE f == Field(u.name, u.text)
           c == SetField(b, u)
           a == Anchor(b, u.name)
<1>0. u.text \in Texts /\ 0 \in Nat BY DEF Requests
<1>1. f \in Lines /\ f.k = "field" /\ f.name = u.name BY <1>0, LinesWritten
<1>2. Len(b) \in Nat /\ DOMAIN b = 1 .. Len(b) OBVIOUS
<1> HIDE DEF f
<1>3. CASE Has(b, u.name)
  <2>1. c = [b EXCEPT ![a] = f] BY <1>3 DEF SetField, f
  <2>2. a \in DOMAIN b BY <1>3, AnchorIsAField
  <2>3. Stop(b, a) \in a + 1 .. Len(b) + 1 BY <2>2, StopIsBehind
  <2> HIDE DEF a, c
  <2>4. c \in Seq(Lines) /\ DOMAIN c = DOMAIN b /\ c[a] = f /\ \A i \in DOMAIN b : i # a => c[i] = b[i]
    BY <1>1, <2>1, <2>2
  <2>5. Len(c) = Len(b)
    <3>1. DOMAIN c = 1 .. Len(b) /\ Len(c) \in Nat /\ DOMAIN c = 1 .. Len(c) BY <1>2, <2>4
    <3> QED BY <1>2, <3>1
  <2>6. a \in a .. Stop(b, a) - 1 BY <1>2, <2>2, <2>3
  <2>7. Local(b, c, a, Stop(b, a), 0, u.name)
    BY <1>1, <1>3, <2>4, <2>5, <2>6, ChangeIsLocal DEF a
  <2> QED BY <2>2, <2>4, <2>7 DEF c, f
<1>4. CASE ~Has(b, u.name)
  <2>1. c = Append(b, f) BY <1>4 DEF SetField, f
  <2> HIDE DEF c
  <2>2. /\ c \in Seq(Lines) /\ Len(c) = Len(b) + 1
        /\ \A i \in 1 .. Len(b) : c[i] = b[i]
        /\ c[Len(b) + 1] = f
    BY <1>1, <2>1, AppendProperties
  <2>3. \A i \in Len(b) + 2 .. Len(b) + 1 : ~TopLevel(c[i]) BY <1>2
  <2>4. 1 \in Nat \ {0} OBVIOUS
  <2>5. Local(b, c, Len(b) + 1, Len(b) + 1, 1, u.name)
    BY <1>1, <1>4, <2>2, <2>3, <2>4, AdditionIsLocal
  <2>6. Len(b) + 1 \in DOMAIN c BY <1>2, <2>2
  <2> QED BY <2>2, <2>5, <2>6 DEF c, f
<1> QED BY <1>3, <1>4

LEMMA NewListIsLocal ==
  ASSUME NEW b \in Seq(Lines), NEW u \in Requests, ~Has(b, u.name),
         NEW c, c = b \o <<Field(u.name, None), Item(2, None, u.text)>>
  PROVE  /\ c \in Seq(Lines) /\ Local(b, c, Len(b) + 1, Len(b) + 1, 2, u.name)
         /\ c[Len(b) + 1] = Field(u.name, None) /\ c[Len(b) + 2] = Item(2, None, u.text)
<1> DEFINE f == Field(u.name, None)
           l == Item(2, None, u.text)
           t == <<f, l>>
<1>0. u.text \in Texts /\ None \in Texts /\ 2 \in Nat BY DEF Requests, Texts
<1>1. f \in Lines /\ f.k = "field" /\ f.name = u.name /\ l \in Lines /\ ~TopLevel(l)
  BY <1>0, LinesWritten
<1> HIDE DEF f, l
<1>2. t \in Seq(Lines) /\ Len(t) = 2 /\ t[1] = f /\ t[2] = l BY <1>1
<1>3. Len(b) \in Nat OBVIOUS
<1>4. c = b \o t BY DEF f, l
<1> HIDE DEF t
<1>5. /\ c \in Seq(Lines) /\ Len(c) = Len(b) + 2
      /\ \A i \in 1 .. Len(b) + 2 : c[i] = IF i <= Len(b) THEN b[i] ELSE t[i - Len(b)]
  BY <1>2, <1>4, ConcatProperties
<1>6. \A i \in 1 .. Len(b) : c[i] = b[i] BY <1>3, <1>5
<1>7. c[Len(b) + 1] = f /\ c[Len(b) + 2] = l
  <2>1. /\ Len(b) + 1 \in 1 .. Len(b) + 2 /\ ~(Len(b) + 1 <= Len(b)) /\ Len(b) + 1 - Len(b) = 1
        /\ Len(b) + 2 \in 1 .. Len(b) + 2 /\ ~(Len(b) + 2 <= Len(b)) /\ Len(b) + 2 - Len(b) = 2
    BY <1>3
  <2> QED BY <1>2, <1>5, <2>1
<1>8. \A i \in Len(b) + 2 .. Len(b) + 2 : ~TopLevel(c[i])
  <2>1. \A i \in Len(b) + 2 .. Len(b) + 2 : i = Len(b) + 2 BY <1>3
  <2> QED BY <1>1, <1>7, <2>1
<1>9. 2 \in Nat \ {0} OBVIOUS
<1>10. Local(b, c, Len(b) + 1, Len(b) + 1, 2, u.name)
  BY <1>1, <1>5, <1>6, <1>7, <1>8, <1>9, AdditionIsLocal
<1> QED BY <1>5, <1>7, <1>10 DEF f, l

\* An update of a list puts one line in the place of some of its lines.
Splices(b, name, p, l, q) ==
  /\ l \in Lines /\ ~TopLevel(l)
  /\ p \in Anchor(b, name) .. Len(b) /\ q \in p + 1 .. Stop(b, Anchor(b, name))

LEMMA InsertedIs ==
  ASSUME NEW b, NEW at \in Nat, NEW l
  PROVE  Inserted(b, at, l) = Splice(b, at - 1, l, at)
BY DEF Inserted, Splice

LEMMA AppendedIs ==
  ASSUME NEW b \in Seq(Lines), NEW u \in Requests, Has(b, u.name)
  PROVE  \E at \in Nat : \E ind \in Nat :
           /\ Appended(b, u) = Splice(b, at - 1, Item(ind, None, u.text), at)
           /\ Splices(b, u.name, at - 1, Item(ind, None, u.text), at)
           /\ \A i \in Items(b, Anchor(b, u.name)) : i < at
<1> DEFINE a == Anchor(b, u.name)
           at == IF Items(b, a) = {} THEN a + 1 ELSE Stop(b, a)
           ind == Indent(b, a)
           l == Item(ind, None, u.text)
<1>1. a \in DOMAIN b BY AnchorIsAField
<1>2. Appended(b, u) = Inserted(b, at, l) BY DEF Appended
<1>3. ind \in Nat BY <1>1, IndentIsANumber
<1>4. Len(b) \in Nat /\ a \in 1 .. Len(b) /\ Stop(b, a) \in a + 1 .. Len(b) + 1
  BY <1>1, StopIsBehind
<1>5. \A i \in Items(b, a) : i \in a + 1 .. Stop(b, a) - 1 BY <1>1, ItemsLie
<1>6. l \in Lines /\ ~TopLevel(l)
  <2>1. u.text \in Texts BY DEF Requests
  <2> HIDE DEF ind
  <2> QED BY <1>3, <2>1, LinesWritten
<1> HIDE DEF a, ind
<1>a. at = a + 1 \/ at = Stop(b, a) OBVIOUS
<1>8. \A i \in Items(b, a) : i < at BY <1>4, <1>5
<1> HIDE DEF at
<1>7. at \in Nat /\ at - 1 \in a .. Len(b) /\ at \in (at - 1) + 1 .. Stop(b, a) BY <1>4, <1>a
<1> HIDE DEF l
<1>9. Appended(b, u) = Splice(b, at - 1, l, at) BY <1>2, <1>7, InsertedIs DEF at
<1>10. Splices(b, u.name, at - 1, l, at) BY <1>6, <1>7 DEF Splices, a
<1> QED BY <1>3, <1>7, <1>8, <1>9, <1>10 DEF l, a

LEMMA ReplacedIs ==
  ASSUME NEW b \in Seq(Lines), NEW name, Has(b, name),
         NEW i \in Items(b, Anchor(b, name)), NEW text \in Texts,
         NEW l, l = Item(Indent(b, Anchor(b, name)), None, text),
         NEW e, e = End(b, Anchor(b, name), i)
  PROVE  /\ Replaced(b, Anchor(b, name), i, text) = Splice(b, i - 1, l, e)
         /\ Splices(b, name, i - 1, l, e)
         /\ OneForOne(b, Anchor(b, name), i - 1, l, e)
         /\ i \in Nat /\ e \in i + 1 .. Len(b) + 1
<1> DEFINE a == Anchor(b, name)
<1>1. a \in DOMAIN b BY AnchorIsAField
<1>2. l \in Lines /\ ~TopLevel(l) /\ l.k = "item"
  <2> DEFINE ind == Indent(b, a)
  <2>1. ind \in Nat BY <1>1, IndentIsANumber
  <2>2. l = Item(ind, None, text) OBVIOUS
  <2> HIDE DEF ind
  <2> QED BY <2>1, <2>2, ItemIsALine DEF Item, Line, TopLevel
<1>3. /\ Len(b) \in Nat /\ a \in 1 .. Len(b) /\ Stop(b, a) \in a + 1 .. Len(b) + 1
      /\ i \in a + 1 .. Stop(b, a) - 1
      /\ e \in i + 1 .. Stop(b, a)
  BY <1>1, StopIsBehind, ItemsLie, EndIsBehind
<1>4. Replaced(b, a, i, text) = Splice(b, i - 1, l, e) BY DEF Replaced, Splice
<1>5. \A y \in Items(b, a) : y > i => e <= y
  <2> DEFINE S == {j \in Items(b, a) : j > i} \cup {Stop(b, a)}
  <2>1. (\A j \in Items(b, a) : j \in Nat) /\ Stop(b, a) \in Nat BY <1>1, <1>3, ItemsLie
  <2>2. S \in SUBSET Nat /\ S # {} BY <2>1
  <2>3. \A k \in S : Min(S) <= k
    <3> HIDE DEF S
    <3> QED BY <2>2, MinOf
  <2>4. e = Min(S) BY DEF End
  <2> HIDE DEF S
  <2>5. \A k \in S : e <= k BY <2>3, <2>4
  <2> QED BY <2>5 DEF S
<1>6. \A y \in Items(b, a) : y \in Nat BY <1>1, ItemsLie
<1>7. OneForOne(b, a, i - 1, l, e)
  <2>1. i - 1 < i /\ i < e BY <1>3
  <2>2. \A y \in Items(b, a) : i - 1 < y /\ y < e => y = i BY <1>3, <1>5, <1>6
  <2> QED BY <1>2, <2>1, <2>2 DEF OneForOne
<1>8. i - 1 \in a .. Len(b) /\ e \in (i - 1) + 1 .. Stop(b, a) BY <1>3
<1>9. Splices(b, name, i - 1, l, e) BY <1>2, <1>8 DEF Splices
<1>10. i \in Nat /\ e \in i + 1 .. Len(b) + 1 BY <1>3
<1> QED BY <1>4, <1>7, <1>9, <1>10

LEMMA SubInsertedIs ==
  ASSUME NEW b \in Seq(Lines), NEW name, Has(b, name),
         NEW i \in Items(b, Anchor(b, name)), NEW sub \in Texts, NEW text \in Texts,
         SubLines(b, Anchor(b, name), i, sub) = {},
         NEW e, e = End(b, Anchor(b, name), i)
  PROVE  \E ind \in Nat :
         /\ SubReplaced(b, Anchor(b, name), i, sub, text) = Splice(b, e - 1, Sub(ind, sub, text), e)
         /\ Splices(b, name, e - 1, Sub(ind, sub, text), e)
         /\ OneForOne(b, Anchor(b, name), e - 1, Sub(ind, sub, text), e)
         /\ i \in Nat /\ e \in i + 1 .. Len(b) + 1
<1> DEFINE a == Anchor(b, name)
           ind == MappingIndent(b, a, i)
           l == Sub(ind, sub, text)
<1>1. a \in DOMAIN b BY AnchorIsAField
<1>2. ind \in Nat BY <1>1, MappingIndentIsANumber
<1>3. l \in Lines /\ ~TopLevel(l) /\ l.k = "sub"
  <2> HIDE DEF ind
  <2> QED BY <1>2 DEF Sub, Line, Lines, TopLevel
<1>4. /\ Len(b) \in Nat /\ a \in 1 .. Len(b) /\ Stop(b, a) \in a + 1 .. Len(b) + 1
      /\ i \in a + 1 .. Stop(b, a) - 1
      /\ e \in i + 1 .. Stop(b, a)
  BY <1>1, StopIsBehind, ItemsLie, EndIsBehind
<1>5. e \in Nat BY <1>4
<1>6. SubReplaced(b, a, i, sub, text) = Inserted(b, e, l) BY DEF SubReplaced
<1>7. \A y \in Items(b, a) : y \in Nat BY <1>1, ItemsLie
<1> HIDE DEF a, ind, l
<1>8. SubReplaced(b, a, i, sub, text) = Splice(b, e - 1, l, e) BY <1>5, <1>6, InsertedIs
<1>9. OneForOne(b, a, e - 1, l, e)
  <2>1. \A y \in Items(b, a) : y <= e - 1 \/ y >= e BY <1>5, <1>7
  <2> QED BY <1>3, <2>1 DEF OneForOne
<1>10. e - 1 \in a .. Len(b) /\ e \in (e - 1) + 1 .. Stop(b, a) BY <1>4
<1>11. Splices(b, name, e - 1, l, e) BY <1>3, <1>10 DEF Splices, a
<1>12. i \in Nat /\ e \in i + 1 .. Len(b) + 1 BY <1>4
<1> QED BY <1>2, <1>8, <1>9, <1>11, <1>12 DEF a, l

\* The text of a sub-field changes: every line stays what it is otherwise.
LEMMA SubChangedIs ==
  ASSUME NEW b \in Seq(Lines), NEW name, Has(b, name),
         NEW i \in Items(b, Anchor(b, name)), NEW sub \in Texts, NEW text \in Texts,
         SubLines(b, Anchor(b, name), i, sub) # {},
         NEW c, c = SubReplaced(b, Anchor(b, name), i, sub, text)
  PROVE  /\ c \in Seq(Lines) /\ Len(c) = Len(b)
         /\ \E m \in Anchor(b, name) + 1 .. Stop(b, Anchor(b, name)) - 1 :
              /\ m = Min(SubLines(b, Anchor(b, name), i, sub))
              /\ m \in SubLines(b, Anchor(b, name), i, sub)
              /\ c = [b EXCEPT ![m].text = text]
              /\ \A j \in DOMAIN b : j # m => c[j] = b[j]
              /\ c[m].k = b[m].k /\ c[m].name = b[m].name /\ c[m].ind = b[m].ind
              /\ c[m].text = text
<1> DEFINE a == Anchor(b, name)
           S == SubLines(b, a, i, sub)
           m == Min(S)
<1>1. a \in DOMAIN b BY AnchorIsAField
<1>2. /\ Len(b) \in Nat /\ DOMAIN b = 1 .. Len(b) /\ a \in 1 .. Len(b)
      /\ Stop(b, a) \in a + 1 .. Len(b) + 1
      /\ i \in a + 1 .. Stop(b, a) - 1 /\ End(b, a, i) \in i + 1 .. Stop(b, a)
  BY <1>1, StopIsBehind, ItemsLie, EndIsBehind
<1>3. S \in SUBSET Nat /\ \A j \in S : j \in a + 1 .. Stop(b, a) - 1
  BY <1>2 DEF SubLines
<1>4. m \in S
  <2>1. S # {} OBVIOUS
  <2> HIDE DEF S
  <2> QED BY <1>3, <2>1, MinOf
<1>5. m \in a + 1 .. Stop(b, a) - 1 /\ m \in DOMAIN b BY <1>2, <1>3, <1>4
<1>6. c = [b EXCEPT ![m].text = text] BY DEF SubReplaced
<1>7. m = Min(SubLines(b, a, i, sub)) /\ m \in SubLines(b, a, i, sub) BY <1>4
<1> HIDE DEF a, S, m
<1>8. b[m] \in Lines BY <1>5
<1> DEFINE l == [b[m] EXCEPT !.text = text]
<1>9. l \in Lines /\ l.k = b[m].k /\ l.name = b[m].name /\ l.ind = b[m].ind /\ l.text = text
  BY <1>8 DEF Lines
<1>10. c = [b EXCEPT ![m] = l] BY <1>6
<1> HIDE DEF l
<1>11. c \in Seq(Lines) /\ DOMAIN c = DOMAIN b /\ c[m] = l /\ \A j \in DOMAIN b : j # m => c[j] = b[j]
  BY <1>5, <1>9, <1>10
<1>12. Len(c) = Len(b)
  <2>1. DOMAIN c = 1 .. Len(b) /\ Len(c) \in Nat /\ DOMAIN c = 1 .. Len(c) BY <1>2, <1>11
  <2> QED BY <1>2, <2>1
<1> QED BY <1>5, <1>6, <1>7, <1>9, <1>11, <1>12 DEF a

LEMMA SplicesLocally ==
  ASSUME NEW b \in Seq(Lines), NEW name, Has(b, name), NEW p, NEW l, NEW q,
         Splices(b, name, p, l, q)
  PROVE  /\ Splice(b, p, l, q) \in Seq(Lines)
         /\ Local(b, Splice(b, p, l, q), Anchor(b, name), Stop(b, Anchor(b, name)), p + 2 - q, name)
         /\ Splice(b, p, l, q)[Anchor(b, name)] = b[Anchor(b, name)]
         /\ Anchor(b, name) \in DOMAIN Splice(b, p, l, q)
<1> DEFINE a == Anchor(b, name)
<1>1. /\ l \in Lines /\ ~TopLevel(l)
      /\ p \in a .. Len(b) /\ q \in p + 1 .. Stop(b, a)
  BY DEF Splices
<1>2. a \in DOMAIN b BY AnchorIsAField
<1>3. Stop(b, a) \in a + 1 .. Len(b) + 1 /\ a \in 1 .. Len(b) /\ Len(b) \in Nat
  BY <1>2, StopIsBehind
<1>4. p \in 0 .. Len(b) /\ q \in p + 1 .. Len(b) + 1 /\ a \in 1 .. p BY <1>1, <1>3
<1>5. Splice(b, p, l, q)[a] = b[a] BY <1>1, <1>4, SpliceLies
<1>6. /\ Splice(b, p, l, q) \in Seq(Lines)
      /\ Local(b, Splice(b, p, l, q), a, Stop(b, a), p + 2 - q, name)
  BY <1>1, SpliceIsLocal
<1>7. a \in DOMAIN Splice(b, p, l, q) BY <1>6, LocalAnchor
<1> QED BY <1>5, <1>6, <1>7

\* An update changes the field it is asked about, and its list.
LEMMA UpdateIsLocal ==
  ASSUME NEW b \in Seq(Lines), NEW u \in Requests, ~Refused(b, u)
  PROVE  Updated(b, u) \in Seq(Lines) /\ \E p, s, d : Local(b, Updated(b, u), p, s, d, u.name)
<1> DEFINE a == Anchor(b, u.name)
<1>0. u.op \in {"set", "append", "item"} /\ u.text \in Texts /\ u.sub \in Texts BY DEF Requests
<1>1. CASE u.op = "set"
  <2>1. Updated(b, u) = SetField(b, u) BY <1>1, UpdatedIs
  <2> QED BY <2>1, SetIsLocal
<1>2. CASE u.op = "append" /\ ~Has(b, u.name)
  <2>1. Updated(b, u) = b \o <<Field(u.name, None), Item(2, None, u.text)>> BY <1>2, UpdatedIs
  <2> QED BY <1>2, <2>1, NewListIsLocal
<1>3. CASE u.op = "append" /\ Has(b, u.name)
  <2>1. Updated(b, u) = Appended(b, u) BY <1>3, UpdatedIs
  <2>2. \E p, l, q : Appended(b, u) = Splice(b, p, l, q) /\ Splices(b, u.name, p, l, q)
    BY <1>3, AppendedIs
  <2> QED BY <1>3, <2>1, <2>2, SplicesLocally
<1>4. CASE u.op = "item"
  <2>1. Has(b, u.name) BY <1>4, UpdatedIs
  <2>2. a \in DOMAIN b BY <2>1, AnchorIsAField
  <2>3. PICK i \in Nth(b, a, u.n) :
          Updated(b, u) = IF u.sub = None THEN Replaced(b, a, i, u.text)
                          ELSE SubReplaced(b, a, i, u.sub, u.text)
    BY <1>4, UpdatedIs
  <2>4. i \in Items(b, a) BY <2>3 DEF Nth
  <2>5. CASE u.sub = None
    <3>1. \E p, l, q : Replaced(b, a, i, u.text) = Splice(b, p, l, q) /\ Splices(b, u.name, p, l, q)
      BY <1>0, <2>1, <2>4, ReplacedIs
    <3>2. Updated(b, u) = Replaced(b, a, i, u.text) BY <2>3, <2>5
    <3> QED BY <2>1, <3>1, <3>2, SplicesLocally
  <2>6. CASE u.sub # None /\ SubLines(b, a, i, u.sub) = {}
    <3>1. \E p, l, q : SubReplaced(b, a, i, u.sub, u.text) = Splice(b, p, l, q)
                       /\ Splices(b, u.name, p, l, q)
      BY <1>0, <2>1, <2>4, <2>6, SubInsertedIs
    <3>2. Updated(b, u) = SubReplaced(b, a, i, u.sub, u.text) BY <2>3, <2>6
    <3> QED BY <2>1, <3>1, <3>2, SplicesLocally
  <2>7. CASE u.sub # None /\ SubLines(b, a, i, u.sub) # {}
    <3> DEFINE c == SubReplaced(b, a, i, u.sub, u.text)
    <3>1. Updated(b, u) = c BY <2>3, <2>7
    <3> HIDE DEF c
    <3>2. /\ c \in Seq(Lines) /\ Len(c) = Len(b)
          /\ \E m \in a + 1 .. Stop(b, a) - 1 :
               (\A j \in DOMAIN b : j # m => c[j] = b[j]) /\ c[m].k = b[m].k
      BY <1>0, <2>1, <2>4, <2>7, SubChangedIs DEF c
    <3>3. PICK m \in a + 1 .. Stop(b, a) - 1 :
            (\A j \in DOMAIN b : j # m => c[j] = b[j]) /\ c[m].k = b[m].k
      BY <3>2
    <3>4. ~TopLevel(c[m])
      <4>1. ~TopLevel(b[m]) BY <2>2, StopIsBetween DEF Between
      <4> QED BY <3>3, <4>1 DEF TopLevel
    <3>5. m # a /\ m \in a .. Stop(b, a) - 1
      <4>1. a \in Int /\ Stop(b, a) \in Int BY <2>2, StopIsBehind
      <4> QED BY <4>1
    <3>6. Local(b, c, a, Stop(b, a), 0, u.name) BY <2>1, <3>2, <3>3, <3>4, <3>5, ChangeIsLocal
    <3> QED BY <3>1, <3>2, <3>6
  <2> QED BY <2>5, <2>6, <2>7
<1> QED BY <1>0, <1>1, <1>2, <1>3, <1>4

-----------------------------------------------------------------------------
(* What was written is read                                                *)

LEMMA SetReadsBack ==
  ASSUME NEW b \in Seq(Lines), NEW u \in Requests, NEW c, c = SetField(b, u)
  PROVE  Reading(c, u.name).text = u.text
<1>1. c \in Seq(Lines) /\ \E p \in DOMAIN c : \E s, d :
        Local(b, c, p, s, d, u.name) /\ c[p] = Field(u.name, u.text)
  BY SetIsLocal
<1>2. PICK p \in DOMAIN c : \E s, d : Local(b, c, p, s, d, u.name) /\ c[p] = Field(u.name, u.text)
  BY <1>1
<1>3. Has(c, u.name) /\ Anchor(c, u.name) = p BY <1>1, <1>2, LocalAnchor
<1>4. Field(u.name, u.text).text = u.text BY DEF Field, Line
<1> QED BY <1>2, <1>3, <1>4 DEF Reading

\* A list, read.
LEMMA ListReads ==
  ASSUME NEW c, NEW name, Has(c, name), c[Anchor(c, name)].text = None
  PROVE  Reading(c, name) = [text |-> None, items |-> ItemTexts(c, Anchor(c, name))]
BY DEF Reading

LEMMA NewListReadsBack ==
  ASSUME NEW b \in Seq(Lines), NEW u \in Requests, ~Has(b, u.name), u.op = "append",
         NEW c \in Seq(Lines), Local(b, c, Len(b) + 1, Len(b) + 1, 2, u.name),
         c[Len(b) + 1] = Field(u.name, None), c[Len(b) + 2] = Item(2, None, u.text)
  PROVE  Reading(c, u.name) = [text |-> None, items |-> Wanted(Reading(b, u.name).items, u)]
<1> DEFINE p == Len(b) + 1
           T == Items(c, p)
           l == Item(2, None, u.text)
<1>1. /\ c \in Seq(Lines) /\ Local(b, c, p, p, 2, u.name)
      /\ c[p] = Field(u.name, None) /\ c[Len(b) + 2] = l
  OBVIOUS
<1>2. Len(b) \in Nat /\ p \in Nat /\ Len(b) + 2 = p + 1 OBVIOUS
<1>3. Has(c, u.name) /\ Anchor(c, u.name) = p /\ Stop(c, p) = p + 2
  <2> HIDE DEF p
  <2>1. \A x, s, d : Local(b, c, x, s, d, u.name) =>
          Has(c, u.name) /\ Anchor(c, u.name) = x /\ Stop(c, x) = s + d
    BY <1>1, LocalAnchor
  <2> QED BY <1>1, <2>1
<1>4. c[p].text = None BY <1>1 DEF Field, Line
<1>5. l.k = "item" /\ l.name = None /\ l.text = u.text BY DEF Item, Line
<1> HIDE DEF p, l
<1>6. T = {p + 1}
  <2>1. T = {i \in p + 1 .. (p + 2) - 1 : c[i].k = "item"} BY <1>3 DEF Items
  <2>2. \A i : i \in p + 1 .. (p + 2) - 1 <=> i = p + 1 BY <1>2
  <2>3. c[p + 1].k = "item" BY <1>1, <1>2, <1>5
  <2> HIDE DEF T
  <2> QED BY <2>1, <2>2, <2>3
<1>7. Cardinality(Before(T, p + 1)) = 0
  <2> HIDE DEF T
  <2>1. \A j \in T : ~(j < p + 1) BY <1>2, <1>6
  <2>2. Before(T, p + 1) = {} BY <2>1 DEF Before
  <2> QED BY <2>2, FS_EmptySet
<1>8. ItemTexts(c, p) = {<<0, None, u.text>>}
  <2>1. ItemTexts(c, p) = {<<Cardinality(Before(T, i)), c[i].name, c[i].text>> : i \in T}
    BY ItemTextsAre
  <2>2. c[p + 1].name = None /\ c[p + 1].text = u.text BY <1>1, <1>2, <1>5
  <2> HIDE DEF T
  <2>3. ItemTexts(c, p) = {<<Cardinality(Before(T, p + 1)), c[p + 1].name, c[p + 1].text>>}
    BY <1>6, <2>1
  <2> QED BY <1>7, <2>2, <2>3
<1>9. Reading(b, u.name).items = {} BY DEF Reading
<1>10. Wanted({}, u) = {<<0, None, u.text>>} BY FS_EmptySet DEF Wanted
<1>11. c[Anchor(c, u.name)].text = None BY <1>3, <1>4
<1>12. Reading(c, u.name) = [text |-> None, items |-> ItemTexts(c, Anchor(c, u.name))]
  BY <1>3, <1>11, ListReads
<1> QED BY <1>3, <1>8, <1>9, <1>10, <1>12

\* There are as many texts as items.
LEMMA TextsAreCounted ==
  ASSUME NEW b \in Seq(Lines), NEW a \in DOMAIN b
  PROVE  Cardinality(ItemTexts(b, a)) = Cardinality(Items(b, a))
<1> DEFINE S == Items(b, a)
           f == [i \in S |-> <<Cardinality(Before(S, i)), b[i].name, b[i].text>>]
           T == ItemTexts(b, a)
<1>1. Places(S) BY ItemsAreLines
<1>2. T = {<<Cardinality(Before(S, i)), b[i].name, b[i].text>> : i \in S} BY ItemTextsAre
<1> HIDE DEF S, T
<1>3. f \in [S -> T] /\ \A t \in T : \E i \in S : f[i] = t BY <1>2
<1>4. ASSUME NEW i \in S, NEW j \in S, f[i] = f[j] PROVE i = j
  <2>1. Cardinality(Before(S, i)) = Cardinality(Before(S, j)) BY <1>4
  <2> QED BY <1>1, <2>1, CountsTellApart
<1> HIDE DEF f
<1>5. f \in Bijection(S, T)
  BY <1>3, <1>4 DEF Bijection, Injection, Surjection, IsInjective
<1>6. ExistsBijection(S, T) BY <1>5 DEF ExistsBijection
<1>7. Cardinality(T) = Cardinality(S) BY <1>1, <1>6, FS_Bijection DEF Places
<1> QED BY <1>7 DEF S, T

LEMMA AppendedReadsBack ==
  ASSUME NEW b \in Seq(Lines), NEW u \in Requests, Has(b, u.name), u.op = "append",
         b[Anchor(b, u.name)].text = None, NEW c, c = Appended(b, u)
  PROVE  Reading(c, u.name) = [text |-> None, items |-> Wanted(Reading(b, u.name).items, u)]
<1> DEFINE a == Anchor(b, u.name)
           S == Items(b, a)
           T == Items(c, a)
           s == Stop(b, a)
<1>1. PICK at \in Nat : \E ind \in Nat :
        /\ c = Splice(b, at - 1, Item(ind, None, u.text), at)
        /\ Splices(b, u.name, at - 1, Item(ind, None, u.text), at)
        /\ \A i \in S : i < at
  BY AppendedIs
<1>2. PICK ind \in Nat :
        /\ c = Splice(b, at - 1, Item(ind, None, u.text), at)
        /\ Splices(b, u.name, at - 1, Item(ind, None, u.text), at)
        /\ \A i \in S : i < at
  BY <1>1
<1> DEFINE l == Item(ind, None, u.text)
           p == at - 1
<1>3. /\ c \in Seq(Lines) /\ Local(b, c, a, s, p + 2 - at, u.name) /\ c[a] = b[a] /\ a \in DOMAIN c
  BY <1>2, SplicesLocally
<1>4. a \in DOMAIN b BY AnchorIsAField
<1>5. Len(b) \in Nat /\ a \in 1 .. Len(b) /\ s \in a + 1 .. Len(b) + 1
      /\ p \in a .. Len(b) /\ at \in p + 1 .. s /\ l \in Lines
  BY <1>2, <1>4, StopIsBehind DEF Splices
<1>6. Has(c, u.name) /\ Anchor(c, u.name) = a /\ Stop(c, a) = s + (p + 2 - at)
  BY <1>3, LocalAnchor
<1>7. s + (p + 2 - at) = s + 1 BY <1>5
<1>8. p \in 0 .. Len(b) /\ at \in p + 1 .. Len(b) + 1 BY <1>5
<1>9. /\ \A i \in 1 .. p : c[i] = b[i]
      /\ c[p + 1] = l
      /\ \A i \in at .. Len(b) : c[i + (p + 2 - at)] = b[i]
  <2> HIDE DEF l, p
  <2>1. c = Splice(b, p, l, at) BY <1>2 DEF p, l
  <2>2. Fits(b, p, l, at) BY <1>5, <1>8 DEF Fits
  <2>3. Lies(b, p, l, at) BY <2>2, FittingLies
  <2> QED BY <2>1, <2>3 DEF Lies
<1>10. c[at] = l /\ (\A i \in 1 .. at - 1 : c[i] = b[i]) /\ \A i \in at .. Len(b) : c[i + 1] = b[i]
  <2>1. p + 1 = at /\ p + 2 - at = 1 BY <1>5
  <2> QED BY <1>9, <2>1
<1>11. l.k = "item" /\ l.name = None /\ l.text = u.text BY DEF Item, Line
<1>12. \A j : j \in S <=> j \in a + 1 .. s - 1 /\ b[j].k = "item" BY DEF Items
<1>13. \A j : j \in T <=> j \in a + 1 .. s /\ c[j].k = "item"
  <2> DEFINE z == Stop(c, a)
  <2>1. T = {j \in a + 1 .. z - 1 : c[j].k = "item"} BY DEF Items
  <2>2. z - 1 = s BY <1>5, <1>6, <1>7
  <2> HIDE DEF z, T, a, s
  <2> QED BY <2>1, <2>2
<1>14. \A i \in S : i < at BY <1>2
<1>15. Places(S) /\ Places(T) BY <1>3, <1>4, ItemsAreLines
<1>16. ItemTexts(b, a) = {<<Cardinality(Before(S, i)), b[i].name, b[i].text>> : i \in S}
       /\ ItemTexts(c, a) = {<<Cardinality(Before(T, i)), c[i].name, c[i].text>> : i \in T}
  BY ItemTextsAre
<1>17. Cardinality(ItemTexts(b, a)) = Cardinality(S) BY <1>4, TextsAreCounted
<1>18. Reading(b, u.name).items = ItemTexts(b, a) BY ListReads
<1>19. Reading(c, u.name) = [text |-> None, items |-> ItemTexts(c, a)] BY <1>3, <1>6, ListReads
<1> HIDE DEF S, T, a, s, l, p
<1>20. ASSUME NEW i \in S PROVE i \in T /\ c[i] = b[i]
  <2>1. i \in a + 1 .. s - 1 /\ b[i].k = "item" /\ i < at BY <1>12, <1>14
  <2>2. i \in 1 .. at - 1 /\ i \in a + 1 .. s BY <1>5, <2>1
  <2>3. c[i] = b[i] BY <1>10, <2>2
  <2> QED BY <1>13, <2>1, <2>2, <2>3
<1>21. at \in T
  <2>1. at \in a + 1 .. s BY <1>5
  <2> QED BY <1>10, <1>11, <1>13, <2>1
<1>22. ASSUME NEW t \in T PROVE t \in S \/ t = at
  <2>1. t \in a + 1 .. s /\ c[t].k = "item" BY <1>13
  <2>2. CASE t < at
    <3>1. t \in 1 .. at - 1 /\ t \in a + 1 .. s - 1 BY <1>5, <2>1, <2>2
    <3> QED BY <1>10, <1>12, <2>1, <3>1
  <2>3. CASE t > at
    <3>1. t - 1 \in at .. Len(b) /\ t - 1 \in a + 1 .. s - 1 /\ (t - 1) + 1 = t /\ ~(t - 1 < at)
      BY <1>5, <2>1, <2>3
    <3>2. c[(t - 1) + 1] = b[t - 1] BY <1>10, <3>1
    <3>3. t - 1 \in S BY <1>12, <2>1, <3>1, <3>2
    <3> QED BY <1>14, <3>1, <3>3
  <2> QED BY <1>5, <2>1, <2>2, <2>3
<1>23. \A i \in S : Before(T, i) = Before(S, i)
  <2> TAKE i \in S
  <2>1. i < at /\ i \in Nat /\ \A j \in T : j \in Nat BY <1>14, <1>15 DEF Places
  <2>2. ~(at < i) BY <2>1
  <2>3. \A j \in T : j < i => j \in S BY <1>22, <2>2
  <2>4. \A j \in S : j \in T BY <1>20
  <2> QED BY <2>3, <2>4 DEF Before
<1>24. Before(T, at) = S
  <2>1. \A j : j \in T /\ j < at <=> j \in S BY <1>14, <1>20, <1>22
  <2> QED BY <2>1 DEF Before
<1>25. ItemTexts(c, a) = ItemTexts(b, a) \cup {<<Cardinality(S), None, u.text>>}
  <2> DEFINE Was(i) == <<Cardinality(Before(S, i)), b[i].name, b[i].text>>
             Is(i) == <<Cardinality(Before(T, i)), c[i].name, c[i].text>>
  <2>1. \A i \in S : Is(i) = Was(i) BY <1>20, <1>23
  <2>2. Is(at) = <<Cardinality(S), None, u.text>> BY <1>10, <1>11, <1>24
  <2>3. ItemTexts(b, a) = {Was(i) : i \in S} /\ ItemTexts(c, a) = {Is(i) : i \in T} BY <1>16
  <2> HIDE DEF Was, Is
  <2>4. T = S \cup {at} BY <1>20, <1>21, <1>22
  <2> QED BY <2>1, <2>2, <2>3, <2>4
<1>26. Wanted(ItemTexts(b, a), u) = ItemTexts(b, a) \cup {<<Cardinality(S), None, u.text>>}
  BY <1>17 DEF Wanted
<1> QED BY <1>18, <1>19, <1>25, <1>26

LEMMA ReplacedReadsBack ==
  ASSUME NEW b \in Seq(Lines), NEW u \in Requests, Has(b, u.name), u.op = "item",
         b[Anchor(b, u.name)].text = None,
         NEW i \in Nth(b, Anchor(b, u.name), u.n),
         NEW c, c = Replaced(b, Anchor(b, u.name), i, u.text)
  PROVE  Reading(c, u.name) = [text |-> None, items |-> Wanted(Reading(b, u.name).items, u)]
<1> DEFINE a == Anchor(b, u.name)
           S == Items(b, a)
           T == Items(c, a)
           l == Item(Indent(b, a), None, u.text)
           e == End(b, a, i)
           p == i - 1
           m == [j \in S |-> Place(p, e, j)]
<1>0. u.text \in Texts BY DEF Requests
<1>1. a \in DOMAIN b BY AnchorIsAField
<1>2. i \in S /\ Cardinality(Before(S, i)) = u.n /\ Nth(b, a, u.n) = {i} BY <1>1, NthIsOne
<1>3. /\ c = Splice(b, p, l, e) /\ Splices(b, u.name, p, l, e) /\ OneForOne(b, a, p, l, e)
      /\ i \in Nat /\ e \in i + 1 .. Len(b) + 1
  BY <1>0, <1>2, ReplacedIs
<1>4. c \in Seq(Lines) /\ Local(b, c, a, Stop(b, a), p + 2 - e, u.name) /\ c[a] = b[a] /\ a \in DOMAIN c
  BY <1>3, SplicesLocally
<1>5. Has(c, u.name) /\ Anchor(c, u.name) = a BY <1>4, LocalAnchor
<1>6. Aligns(m, S, T)
  <2>1. l \in Lines /\ ~TopLevel(l) /\ p \in a .. Len(b) /\ e \in p + 1 .. Stop(b, a)
    BY <1>3 DEF Splices
  <2> HIDE DEF l, p, e
  <2> QED BY <1>3, <2>1, SplicedItems
<1>7. Places(S) /\ Places(T) BY <1>1, <1>4, ItemsAreLines
<1>8. ItemTexts(b, a) = {<<Cardinality(Before(S, j)), b[j].name, b[j].text>> : j \in S}
      /\ ItemTexts(c, a) = {<<Cardinality(Before(T, j)), c[j].name, c[j].text>> : j \in T}
  BY ItemTextsAre
<1>9. Reading(b, u.name).items = ItemTexts(b, a) BY ListReads
<1>10. Reading(c, u.name) = [text |-> None, items |-> ItemTexts(c, a)] BY <1>4, <1>5, ListReads
<1>11. l.k = "item" /\ l.name = None /\ l.text = u.text BY DEF Item, Line
<1>12. Len(b) \in Nat /\ p \in 0 .. Len(b) /\ e \in p + 1 .. Len(b) + 1
  <2>1. Len(b) \in Nat /\ i \in 1 .. Len(b) BY <1>1, <1>2, ItemsLie
  <2> QED BY <1>3, <2>1
<1>13. /\ \A j \in 1 .. p : c[j] = b[j]
       /\ c[p + 1] = l
       /\ \A j \in e .. Len(b) : c[j + (p + 2 - e)] = b[j]
  <2>1. l \in Lines BY <1>3 DEF Splices
  <2> HIDE DEF l, p, e
  <2>2. Fits(b, p, l, e) BY <1>12, <2>1 DEF Fits
  <2>3. Lies(b, p, l, e) BY <2>2, FittingLies
  <2> QED BY <1>3, <2>3 DEF Lies
<1>14. \A j \in S : j \in 1 .. Len(b) BY <1>1, ItemsAreLines
<1>15. \A j \in S : p < j /\ j < e => j = i
  <2>1. p < i /\ i < e BY <1>3
  <2>2. \E x \in S : \A y \in S : p < y /\ y < e => y = x BY <1>3, <1>11 DEF OneForOne
  <2> QED BY <1>2, <2>1, <2>2
<1>16. \A j \in S : m[j] = Place(p, e, j) OBVIOUS
<1>17. m[i] = i /\ c[i] = l
  <2>1. p + 1 = i /\ ~(i <= p) /\ i < e BY <1>3
  <2>2. Place(p, e, i) = i BY <2>1 DEF Place
  <2> QED BY <1>2, <1>13, <1>16, <2>1, <2>2
<1> HIDE DEF a, S, T, l, e, m, p
<1>18. ASSUME NEW j \in S, j # i PROVE c[m[j]] = b[j]
  <2>1. CASE j <= p
    <3>1. Place(p, e, j) = j /\ j \in 1 .. p BY <1>14, <2>1 DEF Place
    <3> QED BY <1>13, <1>16, <3>1
  <2>2. CASE j >= e
    <3>1. ~(j <= p) /\ ~(j < e) /\ j \in e .. Len(b) BY <1>12, <1>14, <2>2
    <3>2. Place(p, e, j) = j + (p + 2 - e) BY <3>1 DEF Place
    <3> QED BY <1>13, <1>16, <3>1, <3>2
  <2> QED BY <1>12, <1>14, <1>15, <1>18, <2>1, <2>2
<1>19. \A j \in S : Cardinality(Before(T, m[j])) = Cardinality(Before(S, j))
  BY <1>6, <1>7, AlignedCounts
<1>20. ItemTexts(c, a) = {t \in ItemTexts(b, a) : t[1] # u.n} \cup {<<u.n, None, u.text>>}
  <2> DEFINE Was(j) == <<Cardinality(Before(S, j)), b[j].name, b[j].text>>
             Is(j) == <<Cardinality(Before(T, j)), c[j].name, c[j].text>>
             W == ItemTexts(b, a)
             I == ItemTexts(c, a)
             n == <<u.n, None, u.text>>
  <2>1. \A j \in S : j # i => Is(m[j]) = Was(j) BY <1>18, <1>19
  <2>2. Is(m[i]) = n BY <1>2, <1>11, <1>17, <1>19
  <2>3. \A j \in S : Was(j)[1] # u.n <=> j # i
    <3>1. \A j \in S : Cardinality(Before(S, j)) = u.n => j = i BY <1>2, <1>7, CountsTellApart
    <3> QED BY <1>2, <3>1
  <2>4. W = {Was(j) : j \in S} /\ I = {Is(j) : j \in T} BY <1>8
  <2>5. (\A j \in S : m[j] \in T) /\ \A t \in T : \E j \in S : m[j] = t BY <1>6 DEF Aligns
  <2> HIDE DEF Was, Is, n, W, I
  <2>6. \A t \in I : (t \in W /\ t[1] # u.n) \/ t = n
    <3> TAKE t \in I
    <3>1. PICK k \in T : t = Is(k) BY <2>4
    <3>2. PICK j \in S : m[j] = k BY <2>5
    <3>3. CASE j = i BY <2>2, <3>1, <3>2, <3>3
    <3>4. CASE j # i
      <4>1. t = Was(j) BY <2>1, <3>1, <3>2, <3>4
      <4> QED BY <2>3, <2>4, <3>4, <4>1
    <3> QED BY <3>3, <3>4
  <2>7. \A t \in W : t[1] # u.n => t \in I
    <3> TAKE t \in W
    <3>1. PICK j \in S : t = Was(j) BY <2>4
    <3>2. t[1] # u.n => j # i BY <2>3, <3>1
    <3> QED BY <2>1, <2>4, <2>5, <3>1, <3>2
  <2>8. n \in I BY <1>2, <2>2, <2>4, <2>5
  <2>9. I = {t \in W : t[1] # u.n} \cup {n} BY <2>6, <2>7, <2>8
  <2> QED BY <2>9 DEF I, W, n
<1>21. Wanted(ItemTexts(b, a), u) = {t \in ItemTexts(b, a) : t[1] # u.n} \cup {<<u.n, None, u.text>>}
  BY DEF Wanted
<1> QED BY <1>9, <1>10, <1>20, <1>21

-----------------------------------------------------------------------------
(* What was written is not written again                                   *)

LEMMA SameLines ==
  ASSUME NEW b \in Seq(Lines), NEW c \in Seq(Lines), Len(c) = Len(b), \A i \in 1 .. Len(b) : c[i] = b[i]
  PROVE  c = b
<1>1. Len(b) \in Nat /\ b = [i \in 1 .. Len(b) |-> b[i]] /\ c = [i \in 1 .. Len(c) |-> c[i]]
  OBVIOUS
<1> QED BY <1>1

LEMMA SpliceSame ==
  ASSUME NEW c \in Seq(Lines), NEW i \in 1 .. Len(c)
  PROVE  Splice(c, i - 1, c[i], i + 1) = c
<1> DEFINE l == c[i]
           p == i - 1
           q == i + 1
           z == Splice(c, p, l, q)
<1>1. Len(c) \in Nat /\ i \in Nat /\ l \in Lines OBVIOUS
<1>2. p \in 0 .. Len(c) /\ q \in p + 1 .. Len(c) + 1 /\ p + 2 - q = 0 /\ p + 1 = i BY <1>1
<1>a. c[i] = l OBVIOUS
<1> HIDE DEF p, q, l
<1>3. /\ z \in Seq(Lines) /\ Len(z) = Len(c) + (p + 2 - q)
      /\ \A j \in 1 .. p : z[j] = c[j]
      /\ z[p + 1] = l
      /\ \A j \in q .. Len(c) : z[j + (p + 2 - q)] = c[j]
  <2>1. Fits(c, p, l, q) BY <1>1, <1>2 DEF Fits
  <2>2. Lies(c, p, l, q) BY <2>1, FittingLies
  <2> QED BY <2>2 DEF Lies
<1> HIDE DEF z
<1>4. Len(z) = Len(c)
  <2>1. Len(c) + (p + 2 - q) = Len(c) BY <1>1, <1>2
  <2> QED BY <1>3, <2>1
<1>5. ASSUME NEW j \in 1 .. Len(c) PROVE z[j] = c[j]
  <2>1. CASE j < i
    <3>1. j \in 1 .. p BY <1>1, <2>1 DEF p
    <3> QED BY <1>3, <3>1
  <2>2. CASE j = i BY <1>2, <1>3, <1>a, <2>2
  <2>3. CASE j > i
    <3>1. j \in q .. Len(c) /\ j + 0 = j BY <1>1, <2>3 DEF q
    <3> QED BY <1>2, <1>3, <3>1
  <2> QED BY <1>1, <2>1, <2>2, <2>3
<1>6. z = c BY <1>3, <1>4, <1>5, SameLines
<1> QED BY <1>6 DEF z, p, q, l

LEMMA MaxIs ==
  ASSUME NEW S \in SUBSET Nat, NEW m \in S, \A k \in S : k <= m
  PROVE  Max(S) = m
<1>1. \A k \in S : k \in Nat OBVIOUS
<1>2. \A k \in S : m >= k BY <1>1
<1>3. Max(S) \in S /\ \A k \in S : Max(S) >= k BY <1>2 DEF Max
<1>4. Max(S) >= m /\ Max(S) <= m /\ Max(S) \in Nat /\ m \in Nat BY <1>1, <1>3
<1> QED BY <1>4

\* The last item is the last item.
LEMMA AlignedIndent ==
  ASSUME NEW b \in Seq(Lines), NEW a \in DOMAIN b, NEW c \in Seq(Lines), NEW e \in DOMAIN c,
         NEW m, Aligns(m, Items(b, a), Items(c, e)), Items(b, a) # {},
         \A i \in Items(b, a) : c[m[i]].ind = b[i].ind \/ c[m[i]].ind = Indent(b, a)
  PROVE  Indent(c, e) = Indent(b, a)
<1> DEFINE S == Items(b, a)
           T == Items(c, e)
           M == Max(S)
<1>1. Places(T) /\ Len(b) \in Nat /\ S \in SUBSET (0 .. Len(b)) BY ItemsAreLines
<1>2. S # {} /\ Aligns(m, S, T) OBVIOUS
<1>3. \A i \in S : c[m[i]].ind = b[i].ind \/ c[m[i]].ind = Indent(b, a) OBVIOUS
<1>4. Indent(b, a) = b[M].ind BY DEF Indent
<1>5. T # {} => Indent(c, e) = c[Max(T)].ind BY DEF Indent
<1> HIDE DEF S, T
<1>6. M \in S /\ \A k \in S : k <= M BY <1>1, <1>2, MaxOf
<1> HIDE DEF M
<1>7. m \in [S -> T] /\ (\A t \in T : \E s \in S : m[s] = t)
      /\ \A i, j \in S : m[i] < m[j] <=> i < j
  BY <1>2 DEF Aligns
<1>8. m[M] \in T /\ T \in SUBSET Nat /\ \A t \in T : t \in Nat BY <1>1, <1>6, <1>7 DEF Places
<1>9. \A t \in T : t <= m[M]
  <2> SUFFICES ASSUME NEW t \in T PROVE t <= m[M] OBVIOUS
  <2>1. PICK s \in S : m[s] = t BY <1>7
  <2>2. s <= M /\ s \in Nat /\ M \in Nat BY <1>1, <1>6
  <2>3. ~(m[M] < m[s]) BY <1>6, <1>7, <2>2
  <2>4. t \in Nat /\ m[M] \in Nat BY <1>8
  <2> QED BY <2>1, <2>3, <2>4
<1>10. Max(T) = m[M] BY <1>8, <1>9, MaxIs
<1> QED BY <1>3, <1>4, <1>5, <1>6, <1>8, <1>10

LEMMA SetTwice ==
  ASSUME NEW b \in Seq(Lines), NEW u \in Requests, u.op = "set", NEW c, c = SetField(b, u)
  PROVE  Updated(c, u) = c
<1>1. c \in Seq(Lines) /\ \E p \in DOMAIN c : \E s, d :
        Local(b, c, p, s, d, u.name) /\ c[p] = Field(u.name, u.text)
  BY SetIsLocal
<1>2. PICK p \in DOMAIN c : \E s, d : Local(b, c, p, s, d, u.name) /\ c[p] = Field(u.name, u.text)
  BY <1>1
<1>3. Has(c, u.name) /\ Anchor(c, u.name) = p BY <1>1, <1>2, LocalAnchor
<1>4. ~Refused(c, u) BY DEF Refused
<1>5. Updated(c, u) = SetField(c, u) BY <1>1, <1>4, UpdatedIs
<1>6. SetField(c, u) = [c EXCEPT ![p] = c[p]] BY <1>2, <1>3 DEF SetField
<1>7. [c EXCEPT ![p] = c[p]] = c BY <1>1
<1> QED BY <1>5, <1>6, <1>7

\* An update of an item that leaves the body as it is.
LEMMA ItemTwice ==
  ASSUME NEW c \in Seq(Lines), NEW u \in Requests, u.op = "item", Has(c, u.name),
         c[Anchor(c, u.name)].text \in {None, "[]"},
         NEW i \in Nth(c, Anchor(c, u.name), u.n),
         u.sub = None => Replaced(c, Anchor(c, u.name), i, u.text) = c,
         u.sub # None => SubReplaced(c, Anchor(c, u.name), i, u.sub, u.text) = c
  PROVE  Updated(c, u) = c
<1> DEFINE a == Anchor(c, u.name)
<1>1. a \in DOMAIN c BY AnchorIsAField
<1>2. Nth(c, a, u.n) = {i} BY <1>1, NthIsOne
<1>3. ~Refused(c, u) BY <1>2 DEF Refused, Inline
<1>4. \E j \in Nth(c, a, u.n) :
        Updated(c, u) = IF u.sub = None THEN Replaced(c, a, j, u.text)
                        ELSE SubReplaced(c, a, j, u.sub, u.text)
  BY <1>3, UpdatedIs
<1>5. Updated(c, u) = IF u.sub = None THEN Replaced(c, a, i, u.text)
                      ELSE SubReplaced(c, a, i, u.sub, u.text)
  BY <1>2, <1>4
<1> QED BY <1>5

LEMMA ReplacedTwice ==
  ASSUME NEW b \in Seq(Lines), NEW u \in Requests, Has(b, u.name), u.op = "item", u.sub = None,
         b[Anchor(b, u.name)].text \in {None, "[]"},
         NEW i \in Nth(b, Anchor(b, u.name), u.n),
         NEW c, c = Replaced(b, Anchor(b, u.name), i, u.text)
  PROVE  Updated(c, u) = c
<1> DEFINE a == Anchor(b, u.name)
           s == Stop(b, a)
           S == Items(b, a)
           T == Items(c, a)
           ind == Indent(b, a)
           l == Item(ind, None, u.text)
           e == End(b, a, i)
           p == i - 1
           m == [j \in S |-> Place(p, e, j)]
<1>0. u.text \in Texts BY DEF Requests
<1>1. a \in DOMAIN b BY AnchorIsAField
<1>2. i \in S BY <1>1, NthIsOne
<1>3. /\ c = Splice(b, p, l, e) /\ Splices(b, u.name, p, l, e) /\ OneForOne(b, a, p, l, e)
      /\ i \in Nat /\ e \in i + 1 .. Len(b) + 1
  BY <1>0, <1>2, ReplacedIs
<1>4. c \in Seq(Lines) /\ Local(b, c, a, s, p + 2 - e, u.name) /\ c[a] = b[a] /\ a \in DOMAIN c
  BY <1>3, SplicesLocally
<1>5. Has(c, u.name) /\ Anchor(c, u.name) = a /\ Stop(c, a) = s + (p + 2 - e) BY <1>4, LocalAnchor
<1>6. Aligns(m, S, T)
  <2>1. l \in Lines /\ ~TopLevel(l) /\ p \in a .. Len(b) /\ e \in p + 1 .. Stop(b, a)
    BY <1>3 DEF Splices
  <2> HIDE DEF l, p, e
  <2> QED BY <1>3, <2>1, SplicedItems
<1>7. /\ Len(b) \in Nat /\ i \in 1 .. Len(b) /\ p \in 0 .. Len(b) /\ e \in p + 1 .. Len(b) + 1
      /\ s \in Nat /\ e \in i + 1 .. s
  <2>1. Len(b) \in Nat /\ i \in 1 .. Len(b) BY <1>1, <1>2, ItemsLie
  <2>2. s \in Nat /\ e \in i + 1 .. s BY <1>1, <1>2, StopIsBehind, EndIsBehind
  <2> QED BY <1>3, <2>1, <2>2
<1>8. /\ \A j \in 1 .. p : c[j] = b[j]
      /\ c[p + 1] = l
      /\ \A j \in e .. Len(b) : c[j + (p + 2 - e)] = b[j]
      /\ Len(c) = Len(b) + (p + 2 - e)
  <2>1. l \in Lines BY <1>3 DEF Splices
  <2> HIDE DEF l, p, e
  <2>2. Fits(b, p, l, e) BY <1>7, <2>1 DEF Fits
  <2>3. Lies(b, p, l, e) BY <2>2, FittingLies
  <2> QED BY <1>3, <2>3 DEF Lies
<1>9. \A j \in S : j \in 1 .. Len(b) BY <1>1, ItemsAreLines
<1>10. \A j \in S : m[j] = Place(p, e, j) OBVIOUS
<1>11. l.ind = ind /\ l.k = "item" BY DEF Item, Line
<1>12. e = Min({j \in S : j > i} \cup {s}) BY DEF End
<1>13. End(c, a, i) = Min({j \in T : j > i} \cup {Stop(c, a)}) BY DEF End
<1>14. \A j \in S : p < j /\ j < e => j = i
  <2>1. p < i /\ i < e BY <1>3
  <2>2. \E x \in S : \A y \in S : p < y /\ y < e => y = x BY <1>3, <1>11 DEF OneForOne
  <2> QED BY <1>2, <2>1, <2>2
<1>15. Places(T) BY <1>4, ItemsAreLines
<1>16. p = i - 1 OBVIOUS
<1> HIDE DEF s, S, T, ind, l, e, m, p, a
<1>17. m[i] = i /\ c[i] = l
  <2>1. p + 1 = i /\ ~(i <= p) /\ i < e BY <1>7, <1>16
  <2>2. Place(p, e, i) = i BY <2>1 DEF Place
  <2> QED BY <1>2, <1>8, <1>10, <2>1, <2>2
<1>18. i \in Nth(c, a, u.n)
  <2>1. i \in Nth(b, a, u.n) BY DEF a
  <2> QED BY <1>1, <1>4, <1>6, <1>17, <2>1, AlignedNth DEF S, T
<1>19. Indent(c, a) = ind
  <2>1. ASSUME NEW j \in S PROVE c[m[j]].ind = b[j].ind \/ c[m[j]].ind = ind
    <3>1. CASE j = i BY <1>11, <1>17, <3>1
    <3>2. CASE j <= p
      <4>1. Place(p, e, j) = j /\ j \in 1 .. p BY <1>9, <3>2 DEF Place
      <4> QED BY <1>8, <1>10, <4>1
    <3>3. CASE j >= e
      <4>1. ~(j <= p) /\ ~(j < e) /\ j \in e .. Len(b) BY <1>7, <1>9, <3>3
      <4>2. Place(p, e, j) = j + (p + 2 - e) BY <4>1 DEF Place
      <4> QED BY <1>8, <1>10, <4>1, <4>2
    <3> QED BY <1>7, <1>9, <1>14, <3>1, <3>2, <3>3
  <2> QED BY <1>1, <1>2, <1>4, <1>6, <2>1, AlignedIndent DEF S, T, ind
<1>20. End(c, a, i) = i + 1
  <2> DEFINE E == {j \in T : j > i} \cup {Stop(c, a)}
             d == p + 2 - e
  <2>0. d \in Int /\ e + d = i + 1 BY <1>7, <1>16
  <2>1. i + 1 \in E
    <3> DEFINE F == {j \in S : j > i} \cup {s}
    <3>1. e \in F
      <4>1. \A j \in S : j \in Nat BY <1>9
      <4>2. F \in SUBSET Nat /\ F # {} BY <1>7, <4>1
      <4>3. e = Min(F) BY <1>12
      <4> HIDE DEF F
      <4> QED BY <4>2, <4>3, MinOf
    <3>2. CASE e = s BY <1>5, <2>0, <3>2
    <3>3. CASE e \in S
      <4>1. Place(p, e, e) = e + d BY <1>7, <1>16 DEF Place
      <4>2. m[e] \in T BY <1>6, <3>3 DEF Aligns
      <4>3. i + 1 \in T BY <1>10, <2>0, <3>3, <4>1, <4>2
      <4> QED BY <1>7, <4>3
    <3> QED BY <3>1, <3>2, <3>3
  <2>2. (\A t \in T : t \in Nat) /\ Stop(c, a) \in Nat
    <3>1. Stop(c, a) = s + d BY <1>5
    <3>2. s + d \in Nat BY <1>7, <1>16
    <3> QED BY <1>15, <3>1, <3>2 DEF Places
  <2>3. \A k \in E : i + 1 <= k
    <3>1. i + 1 <= Stop(c, a)
      <4>1. Stop(c, a) = s + d BY <1>5
      <4>2. i + 1 <= s + d BY <1>7, <1>16
      <4> QED BY <4>1, <4>2
    <3> QED BY <1>7, <2>2, <3>1
  <2>4. E \in SUBSET Nat BY <2>2
  <2> HIDE DEF E
  <2>5. Min(E) = i + 1 BY <2>1, <2>3, <2>4, MinIs
  <2> QED BY <1>13, <2>5 DEF E
<1>21. Replaced(c, a, i, u.text) = c
  <2>1. Replaced(c, a, i, u.text) = Splice(c, i - 1, l, i + 1)
    BY <1>19, <1>20 DEF Replaced, Splice, l
  <2>2. i \in 1 .. Len(c) BY <1>7, <1>8, <1>16
  <2>3. Splice(c, i - 1, l, i + 1) = c BY <1>4, <1>17, <2>2, SpliceSame
  <2> QED BY <2>1, <2>3
<1>22. c[a].text \in {None, "[]"} BY <1>4 DEF a
<1> QED BY <1>4, <1>5, <1>18, <1>21, <1>22, ItemTwice

\* A sub-field that was not there is the only one of its name afterwards.
LEMMA SubInsertedTwice ==
  ASSUME NEW b \in Seq(Lines), NEW u \in Requests, Has(b, u.name), u.op = "item", u.sub # None,
         b[Anchor(b, u.name)].text \in {None, "[]"},
         NEW i \in Nth(b, Anchor(b, u.name), u.n),
         SubLines(b, Anchor(b, u.name), i, u.sub) = {},
         NEW c, c = SubReplaced(b, Anchor(b, u.name), i, u.sub, u.text)
  PROVE  Updated(c, u) = c
<1> DEFINE a == Anchor(b, u.name)
           s == Stop(b, a)
           S == Items(b, a)
           T == Items(c, a)
           e == End(b, a, i)
           p == e - 1
           m == [j \in S |-> Place(p, e, j)]
<1>0. u.text \in Texts /\ u.sub \in Texts BY DEF Requests
<1>1. a \in DOMAIN b BY AnchorIsAField
<1>2. i \in S BY <1>1, NthIsOne
<1>3. PICK ind \in Nat :
        /\ c = Splice(b, p, Sub(ind, u.sub, u.text), e)
        /\ Splices(b, u.name, p, Sub(ind, u.sub, u.text), e)
        /\ OneForOne(b, a, p, Sub(ind, u.sub, u.text), e)
        /\ i \in Nat /\ e \in i + 1 .. Len(b) + 1
  BY <1>0, <1>2, SubInsertedIs
<1> DEFINE l == Sub(ind, u.sub, u.text)
<1>4. c \in Seq(Lines) /\ Local(b, c, a, s, p + 2 - e, u.name) /\ c[a] = b[a] /\ a \in DOMAIN c
  BY <1>3, SplicesLocally
<1>5. Has(c, u.name) /\ Anchor(c, u.name) = a /\ Stop(c, a) = s + (p + 2 - e) BY <1>4, LocalAnchor
<1>6. Aligns(m, S, T)
  <2>1. l \in Lines /\ ~TopLevel(l) /\ p \in a .. Len(b) /\ e \in p + 1 .. Stop(b, a)
    BY <1>3 DEF Splices
  <2>2. c = Splice(b, p, l, e) /\ OneForOne(b, a, p, l, e) BY <1>3
  <2> HIDE DEF l, p, e
  <2> QED BY <2>1, <2>2, SplicedItems
<1>7. /\ Len(b) \in Nat /\ i \in 1 .. Len(b) /\ p \in 0 .. Len(b) /\ e \in p + 1 .. Len(b) + 1
      /\ s \in Nat /\ e \in i + 1 .. s /\ p + 2 - e = 1 /\ p + 1 = e /\ p = e - 1 /\ e \in Nat
  <2>1. Len(b) \in Nat /\ i \in 1 .. Len(b) BY <1>1, <1>2, ItemsLie
  <2>2. s \in Nat /\ e \in i + 1 .. s BY <1>1, <1>2, StopIsBehind, EndIsBehind
  <2> QED BY <1>3, <2>1, <2>2
<1>8. /\ \A j \in 1 .. p : c[j] = b[j]
      /\ c[e] = l
      /\ Len(c) = Len(b) + 1
  <2>1. l \in Lines /\ c = Splice(b, p, l, e) BY <1>3 DEF Splices
  <2> HIDE DEF l, p, e
  <2>2. Fits(b, p, l, e) BY <1>7, <2>1 DEF Fits
  <2>3. Lies(b, p, l, e) BY <2>2, FittingLies
  <2> QED BY <1>7, <2>1, <2>3 DEF Lies
<1>9. \A j \in S : j \in 1 .. Len(b) BY <1>1, ItemsAreLines
<1>10. \A j \in S : m[j] = Place(p, e, j) OBVIOUS
<1>11. l.k = "sub" /\ l.name = u.sub /\ l.text = u.text BY DEF Sub, Line
<1>12. e = Min({j \in S : j > i} \cup {s}) BY DEF End
<1>13. End(c, a, i) = Min({j \in T : j > i} \cup {Stop(c, a)}) BY DEF End
<1>14. Places(T) BY <1>4, ItemsAreLines
<1>15. \A j \in i .. e - 1 : ~(b[j].name = u.sub /\ b[j].k = IF j = i THEN "item" ELSE "sub")
  BY DEF SubLines
<1>16. SubLines(c, a, i, u.sub) =
         {j \in i .. End(c, a, i) - 1 : c[j].name = u.sub /\ c[j].k = IF j = i THEN "item" ELSE "sub"}
  BY DEF SubLines
<1> HIDE DEF s, S, T, l, e, m, p, a
<1>17. \A j \in S : m[j] = IF j < e THEN j ELSE j + 1
  <2> SUFFICES ASSUME NEW j \in S PROVE m[j] = IF j < e THEN j ELSE j + 1 OBVIOUS
  <2>1. j \in Nat BY <1>9
  <2>2. Place(p, e, j) = IF j < e THEN j ELSE j + 1 BY <1>7, <2>1 DEF Place
  <2> QED BY <1>10, <2>2
<1>18. i \in Nth(c, a, u.n)
  <2>1. i \in Nth(b, a, u.n) BY DEF a
  <2>2. m[i] = i BY <1>2, <1>7, <1>17
  <2> QED BY <1>1, <1>4, <1>6, <2>1, <2>2, AlignedNth DEF S, T
<1>19. End(c, a, i) = e + 1
  <2> DEFINE E == {j \in T : j > i} \cup {Stop(c, a)}
             F == {j \in S : j > i} \cup {s}
  <2>1. Stop(c, a) = s + 1 /\ s + 1 \in Nat BY <1>5, <1>7
  <2>2. e \in F /\ \A k \in F : e <= k
    <3>1. \A j \in S : j \in Nat BY <1>9
    <3>2. F \in SUBSET Nat /\ F # {} BY <1>7, <3>1
    <3>3. e = Min(F) BY <1>12
    <3> HIDE DEF F
    <3> QED BY <3>2, <3>3, MinOf
  <2>3. e + 1 \in E
    <3>1. CASE e = s BY <2>1, <3>1
    <3>2. CASE e \in S
      <4>1. m[e] = e + 1 BY <1>7, <1>17, <3>2
      <4>2. e + 1 \in T BY <1>6, <3>2, <4>1 DEF Aligns
      <4> QED BY <1>7, <4>2
    <3> QED BY <2>2, <3>1, <3>2
  <2>4. \A t \in T : t \in Nat BY <1>14 DEF Places
  <2>5. ASSUME NEW t \in T, t > i PROVE e + 1 <= t
    <3>1. PICK j \in S : m[j] = t BY <1>6 DEF Aligns
    <3>2. j \in Nat /\ m[j] = IF j < e THEN j ELSE j + 1 BY <1>9, <1>17
    <3>3. j > i BY <1>7, <2>5, <3>1, <3>2
    <3>4. e <= j BY <2>2, <3>3
    <3> QED BY <1>7, <3>1, <3>2, <3>4
  <2>6. \A k \in E : e + 1 <= k BY <1>7, <2>1, <2>5
  <2>7. E \in SUBSET Nat BY <2>1, <2>4
  <2> HIDE DEF E
  <2>8. Min(E) = e + 1 BY <2>3, <2>6, <2>7, MinIs
  <2> QED BY <1>13, <2>8 DEF E
<1>20. SubLines(c, a, i, u.sub) = {e}
  <2>1. \A j \in i .. e - 1 : c[j] = b[j] BY <1>7, <1>8
  <2>2. \A j \in i .. e - 1 : ~(c[j].name = u.sub /\ c[j].k = IF j = i THEN "item" ELSE "sub")
    BY <1>15, <2>1
  <2>3. \A j : j \in i .. (e + 1) - 1 <=> j \in i .. e - 1 \/ j = e BY <1>7
  <2>4. c[e].name = u.sub /\ c[e].k = "sub" /\ e # i BY <1>7, <1>8, <1>11
  <2> DEFINE G == {j \in i .. End(c, a, i) - 1 :
                     c[j].name = u.sub /\ c[j].k = IF j = i THEN "item" ELSE "sub"}
  <2>5. \A j : j \in G <=> j \in i .. (e + 1) - 1
                           /\ c[j].name = u.sub /\ c[j].k = IF j = i THEN "item" ELSE "sub"
    BY <1>19
  <2> HIDE DEF G
  <2>6. G = {e} BY <2>2, <2>3, <2>4, <2>5
  <2> QED BY <1>16, <2>6 DEF G
<1>21. Min({e}) = e
  <2>1. {e} \in SUBSET Nat /\ e \in {e} /\ \A k \in {e} : e <= k BY <1>7
  <2> QED BY <2>1, MinIs
<1>22. SubReplaced(c, a, i, u.sub, u.text) = c
  <2>1. SubReplaced(c, a, i, u.sub, u.text) = [c EXCEPT ![e].text = u.text]
    BY <1>20, <1>21 DEF SubReplaced
  <2>2. e \in DOMAIN c /\ c[e].text = u.text
    <3>1. DOMAIN c = 1 .. Len(c) BY <1>4
    <3> QED BY <1>7, <1>8, <1>11, <3>1
  <2>3. c[e] \in Lines BY <1>4, <2>2
  <2>4. [c[e] EXCEPT !.text = c[e].text] = c[e] BY <2>3 DEF Lines
  <2>5. [c EXCEPT ![e].text = u.text] = [c EXCEPT ![e] = c[e]] BY <2>2, <2>4
  <2>6. [c EXCEPT ![e] = c[e]] = c BY <1>4
  <2> QED BY <2>1, <2>5, <2>6
<1>23. c[a].text \in {None, "[]"} BY <1>4 DEF a
<1> QED BY <1>4, <1>5, <1>18, <1>22, <1>23, ItemTwice

LEMMA SubChangedTwice ==
  ASSUME NEW b \in Seq(Lines), NEW u \in Requests, Has(b, u.name), u.op = "item", u.sub # None,
         b[Anchor(b, u.name)].text \in {None, "[]"},
         NEW i \in Nth(b, Anchor(b, u.name), u.n),
         SubLines(b, Anchor(b, u.name), i, u.sub) # {},
         NEW c, c = SubReplaced(b, Anchor(b, u.name), i, u.sub, u.text)
  PROVE  Updated(c, u) = c
<1> DEFINE a == Anchor(b, u.name)
           s == Stop(b, a)
           S == Items(b, a)
           L == SubLines(b, a, i, u.sub)
<1>0. u.text \in Texts /\ u.sub \in Texts BY DEF Requests
<1>1. a \in DOMAIN b BY AnchorIsAField
<1>2. i \in S BY <1>1, NthIsOne
<1>3. /\ c \in Seq(Lines) /\ Len(c) = Len(b)
      /\ \E m \in a + 1 .. s - 1 :
              /\ m = Min(L) /\ m \in L
              /\ \A j \in DOMAIN b : j # m => c[j] = b[j]
              /\ c[m].k = b[m].k /\ c[m].name = b[m].name /\ c[m].ind = b[m].ind
              /\ c[m].text = u.text
  BY <1>0, <1>2, SubChangedIs
<1>4. PICK m \in a + 1 .. s - 1 :
              /\ m = Min(L) /\ m \in L
              /\ \A j \in DOMAIN b : j # m => c[j] = b[j]
              /\ c[m].k = b[m].k /\ c[m].name = b[m].name /\ c[m].ind = b[m].ind
              /\ c[m].text = u.text
  BY <1>3
<1>5. /\ Len(b) \in Nat /\ DOMAIN b = 1 .. Len(b) /\ DOMAIN c = 1 .. Len(b) /\ a \in 1 .. Len(b)
      /\ s \in a + 1 .. Len(b) + 1 /\ i \in a + 1 .. s - 1 /\ End(b, a, i) \in i + 1 .. s
  <2>1. DOMAIN c = 1 .. Len(c) /\ Len(c) = Len(b) BY <1>3
  <2>2. DOMAIN b = 1 .. Len(b) /\ Len(b) \in Nat OBVIOUS
  <2>3. s \in a + 1 .. Len(b) + 1 BY <1>1, StopIsBehind
  <2>4. i \in a + 1 .. s - 1 BY <1>1, <1>2, ItemsLie
  <2>5. End(b, a, i) \in i + 1 .. s BY <1>1, <1>2, EndIsBehind
  <2> HIDE DEF a, s
  <2> QED BY <1>1, <2>1, <2>2, <2>3, <2>4, <2>5
<1>6. \A j \in DOMAIN b : c[j].k = b[j].k /\ c[j].name = b[j].name /\ c[j].ind = b[j].ind BY <1>4
<1>7. m # a /\ m \in a .. s - 1 /\ m \in DOMAIN c /\ a \in DOMAIN c
  <2>1. m \in a + 1 .. s - 1 OBVIOUS
  <2> HIDE DEF a, s
  <2> QED BY <1>5, <2>1
<1>8. c[a] = b[a] BY <1>1, <1>4, <1>7
<1>9. Has(c, u.name) /\ Anchor(c, u.name) = a
  <2>1. b[a].k = "field" /\ b[a].name = u.name BY AnchorIsAField
  <2>2. \A j \in 1 .. a - 1 : ~(b[j].k = "field" /\ b[j].name = u.name) BY AnchorIsFirst
  <2> HIDE DEF a
  <2>3. \A j \in 1 .. a - 1 : ~(c[j].k = "field" /\ c[j].name = u.name)
    <3>1. \A j \in 1 .. a - 1 : j \in DOMAIN b BY <1>5
    <3> QED BY <1>6, <2>2, <3>1
  <2>4. c \in Seq(Lines) /\ a \in DOMAIN c BY <1>3, <1>7
  <2>5. c[a].k = "field" /\ c[a].name = u.name BY <1>8, <2>1
  <2> QED BY <2>3, <2>4, <2>5, AnchorIs
<1>10. Stop(c, a) = s
  <2>1. Between(b, a, s) BY <1>1, StopIsBetween
  <2> HIDE DEF a, s
  <2>2. \A j \in DOMAIN b : TopLevel(c[j]) <=> TopLevel(b[j]) BY <1>6 DEF TopLevel
  <2>3. Between(c, a, s)
    <3>1. s = Len(b) + 1 \/ TopLevel(c[s])
      <4>1. s # Len(b) + 1 => s \in DOMAIN b BY <1>5
      <4> QED BY <2>1, <2>2, <4>1 DEF Between
    <3>2. \A j \in a + 1 .. s - 1 : ~TopLevel(c[j]) BY <1>5, <2>1, <2>2 DEF Between
    <3> QED BY <1>3, <1>5, <3>1, <3>2 DEF Between
  <2> QED BY <1>3, <1>7, <2>3, StopIs
<1>11. Items(c, a) = S
  <2>1. S = {j \in a + 1 .. s - 1 : b[j].k = "item"} BY DEF Items
  <2>2. Items(c, a) = {j \in a + 1 .. s - 1 : c[j].k = "item"}
    <3> HIDE DEF a, s
    <3> QED BY <1>10 DEF Items
  <2>3. \A j \in a + 1 .. s - 1 : c[j].k = b[j].k BY <1>5, <1>6
  <2> HIDE DEF a, s, S
  <2> QED BY <2>1, <2>2, <2>3
<1>12. End(c, a, i) = End(b, a, i)
  <2>1. End(b, a, i) = Min({j \in S : j > i} \cup {s}) BY DEF End
  <2>2. End(c, a, i) = Min({j \in Items(c, a) : j > i} \cup {Stop(c, a)}) BY DEF End
  <2> HIDE DEF a, s, S
  <2> QED BY <1>10, <1>11, <2>1, <2>2
<1>13. SubLines(c, a, i, u.sub) = L
  <2> DEFINE e == End(b, a, i)
  <2>1. L = {j \in i .. e - 1 : b[j].name = u.sub /\ b[j].k = IF j = i THEN "item" ELSE "sub"}
    BY DEF SubLines
  <2>2. SubLines(c, a, i, u.sub)
          = {j \in i .. e - 1 : c[j].name = u.sub /\ c[j].k = IF j = i THEN "item" ELSE "sub"}
    BY <1>12 DEF SubLines
  <2>3. \A j \in i .. e - 1 : c[j].k = b[j].k /\ c[j].name = b[j].name
    <3>1. \A j \in i .. e - 1 : j \in DOMAIN b
      <4>1. e \in i + 1 .. s BY <1>5
      <4> HIDE DEF a, s, e
      <4> QED BY <1>5, <4>1
    <3> QED BY <1>6, <3>1
  <2> HIDE DEF e, L
  <2> QED BY <2>1, <2>2, <2>3
<1>14. i \in Nth(c, a, u.n)
  <2>1. i \in Nth(b, a, u.n) OBVIOUS
  <2> HIDE DEF a
  <2> QED BY <1>11, <2>1 DEF Nth, S
<1>15. SubReplaced(c, a, i, u.sub, u.text) = c
  <2>1. L # {} OBVIOUS
  <2>2. SubReplaced(c, a, i, u.sub, u.text) = [c EXCEPT ![m].text = u.text]
    <3> HIDE DEF a, L
    <3> QED BY <1>4, <1>13, <2>1 DEF SubReplaced
  <2>3. c[m] \in Lines /\ c[m].text = u.text
    <3>1. c \in Seq(Lines) /\ m \in DOMAIN c BY <1>3, <1>7
    <3>2. c[m] \in Lines BY ONLY <3>1
    <3> QED BY <1>4, <3>2
  <2>4. [c[m] EXCEPT !.text = c[m].text] = c[m] BY <2>3 DEF Lines
  <2>5. [c EXCEPT ![m].text = u.text] = [c EXCEPT ![m] = c[m]] BY <2>3, <2>4
  <2>6. [c EXCEPT ![m] = c[m]] = c BY <1>3
  <2> QED BY <2>2, <2>5, <2>6
<1>16. c[a].text \in {None, "[]"} BY <1>8
<1> HIDE DEF a
<1> QED BY <1>3, <1>9, <1>14, <1>15, <1>16, ItemTwice

\* What an update that is not refused makes of its own field, read again.
LEMMA UpdateReadsBack ==
  ASSUME NEW b \in Seq(Lines), NEW u \in Requests, ~Refused(b, u)
  PROVE  /\ u.op = "set" => Reading(Updated(b, u), u.name).text = u.text
         /\ u.op # "set" /\ u.sub = None /\ ~WroteBracket(b, u) =>
              Reading(Updated(b, u), u.name)
                = [text |-> None, items |-> Wanted(Reading(b, u.name).items, u)]
<1> DEFINE a == Anchor(b, u.name)
           c == Updated(b, u)
<1>0. u.op \in {"set", "append", "item"} BY DEF Requests
<1>1. /\ u.op = "set" => c = SetField(b, u)
      /\ u.op = "append" /\ ~Has(b, u.name) =>
           c = b \o <<Field(u.name, None), Item(2, None, u.text)>>
      /\ u.op = "append" /\ Has(b, u.name) => c = Appended(b, u)
      /\ u.op = "item" => Has(b, u.name)
                          /\ \E i \in Nth(b, a, u.n) :
                               c = IF u.sub = None THEN Replaced(b, a, i, u.text)
                                   ELSE SubReplaced(b, a, i, u.sub, u.text)
      /\ u.op # "set" /\ Has(b, u.name) => b[a].text = None \/ b[a].text = "[]"
  BY UpdatedIs
<1> HIDE DEF c
<1>2. CASE u.op = "set"
  <2>1. Reading(c, u.name).text = u.text BY <1>1, <1>2, SetReadsBack
  <2> QED BY <1>2, <2>1 DEF c
<1>3. CASE u.op = "append" /\ ~Has(b, u.name)
  <2>1. c = b \o <<Field(u.name, None), Item(2, None, u.text)>> BY <1>1, <1>3
  <2>2. /\ c \in Seq(Lines) /\ Local(b, c, Len(b) + 1, Len(b) + 1, 2, u.name)
        /\ c[Len(b) + 1] = Field(u.name, None) /\ c[Len(b) + 2] = Item(2, None, u.text)
    BY <1>3, <2>1, NewListIsLocal
  <2>3. Reading(c, u.name) = [text |-> None, items |-> Wanted(Reading(b, u.name).items, u)]
    BY <1>3, <2>2, NewListReadsBack
  <2> QED BY <1>3, <2>3 DEF c
<1>4. ASSUME u.op # "set", Has(b, u.name), ~WroteBracket(b, u)
      PROVE  b[a].text = None
  BY <1>1, <1>4 DEF WroteBracket
<1>5. CASE u.op = "append" /\ Has(b, u.name)
  <2>1. SUFFICES ASSUME ~WroteBracket(b, u)
        PROVE  Reading(c, u.name) = [text |-> None, items |-> Wanted(Reading(b, u.name).items, u)]
    BY <1>5 DEF c
  <2>2. b[a].text = None BY <1>4, <1>5, <2>1
  <2>3. c = Appended(b, u) BY <1>1, <1>5
  <2> QED BY <1>5, <2>2, <2>3, AppendedReadsBack
<1>6. CASE u.op = "item"
  <2>1. SUFFICES ASSUME ~WroteBracket(b, u), u.sub = None
        PROVE  Reading(c, u.name) = [text |-> None, items |-> Wanted(Reading(b, u.name).items, u)]
    BY <1>6 DEF c
  <2>2. Has(b, u.name) BY <1>1, <1>6
  <2>3. b[a].text = None BY <1>4, <1>6, <2>1, <2>2
  <2>4. PICK i \in Nth(b, a, u.n) : c = Replaced(b, a, i, u.text) BY <1>1, <1>6, <2>1
  <2> QED BY <1>6, <2>2, <2>3, <2>4, ReplacedReadsBack
<1> QED BY <1>0, <1>2, <1>3, <1>5, <1>6

\* The same update again changes nothing.
LEMMA UpdateTwice ==
  ASSUME NEW b \in Seq(Lines), NEW u \in Requests, ~Refused(b, u), u.op # "append"
  PROVE  Updated(Updated(b, u), u) = Updated(b, u)
<1> DEFINE a == Anchor(b, u.name)
           c == Updated(b, u)
<1>0. u.op \in {"set", "item"} BY DEF Requests
<1>1. /\ u.op = "set" => c = SetField(b, u)
      /\ u.op = "item" => Has(b, u.name)
                          /\ \E i \in Nth(b, a, u.n) :
                               c = IF u.sub = None THEN Replaced(b, a, i, u.text)
                                   ELSE SubReplaced(b, a, i, u.sub, u.text)
      /\ u.op # "set" /\ Has(b, u.name) => b[a].text = None \/ b[a].text = "[]"
  BY UpdatedIs
<1> HIDE DEF c
<1>2. CASE u.op = "set"
  <2>1. Updated(c, u) = c BY <1>1, <1>2, SetTwice
  <2> QED BY <2>1 DEF c
<1>3. CASE u.op = "item"
  <2>1. Has(b, u.name) /\ b[a].text \in {None, "[]"} BY <1>1, <1>3
  <2>2. PICK i \in Nth(b, a, u.n) : c = IF u.sub = None THEN Replaced(b, a, i, u.text)
                                        ELSE SubReplaced(b, a, i, u.sub, u.text)
    BY <1>1, <1>3
  <2>3. CASE u.sub = None
    <3>1. c = Replaced(b, a, i, u.text) BY <2>2, <2>3
    <3>2. Updated(c, u) = c
      <4>1. i \in Nth(b, Anchor(b, u.name), u.n) OBVIOUS
      <4>2. Updated(Replaced(b, a, i, u.text), u) = Replaced(b, a, i, u.text)
        BY <1>3, <2>1, <2>3, <4>1, ReplacedTwice
      <4> QED BY <3>1, <4>2
    <3> QED BY <3>2 DEF c
  <2>4. CASE u.sub # None
    <3>1. c = SubReplaced(b, a, i, u.sub, u.text) BY <2>2, <2>4
    <3>2. CASE SubLines(b, a, i, u.sub) = {}
      <4>1. Updated(c, u) = c BY <1>3, <2>1, <2>4, <3>1, <3>2, SubInsertedTwice
      <4> QED BY <4>1 DEF c
    <3>3. CASE SubLines(b, a, i, u.sub) # {}
      <4>1. Updated(c, u) = c BY <1>3, <2>1, <2>4, <3>1, <3>3, SubChangedTwice
      <4> QED BY <4>1 DEF c
    <3> QED BY <3>2, <3>3
  <2> QED BY <2>3, <2>4
<1> QED BY <1>0, <1>2, <1>3

\* An update adds its own field and no other, and every other field reads as
\* before.
LEMMA UpdateKeepsOthers ==
  ASSUME NEW b \in Seq(Lines), NEW u \in Requests, ~Refused(b, u)
  PROVE  /\ Names(Updated(b, u)) = Names(b) \cup {u.name}
         /\ \A name \in Names(b) \ {u.name} : Reading(Updated(b, u), name) = Reading(b, name)
<1> DEFINE c == Updated(b, u)
<1>1. c \in Seq(Lines) /\ \E p, s, d : Local(b, c, p, s, d, u.name) BY UpdateIsLocal
<1> HIDE DEF c
<1>2. PICK p, s, d : Local(b, c, p, s, d, u.name) BY <1>1
<1>3. Names(c) = Names(b) \cup {u.name} BY <1>1, <1>2, LocalNames
<1>4. ASSUME NEW name \in Names(b) \ {u.name}
      PROVE  Reading(c, name) = Reading(b, name)
  <2>1. name # u.name /\ Has(b, name) BY NamesAre
  <2> QED BY <1>1, <1>2, <2>1, LocalReads
<1> QED BY <1>3, <1>4 DEF c

-----------------------------------------------------------------------------
(* Types                                                                   *)

Records == [at : {"idle", "create", "open", "write", "append"}, what : Directives,
            seen : Files, new : Files]

LEMMA FilesHere == Empty \in Files /\ Absent \in Files /\ Directory \in Files
                   /\ Empty.is = "file" /\ Empty.body = <<>> /\ Absent.is = "absent"
                   /\ Directory.is = "directory"
BY DEF Files, Empty, File, Absent, Directory

LEMMA IdleIsARecord == Idle \in Records /\ Idle.at = "idle"
<1>1. NoUpdate \in Requests BY DEF NoUpdate, Set, Requests, Texts
<1>2. Forbidden \in Directives BY <1>1 DEF Forbidden, Directive, Directives, Texts
<1> QED BY <1>2, FilesHere DEF Idle, Records

\* The next directive of a render, and what is left of its document.
LEMMA NextDirective ==
  ASSUME TypeOK, NEW r \in Renders, todo[r] # <<>>
  PROVE  Next1(r) \in Directives /\ Tail(todo[r]) \in Seq(Directives)
<1>1. todo[r] \in Seq(Directives) BY DEF TypeOK
<1> QED BY <1>1, HeadTailProperties DEF Next1

LEMMA ReturnTyped ==
  ASSUME TypeOK, NEW r \in Renders, NEW do, Starts(r, do), Return(r)
  PROVE  todo' \in [Renders -> Seq(Directives)] /\ calls' = calls
<1>1. Tail(todo[r]) \in Seq(Directives) BY NextDirective DEF Starts
<1> QED BY <1>1 DEF Return, TypeOK

LEMMA GoOnTyped ==
  ASSUME TypeOK, NEW r \in Renders, NEW do, Starts(r, do),
         NEW at \in {"create", "open", "append"}, NEW new \in Files, GoOn(r, at, new)
  PROVE  /\ todo' \in [Renders -> Seq(Directives)]
         /\ calls' \in [Renders -> Records]
         /\ calls'[r].at = at /\ calls'[r].new = new
         /\ \A q \in Renders \ {r} : calls'[q] = calls[q]
<1>1. Next1(r) \in Directives /\ Tail(todo[r]) \in Seq(Directives) BY NextDirective DEF Starts
<1>2. calls \in [Renders -> Records] /\ file \in Files BY DEF TypeOK, Records
<1> DEFINE c == Call(at, Next1(r), new)
<1>3. c \in Records /\ c.at = at /\ c.new = new BY <1>1, <1>2 DEF Call, Records
<1>4. calls' = [calls EXCEPT ![r] = c] BY DEF GoOn
<1>5. todo' \in [Renders -> Seq(Directives)] BY <1>1 DEF GoOn, TypeOK
<1> HIDE DEF c
<1> QED BY <1>2, <1>3, <1>4, <1>5

LEMMA FinishTyped ==
  ASSUME TypeOK, NEW r \in Renders, Finish(r)
  PROVE  /\ todo' \in [Renders -> Seq(Directives)]
         /\ calls' \in [Renders -> Records]
         /\ calls'[r].at = "idle"
         /\ \A q \in Renders \ {r} : calls'[q] = calls[q]
<1>1. calls \in [Renders -> Records] BY DEF TypeOK, Records
<1>2. calls' = [calls EXCEPT ![r] = Idle] BY DEF Finish
<1> QED BY <1>1, <1>2, IdleIsARecord DEF Finish, TypeOK

\* TypeOK by its parts, to be shown of a next state.
LEMMA TypeParts ==
  ASSUME TypeOK, given' = given, killed' \subseteq Renders,
         file' \in Files, todo' \in [Renders -> Seq(Directives)],
         calls' \in [Renders -> Records],
         \A q \in Renders : calls'[q].at = "append" => file'.is = "file",
         \A q \in Renders : calls'[q].at \in {"open", "write"} => calls'[q].new.is = "file"
  PROVE  TypeOK'
<1>1. \A q \in Renders : In(q, "append")' => file'.is = "file" BY DEF In
<1>2. \A q \in Renders : In(q, "open")' \/ In(q, "write")' => calls'[q].new.is = "file" BY DEF In
<1> QED BY <1>1, <1>2 DEF TypeOK, Records

LEMMA InitTyped == Init => TypeOK
<1>1. SUFFICES ASSUME Init PROVE TypeOK OBVIOUS
<1>2. PICK s \in Scenarios : given = s.file /\ todo = s.todo BY <1>1 DEF Init
<1>3. given \in Files /\ todo \in [Renders -> Seq(Directives)] BY <1>2, ScenariosAreWork
<1>4. calls \in [Renders -> Records] /\ \A r \in Renders : calls[r].at = "idle"
  BY <1>1, IdleIsARecord DEF Init
<1> QED BY <1>1, <1>3, <1>4 DEF Init, TypeOK, In, Records

\* A file that an update makes of a typed one.
LEMMA UpdatedFile ==
  ASSUME NEW f \in Files, f.body # <<>>, NEW u \in Requests
  PROVE  /\ [f EXCEPT !.body = Updated(@, u)] \in Files
         /\ [f EXCEPT !.body = Updated(@, u)].is = "file"
         /\ Names(f.body) \subseteq Names([f EXCEPT !.body = Updated(@, u)].body)
<1>1. f \in [is : {"file"}, body : Seq(Lines), text : Seq(Texts \cup {Remains})]
  BY DEF Files, Absent, Directory
<1>2. Updated(f.body, u) \in Seq(Lines) /\ Names(f.body) \subseteq Names(Updated(f.body, u))
  BY <1>1, UpdateKeepsFields
<1>3. [f EXCEPT !.body = Updated(@, u)] = [f EXCEPT !.body = Updated(f.body, u)] OBVIOUS
<1> DEFINE n == Updated(f.body, u)
<1> HIDE DEF n
<1>4. [f EXCEPT !.body = n].body = n /\ [f EXCEPT !.body = n].is = "file" BY <1>1
<1>5. n \in Seq(Lines) BY <1>2 DEF n
<1>6. [f EXCEPT !.body = n] \in Files BY <1>1, <1>5 DEF Files
<1> QED BY <1>2, <1>3, <1>4, <1>6 DEF n

\* A file with a text more.
LEMMA LongerFile ==
  ASSUME NEW f \in Files, f.is = "file", NEW t \in Texts \cup {Remains}
  PROVE  /\ [f EXCEPT !.text = Append(@, t)] \in Files
         /\ [f EXCEPT !.text = Append(@, t)].is = "file"
         /\ [f EXCEPT !.text = Append(@, t)].body = f.body
<1>1. f \in [is : {"file"}, body : Seq(Lines), text : Seq(Texts \cup {Remains})]
  BY DEF Files, Absent, Directory
<1>2. Append(f.text, t) \in Seq(Texts \cup {Remains}) BY <1>1
<1> QED BY <1>1, <1>2 DEF Files

LEMMA StepTyped ==
  ASSUME TypeOK, NEW r \in Renders, 
         \/ ResolveWritePath(r) \/ ExecuteMkdir(r) \/ ExecuteTouch(r) \/ Create(r)
         \/ ExecuteCopy(r) \/ ExecuteAppendIfMissing(r) \/ AppendText(r)
         \/ ExecuteUpdateFrontmatter(r) \/ OpenForWriting(r) \/ WriteContent(r)
         \/ Kill(r)
  PROVE  TypeOK'
<1>0. /\ given \in Files /\ file \in Files /\ killed \subseteq Renders
      /\ todo \in [Renders -> Seq(Directives)] /\ calls \in [Renders -> Records]
      /\ \A q \in Renders : calls[q].at = "append" => file.is = "file"
      /\ \A q \in Renders : calls[q].at \in {"open", "write"} => calls[q].new.is = "file"
  BY DEF TypeOK, Records, In
<1>1. CASE ResolveWritePath(r)
  <2>1. todo' \in [Renders -> Seq(Directives)] /\ calls' = calls
    BY <1>1, ReturnTyped DEF ResolveWritePath
  <2> QED BY <1>0, <1>1, <2>1, TypeParts DEF ResolveWritePath
<1>2. CASE ExecuteMkdir(r)
  <2>1. todo' \in [Renders -> Seq(Directives)] /\ calls' = calls
    BY <1>2, ReturnTyped DEF ExecuteMkdir
  <2>2. file' \in Files /\ (file.is = "file" => file' = file)
    BY <1>0, <1>2, FilesHere DEF ExecuteMkdir
  <2> QED BY <1>0, <1>2, <2>1, <2>2, TypeParts DEF ExecuteMkdir
<1>3. CASE ExecuteTouch(r)
  <2>1. CASE file.is = "absent"
    <3>1. /\ todo' \in [Renders -> Seq(Directives)] /\ calls' \in [Renders -> Records]
          /\ calls'[r].at = "create" /\ \A q \in Renders \ {r} : calls'[q] = calls[q]
      BY <1>3, <2>1, GoOnTyped, FilesHere DEF ExecuteTouch
    <3> QED BY <1>0, <1>3, <3>1, TypeParts DEF ExecuteTouch
  <2>2. CASE file.is # "absent"
    <3>1. todo' \in [Renders -> Seq(Directives)] /\ calls' = calls
      BY <1>3, <2>2, ReturnTyped DEF ExecuteTouch
    <3> QED BY <1>0, <1>3, <3>1, TypeParts DEF ExecuteTouch
  <2> QED BY <2>1, <2>2
<1>4. CASE Create(r)
  <2>1. /\ todo' \in [Renders -> Seq(Directives)] /\ calls' \in [Renders -> Records]
        /\ calls'[r].at = "idle" /\ \A q \in Renders \ {r} : calls'[q] = calls[q]
    BY <1>4, FinishTyped DEF Create
  <2>2. file' \in Files /\ (file.is = "file" => file'.is = "file")
    BY <1>0, <1>4, FilesHere DEF Create
  <2> QED BY <1>0, <1>4, <2>1, <2>2, TypeParts DEF Create
<1>5. CASE ExecuteCopy(r)
  <2>1. CASE /\ Starts(r, "copy") \/ Starts(r, "copy if-missing")
             /\ GoOn(r, "open", Template)
    <3>1. /\ todo' \in [Renders -> Seq(Directives)] /\ calls' \in [Renders -> Records]
          /\ calls'[r].at = "open" /\ calls'[r].new = Template
          /\ \A q \in Renders \ {r} : calls'[q] = calls[q]
      BY <2>1, GoOnTyped, ScenariosAreWork
    <3> QED BY <1>0, <1>5, <3>1, TypeParts, ScenariosAreWork DEF ExecuteCopy
  <2>2. CASE Starts(r, "copy if-missing") /\ Return(r)
    <3>1. todo' \in [Renders -> Seq(Directives)] /\ calls' = calls BY <2>2, ReturnTyped
    <3> QED BY <1>0, <1>5, <3>1, TypeParts DEF ExecuteCopy
  <2> QED BY <1>5, <2>1, <2>2 DEF ExecuteCopy
<1>6. CASE ExecuteAppendIfMissing(r)
  <2>1. CASE file.is = "file" /\ ~Includes(file, Next1(r).text)
    <3>1. /\ todo' \in [Renders -> Seq(Directives)] /\ calls' \in [Renders -> Records]
          /\ calls'[r].at = "append" /\ \A q \in Renders \ {r} : calls'[q] = calls[q]
      BY <1>0, <1>6, <2>1, GoOnTyped DEF ExecuteAppendIfMissing
    <3> QED BY <1>0, <1>6, <2>1, <3>1, TypeParts DEF ExecuteAppendIfMissing
  <2>2. CASE ~(file.is = "file" /\ ~Includes(file, Next1(r).text))
    <3>1. todo' \in [Renders -> Seq(Directives)] /\ calls' = calls
      BY <1>6, <2>2, ReturnTyped DEF ExecuteAppendIfMissing
    <3> QED BY <1>0, <1>6, <3>1, TypeParts DEF ExecuteAppendIfMissing
  <2> QED BY <2>1, <2>2
<1>7. CASE AppendText(r)
  <2>1. /\ todo' \in [Renders -> Seq(Directives)] /\ calls' \in [Renders -> Records]
        /\ calls'[r].at = "idle" /\ \A q \in Renders \ {r} : calls'[q] = calls[q]
    BY <1>7, FinishTyped DEF AppendText
  <2>2. calls[r].what.text \in Texts BY <1>0 DEF Records, Directives
  <2>3. file.is = "file" BY <1>0, <1>7 DEF AppendText, In
  <2>4. file' \in Files /\ file'.is = "file"
    BY <1>0, <1>7, <2>2, <2>3, LongerFile DEF AppendText
  <2> QED BY <1>0, <1>7, <2>1, <2>4, TypeParts DEF AppendText
<1>8. CASE ExecuteUpdateFrontmatter(r)
  <2> DEFINE new == [file EXCEPT !.body = Updated(@, Next1(r).u)]
  <2>1. CASE file.body # <<>> /\ new # file
    <3>1. Next1(r) \in Directives BY <1>8, NextDirective DEF ExecuteUpdateFrontmatter, Starts
    <3>2. Next1(r).u \in Requests BY <3>1 DEF Directives
    <3>3. new \in Files /\ new.is = "file" BY <1>0, <2>1, <3>2, UpdatedFile
    <3>4. Starts(r, "update") /\ GoOn(r, "open", new)
      BY <1>8, <2>1 DEF ExecuteUpdateFrontmatter
    <3> HIDE DEF new
    <3>5. /\ todo' \in [Renders -> Seq(Directives)] /\ calls' \in [Renders -> Records]
          /\ calls'[r].at = "open" /\ calls'[r].new = new
          /\ \A q \in Renders \ {r} : calls'[q] = calls[q]
      BY <3>3, <3>4, GoOnTyped
    <3> QED BY <1>0, <1>8, <3>3, <3>5, TypeParts DEF ExecuteUpdateFrontmatter
  <2>2. CASE ~(file.body # <<>> /\ new # file)
    <3>1. todo' \in [Renders -> Seq(Directives)] /\ calls' = calls
      BY <1>8, <2>2, ReturnTyped DEF ExecuteUpdateFrontmatter
    <3> QED BY <1>0, <1>8, <3>1, TypeParts DEF ExecuteUpdateFrontmatter
  <2> QED BY <2>1, <2>2
<1>9. CASE OpenForWriting(r)
  <2>1. CASE file.is = "directory"
    <3>1. /\ todo' \in [Renders -> Seq(Directives)] /\ calls' \in [Renders -> Records]
          /\ calls'[r].at = "idle" /\ \A q \in Renders \ {r} : calls'[q] = calls[q]
      BY <1>9, <2>1, FinishTyped DEF OpenForWriting
    <3> QED BY <1>0, <1>9, <2>1, <3>1, TypeParts DEF OpenForWriting
  <2>2. CASE file.is # "directory"
    <3>1. calls' = [calls EXCEPT ![r] = [calls[r] EXCEPT !.at = "write"]]
      BY <1>9, <2>2 DEF OpenForWriting
    <3>2. [calls[r] EXCEPT !.at = "write"] \in Records
          /\ [calls[r] EXCEPT !.at = "write"].new = calls[r].new
          /\ [calls[r] EXCEPT !.at = "write"].at = "write"
      BY <1>0 DEF Records
    <3>3. calls' \in [Renders -> Records] /\ calls'[r].at = "write"
          /\ calls'[r].new = calls[r].new /\ \A q \in Renders \ {r} : calls'[q] = calls[q]
      BY <1>0, <3>1, <3>2
    <3>4. calls[r].new.is = "file" BY <1>0, <1>9 DEF OpenForWriting, In
    <3>5. file' = Empty /\ todo' = todo /\ given' = given /\ killed' = killed
      BY <1>9, <2>2 DEF OpenForWriting
    <3> QED BY <1>0, <3>3, <3>4, <3>5, FilesHere, TypeParts
  <2> QED BY <2>1, <2>2
<1>10. CASE WriteContent(r)
  <2>1. /\ todo' \in [Renders -> Seq(Directives)] /\ calls' \in [Renders -> Records]
        /\ calls'[r].at = "idle" /\ \A q \in Renders \ {r} : calls'[q] = calls[q]
    BY <1>10, FinishTyped DEF WriteContent
  <2>2. calls[r].new \in Files /\ calls[r].new.is = "file"
    BY <1>0, <1>10 DEF WriteContent, In, Records
  <2>3. file' \in Files /\ file'.is = "file"
    BY <1>10, <2>2, LongerFile, ZenonT(30) DEF WriteContent
  <2> QED BY <1>0, <1>10, <2>1, <2>3, TypeParts DEF WriteContent
<1>11. CASE Kill(r)
  <2>1. calls' \in [Renders -> Records] /\ calls'[r].at = "idle"
        /\ \A q \in Renders \ {r} : calls'[q] = calls[q]
    BY <1>0, <1>11, IdleIsARecord DEF Kill
  <2>2. todo' \in [Renders -> Seq(Directives)] BY <1>0, <1>11 DEF Kill
  <2> QED BY <1>0, <1>11, <2>1, <2>2, TypeParts DEF Kill
<1> QED BY <1>1, <1>2, <1>3, <1>4, <1>5, <1>6, <1>7, <1>8, <1>9, <1>10, <1>11

\* The file, the directives and the calls keep their types, for all scenarios.
THEOREM WritesTypeCorrect == Spec => []TypeOK
<1>1. TypeOK /\ [Next]_vars => TypeOK'
  <2>1. ASSUME TypeOK, Next PROVE TypeOK' BY <2>1, StepTyped DEF Next
  <2>2. ASSUME TypeOK, UNCHANGED vars PROVE TypeOK' BY <2>2 DEF TypeOK, vars, In
  <2> QED BY <2>1, <2>2
<1> QED BY <1>1, InitTyped, PTL DEF Spec

-----------------------------------------------------------------------------
(* A document keeps its fields                                             *)

Wants == Names(given.body) \cap Names(Template.body)

\* What holds while nobody has died at it, of a document that was there: it
\* has its fields, or some render has emptied it and is about to write; and
\* whoever is about to write it will write them.
Guarded ==
  /\ file.is = "file"
  /\ \/ Wants \subseteq Names(file.body)
     \/ file.body = <<>> /\ \E r \in Renders : calls[r].at = "write"
  /\ \A r \in Renders : calls[r].at # "create"
  /\ \A r \in Renders : calls[r].at \in {"open", "write"} => Wants \subseteq Names(calls[r].new.body)

IInv == TypeOK /\ (given.is = "file" /\ killed = {} => Guarded)

\* A step of a render that opens nothing, writes nothing and forgets nothing.
LEMMA OthersGuarded ==
  ASSUME Guarded, given' = given, file' = file, NEW r \in Renders,
         calls[r].at # "write",
         \A q \in Renders \ {r} : calls'[q] = calls[q],
         calls'[r].at \in {"idle", "append", "open"},
         calls'[r].at = "open" => Wants \subseteq Names(calls'[r].new.body)
  PROVE  Guarded'
<1>1. Wants' = Wants BY DEF Wants, Names
<1>2. ASSUME NEW q \in Renders, calls[q].at = "write"
      PROVE  calls'[q].at = "write"
  BY <1>2
<1>3. Names(file.body)' = Names(file.body) BY DEF Names
<1>4. \A q \in Renders : calls'[q].at # "create" BY DEF Guarded
<1>5. ASSUME NEW q \in Renders, calls'[q].at \in {"open", "write"}
      PROVE  Wants \subseteq Names(calls'[q].new.body)
  <2>1. CASE q = r BY <1>5, <2>1
  <2>2. CASE q # r BY <1>5, <2>2 DEF Guarded
  <2> QED BY <2>1, <2>2
<1>6. \/ Wants \subseteq Names(file.body)
      \/ file.body = <<>> /\ \E q \in Renders : calls'[q].at = "write"
  BY <1>2 DEF Guarded
<1>7. \A q \in Renders : (calls[q].at)' = calls'[q].at /\ Names(calls[q].new.body)' = Names(calls'[q].new.body)
  BY DEF Names
<1> QED BY <1>1, <1>3, <1>4, <1>5, <1>6, <1>7 DEF Guarded

\* A step of a render that ends with a file in place, or emptied by it.
LEMMA WriterGuarded ==
  ASSUME Guarded, given' = given, file'.is = "file", NEW r \in Renders,
         \A q \in Renders \ {r} : calls'[q] = calls[q],
         \/ calls'[r].at = "idle" /\ Wants \subseteq Names(file'.body)
         \/ calls'[r].at = "write" /\ file'.body = <<>>
            /\ Wants \subseteq Names(calls'[r].new.body)
  PROVE  Guarded'
<1>1. Wants' = Wants BY DEF Wants, Names
<1>2. Names(file.body)' = Names(file'.body) BY DEF Names
<1>3. \A q \in Renders : calls'[q].at # "create" BY DEF Guarded
<1>4. ASSUME NEW q \in Renders, calls'[q].at \in {"open", "write"}
      PROVE  Wants \subseteq Names(calls'[q].new.body)
  <2>1. CASE q = r BY <1>4, <2>1
  <2>2. CASE q # r BY <1>4, <2>2 DEF Guarded
  <2> QED BY <2>1, <2>2
<1>5. \/ Wants \subseteq Names(file'.body)
      \/ file'.body = <<>> /\ \E q \in Renders : calls'[q].at = "write"
  OBVIOUS
<1>6. \A q \in Renders : (calls[q].at)' = calls'[q].at
                         /\ Names(calls[q].new.body)' = Names(calls'[q].new.body)
  BY DEF Names
<1> QED BY <1>1, <1>2, <1>3, <1>4, <1>5, <1>6 DEF Guarded

LEMMA StepGuarded ==
  ASSUME TypeOK, given.is = "file", killed' = {}, Guarded, NEW r \in Renders,
         \/ ResolveWritePath(r) \/ ExecuteMkdir(r) \/ ExecuteTouch(r) \/ Create(r)
         \/ ExecuteCopy(r) \/ ExecuteAppendIfMissing(r) \/ AppendText(r)
         \/ ExecuteUpdateFrontmatter(r) \/ OpenForWriting(r) \/ WriteContent(r)
         \/ Kill(r)
  PROVE  Guarded'
<1>0. /\ file.is = "file" /\ calls[r].at # "create" /\ file \in Files
      /\ calls \in [Renders -> Records]
  BY DEF Guarded, TypeOK, Records
<1>1. CASE ResolveWritePath(r)
  <2>1. calls' = calls BY <1>1 DEF ResolveWritePath, Return
  <2> QED BY <1>0, <1>1, <2>1, OthersGuarded DEF ResolveWritePath, Starts
<1>2. CASE ExecuteMkdir(r)
  <2>1. calls' = calls /\ file' = file BY <1>0, <1>2 DEF ExecuteMkdir, Return
  <2> QED BY <1>0, <1>2, <2>1, OthersGuarded DEF ExecuteMkdir, Starts
<1>3. CASE ExecuteTouch(r)
  <2>1. calls' = calls BY <1>0, <1>3 DEF ExecuteTouch, Return
  <2> QED BY <1>0, <1>3, <2>1, OthersGuarded DEF ExecuteTouch, Starts
<1>4. CASE Create(r)
  BY <1>0, <1>4 DEF Create, In
<1>5. CASE ExecuteCopy(r)
  <2>1. CASE /\ Starts(r, "copy") \/ Starts(r, "copy if-missing")
             /\ GoOn(r, "open", Template)
    <3>1. /\ calls'[r].at = "open" /\ calls'[r].new = Template
          /\ \A q \in Renders \ {r} : calls'[q] = calls[q]
      BY <2>1, GoOnTyped, ScenariosAreWork
    <3>2. Wants \subseteq Names(calls'[r].new.body) BY <3>1 DEF Wants
    <3> QED BY <1>0, <1>5, <2>1, <3>1, <3>2, OthersGuarded DEF ExecuteCopy, Starts
  <2>2. CASE Starts(r, "copy if-missing") /\ Return(r)
    <3>1. calls' = calls BY <2>2 DEF Return
    <3> QED BY <1>0, <1>5, <2>2, <3>1, OthersGuarded DEF ExecuteCopy, Starts
  <2> QED BY <1>5, <2>1, <2>2 DEF ExecuteCopy
<1>6. CASE ExecuteAppendIfMissing(r)
  <2>1. CASE GoOn(r, "append", file)
    <3>1. calls'[r].at = "append" /\ \A q \in Renders \ {r} : calls'[q] = calls[q]
      BY <1>0, <1>6, <2>1, GoOnTyped DEF ExecuteAppendIfMissing
    <3> QED BY <1>0, <1>6, <3>1, OthersGuarded DEF ExecuteAppendIfMissing, Starts
  <2>2. CASE Return(r)
    <3>1. calls' = calls BY <2>2 DEF Return
    <3> QED BY <1>0, <1>6, <3>1, OthersGuarded DEF ExecuteAppendIfMissing, Starts
  <2> QED BY <1>6, <2>1, <2>2 DEF ExecuteAppendIfMissing
<1>7. CASE AppendText(r)
  <2>1. calls'[r].at = "idle" /\ \A q \in Renders \ {r} : calls'[q] = calls[q]
    BY <1>7, FinishTyped DEF AppendText
  <2>2. calls[r].what.text \in Texts BY <1>0 DEF Records, Directives
  <2>3. file'.is = "file" /\ file'.body = file.body
    BY <1>0, <1>7, <2>2, LongerFile DEF AppendText
  <2>4. CASE Wants \subseteq Names(file.body)
    BY <1>7, <2>1, <2>3, <2>4, WriterGuarded DEF AppendText
  <2>5. CASE file.body = <<>> /\ \E q \in Renders : calls[q].at = "write"
    <3>1. PICK q \in Renders : calls[q].at = "write" BY <2>5
    <3>2. q # r BY <1>7, <3>1 DEF AppendText, In
    <3>3. calls'[q].at = "write" /\ calls'[q].new = calls[q].new BY <2>1, <3>1, <3>2
    <3>4. Wants \subseteq Names(calls'[q].new.body) BY <3>1, <3>3 DEF Guarded
    <3>5. Wants' = Wants BY <1>7 DEF Wants, Names, AppendText
    <3>6. \A p \in Renders : (calls[p].at)' = calls'[p].at
                             /\ Names(calls[p].new.body)' = Names(calls'[p].new.body)
      BY DEF Names
    <3>7. \A p \in Renders : calls'[p].at # "create" BY <2>1 DEF Guarded
    <3>8. \A p \in Renders : calls'[p].at \in {"open", "write"} =>
                               Wants \subseteq Names(calls'[p].new.body)
      BY <2>1 DEF Guarded
    <3> QED BY <2>3, <2>5, <3>3, <3>5, <3>6, <3>7, <3>8 DEF Guarded
  <2> QED BY <2>4, <2>5 DEF Guarded
<1>8. CASE ExecuteUpdateFrontmatter(r)
  <2> DEFINE new == [file EXCEPT !.body = Updated(@, Next1(r).u)]
  <2>1. CASE file.body # <<>> /\ new # file
    <3>1. Next1(r) \in Directives BY <1>8, NextDirective DEF ExecuteUpdateFrontmatter, Starts
    <3>2. Next1(r).u \in Requests BY <3>1 DEF Directives
    <3>3. new \in Files /\ Names(file.body) \subseteq Names(new.body)
      BY <1>0, <2>1, <3>2, UpdatedFile
    <3>4. Starts(r, "update") /\ GoOn(r, "open", new)
      BY <1>8, <2>1 DEF ExecuteUpdateFrontmatter
    <3>5. Wants \subseteq Names(file.body) BY <2>1 DEF Guarded
    <3> HIDE DEF new
    <3>6. /\ calls'[r].at = "open" /\ calls'[r].new = new
          /\ \A q \in Renders \ {r} : calls'[q] = calls[q]
      BY <3>3, <3>4, GoOnTyped
    <3>7. Wants \subseteq Names(calls'[r].new.body) BY <3>3, <3>5, <3>6
    <3> QED BY <1>0, <1>8, <3>6, <3>7, OthersGuarded DEF ExecuteUpdateFrontmatter, Starts
  <2>2. CASE ~(file.body # <<>> /\ new # file)
    <3>1. calls' = calls BY <1>8, <2>2 DEF ExecuteUpdateFrontmatter, Return
    <3> QED BY <1>0, <1>8, <3>1, OthersGuarded DEF ExecuteUpdateFrontmatter, Starts
  <2> QED BY <2>1, <2>2
<1>9. CASE OpenForWriting(r)
  <2>1. calls' = [calls EXCEPT ![r] = [calls[r] EXCEPT !.at = "write"]] /\ file' = Empty
    BY <1>0, <1>9 DEF OpenForWriting
  <2>2. [calls[r] EXCEPT !.at = "write"].new = calls[r].new
        /\ [calls[r] EXCEPT !.at = "write"].at = "write"
    BY <1>0 DEF Records
  <2>3. /\ calls'[r].at = "write" /\ calls'[r].new = calls[r].new
        /\ \A q \in Renders \ {r} : calls'[q] = calls[q]
    BY <1>0, <2>1, <2>2
  <2>4. Wants \subseteq Names(calls'[r].new.body)
    BY <1>9, <2>3 DEF Guarded, OpenForWriting, In
  <2> QED BY <1>9, <2>1, <2>3, <2>4, FilesHere, WriterGuarded DEF OpenForWriting
<1>10. CASE WriteContent(r)
  <2>1. calls'[r].at = "idle" /\ \A q \in Renders \ {r} : calls'[q] = calls[q]
    BY <1>10, FinishTyped DEF WriteContent
  <2>2. calls[r].at = "write" BY <1>10 DEF WriteContent, In
  <2>3. calls[r].new \in Files /\ calls[r].new.is = "file" BY <1>0, <2>2 DEF Records, TypeOK, In
  <2>4. file'.is = "file" /\ file'.body = calls[r].new.body
    BY <1>10, <2>3, LongerFile, ZenonT(30) DEF WriteContent
  <2>5. Wants \subseteq Names(file'.body) BY <2>2, <2>4 DEF Guarded
  <2> QED BY <1>10, <2>1, <2>4, <2>5, WriterGuarded DEF WriteContent
<1>11. CASE Kill(r)
  <2>1. calls[r].at # "write" BY <1>11 DEF Kill, In
  <2>2. calls'[r].at = "idle" /\ \A q \in Renders \ {r} : calls'[q] = calls[q]
    BY <1>0, <1>11, IdleIsARecord DEF Kill
  <2> QED BY <1>11, <2>1, <2>2, OthersGuarded DEF Kill
<1> QED BY <1>1, <1>2, <1>3, <1>4, <1>5, <1>6, <1>7, <1>8, <1>9, <1>10, <1>11

\* A document never loses a field it had and that the copied file has too,
\* unless a render died with the file open (write-ops.ts:180-240): for all
\* scenarios and any number of renders.
THEOREM DocumentsKeepTheirFields == Spec => []FieldsSurvive
<1>1. Init => IInv
  <2>1. SUFFICES ASSUME Init, given.is = "file" PROVE Guarded BY InitTyped DEF IInv
  <2>2. file = given /\ \A r \in Renders : calls[r].at = "idle"
    BY <2>1, IdleIsARecord DEF Init
  <2> QED BY <2>1, <2>2 DEF Guarded, Wants
<1>2. IInv /\ [Next]_vars => IInv'
  <2>1. ASSUME IInv, Next PROVE IInv'
    <3>1. PICK r \in Renders :
            \/ ResolveWritePath(r) \/ ExecuteMkdir(r) \/ ExecuteTouch(r) \/ Create(r)
            \/ ExecuteCopy(r) \/ ExecuteAppendIfMissing(r) \/ AppendText(r)
            \/ ExecuteUpdateFrontmatter(r) \/ OpenForWriting(r) \/ WriteContent(r)
            \/ Kill(r)
      BY <2>1 DEF Next
    <3>2. TypeOK' BY <2>1, <3>1, StepTyped DEF IInv
    <3>3. given' = given /\ (killed' = {} => killed = {})
      BY <3>1 DEF ResolveWritePath, ExecuteMkdir, ExecuteTouch, Create, ExecuteCopy,
                  ExecuteAppendIfMissing, AppendText, ExecuteUpdateFrontmatter,
                  OpenForWriting, WriteContent, Kill
    <3>4. ASSUME given'.is = "file", killed' = {} PROVE Guarded'
      BY <2>1, <3>1, <3>3, <3>4, StepGuarded DEF IInv
    <3> QED BY <3>2, <3>4 DEF IInv
  <2>2. ASSUME IInv, UNCHANGED vars PROVE IInv'
    <3>1. TypeOK' BY <2>2 DEF IInv, TypeOK, vars, In
    <3>2. Guarded => Guarded'
      <4>1. file' = file /\ calls' = calls /\ given' = given BY <2>2 DEF vars
      <4>2. Wants' = Wants /\ Names(file.body)' = Names(file.body) BY <4>1 DEF Wants, Names
      <4>3. \A r \in Renders : (calls[r].at)' = calls[r].at
                               /\ Names(calls[r].new.body)' = Names(calls[r].new.body)
        BY <4>1 DEF Names
      <4> QED BY <4>1, <4>2, <4>3 DEF Guarded
    <3>3. given' = given /\ killed' = killed BY <2>2 DEF vars
    <3> QED BY <2>2, <3>1, <3>2, <3>3 DEF IInv
  <2> QED BY <2>1, <2>2
<1>3. IInv => FieldsSurvive
  BY DEF IInv, Guarded, Wants, FieldsSurvive, In
<1> QED BY <1>1, <1>2, <1>3, PTL DEF Spec

-----------------------------------------------------------------------------
(* What a render that updates is about to write                            *)

\* A call of @update-frontmatter with the file open writes what its update
\* makes of the file it has seen.
Planned(c) ==
  /\ c.seen.body # <<>>
  /\ c.new = [c.seen EXCEPT !.body = Updated(@, c.what.u)]
  /\ c.new # c.seen

Plans(c) == c.at = "open" /\ c.what.do = "update" => Planned(c)

AsPlanned == \A r \in Renders : Plans(calls[r])

\* What UpdatesAreExact says of one call.
Exact(c) ==
  LET u == c.what.u
      b == c.seen.body
      n == c.new.body
  IN /\ c.new.text = c.seen.text
     /\ Names(n) = Names(b) \cup {u.name}
     /\ \A name \in Names(b) \ {u.name} : Reading(n, name) = Reading(b, name)
     /\ u.op = "set" => Reading(n, u.name).text = u.text
     /\ u.op # "set" /\ u.sub = None /\ ~WroteBracket(b, u) =>
          Reading(n, u.name) = [text |-> None, items |-> Wanted(Reading(b, u.name).items, u)]
     /\ u.op # "append" => Updated(n, u) = n

LEMMA PlannedIsExact ==
  ASSUME NEW c \in Records, Planned(c)
  PROVE  Exact(c)
<1> DEFINE f == c.seen
           u == c.what.u
           b == f.body
           n == Updated(b, u)
<1>1. f \in Files /\ u \in Requests BY DEF Records, Directives
<1>2. f \in [is : {"file"}, body : Seq(Lines), text : Seq(Texts \cup {Remains})]
  BY <1>1 DEF Files, Absent, Directory, Planned
<1>3. c.new = [f EXCEPT !.body = n] /\ c.new # f BY DEF Planned
<1>4. Refused(b, u) => n = b BY DEF Updated, Refused
<1>5. b \in Seq(Lines) BY <1>2
<1>6. ~Refused(b, u) /\ c.new.body = n /\ c.new.text = f.text
  <2> HIDE DEF n, f
  <2>1. c.new.body = n /\ c.new.text = f.text BY <1>2, <1>3
  <2>2. [f EXCEPT !.body = f.body] = f BY <1>2
  <2> QED BY <1>3, <1>4, <2>1, <2>2
<1> HIDE DEF f, u, b
<1>7. /\ Names(n) = Names(b) \cup {u.name}
      /\ \A name \in Names(b) \ {u.name} : Reading(n, name) = Reading(b, name)
  BY <1>1, <1>5, <1>6, UpdateKeepsOthers
<1>8. /\ u.op = "set" => Reading(n, u.name).text = u.text
      /\ u.op # "set" /\ u.sub = None /\ ~WroteBracket(b, u) =>
           Reading(n, u.name) = [text |-> None, items |-> Wanted(Reading(b, u.name).items, u)]
  BY <1>1, <1>5, <1>6, UpdateReadsBack
<1>9. u.op # "append" => Updated(n, u) = n BY <1>1, <1>5, <1>6, UpdateTwice
<1> HIDE DEF n
<1> QED BY <1>6, <1>7, <1>8, <1>9 DEF Exact, f, u, b

\* A step of one render leaves the calls of the others, and either ends its
\* own, or begins one that is no update, or one that is planned, or opens
\* the file.
LEMMA StepPlanned ==
  ASSUME TypeOK, AsPlanned, NEW r \in Renders,
         \/ ResolveWritePath(r) \/ ExecuteMkdir(r) \/ ExecuteTouch(r) \/ Create(r)
         \/ ExecuteCopy(r) \/ ExecuteAppendIfMissing(r) \/ AppendText(r)
         \/ ExecuteUpdateFrontmatter(r) \/ OpenForWriting(r) \/ WriteContent(r)
         \/ Kill(r)
  PROVE  AsPlanned'
<1>0. calls \in [Renders -> Records] BY DEF TypeOK, Records
<1>1. ASSUME NEW c, calls' = [calls EXCEPT ![r] = c], Plans(c)
      PROVE  AsPlanned'
  <2>1. \A q \in Renders : calls'[q] = IF q = r THEN c ELSE calls[q] BY <1>0, <1>1
  <2> QED BY <1>1, <2>1 DEF AsPlanned, Plans, Planned
<1>2. ASSUME calls' = calls PROVE AsPlanned'
  BY <1>2 DEF AsPlanned, Plans, Planned
<1>3. ASSUME Finish(r) PROVE AsPlanned'
  <2>1. Plans(Idle) BY IdleIsARecord DEF Plans
  <2> QED BY <1>1, <1>3, <2>1 DEF Finish
<1>4. ASSUME NEW at, NEW new, GoOn(r, at, new),
             at = "open" /\ Next1(r).do = "update" =>
               /\ file.body # <<>>
               /\ new = [file EXCEPT !.body = Updated(@, Next1(r).u)] /\ new # file
      PROVE  AsPlanned'
  <2> DEFINE c == Call(at, Next1(r), new)
  <2>1. c.at = at /\ c.what = Next1(r) /\ c.seen = file /\ c.new = new BY DEF Call
  <2>2. calls' = [calls EXCEPT ![r] = c] BY <1>4 DEF GoOn
  <2> HIDE DEF c
  <2>3. Plans(c) BY <1>4, <2>1 DEF Plans, Planned
  <2> QED BY <1>1, <2>2, <2>3
<1>5. ASSUME Return(r) PROVE AsPlanned' BY <1>2, <1>5 DEF Return
<1>6. CASE ResolveWritePath(r) BY <1>5, <1>6 DEF ResolveWritePath
<1>7. CASE ExecuteMkdir(r) BY <1>5, <1>7 DEF ExecuteMkdir
<1>8. CASE ExecuteTouch(r)
  <2>1. GoOn(r, "create", Empty) \/ Return(r) BY <1>8 DEF ExecuteTouch
  <2> QED BY <1>4, <1>5, <2>1
<1>9. CASE Create(r) BY <1>3, <1>9 DEF Create
<1>10. CASE ExecuteCopy(r)
  <2>1. Next1(r).do # "update" /\ (GoOn(r, "open", Template) \/ Return(r))
    BY <1>10 DEF ExecuteCopy, Starts
  <2> QED BY <1>4, <1>5, <2>1
<1>11. CASE ExecuteAppendIfMissing(r)
  <2>1. GoOn(r, "append", file) \/ Return(r) BY <1>11 DEF ExecuteAppendIfMissing
  <2> QED BY <1>4, <1>5, <2>1
<1>12. CASE AppendText(r) BY <1>3, <1>12 DEF AppendText
<1>13. CASE ExecuteUpdateFrontmatter(r)
  <2> DEFINE new == [file EXCEPT !.body = Updated(@, Next1(r).u)]
  <2>1. (file.body # <<>> /\ new # file /\ GoOn(r, "open", new)) \/ Return(r)
    BY <1>13 DEF ExecuteUpdateFrontmatter
  <2> QED BY <1>4, <1>5, <2>1
<1>14. CASE OpenForWriting(r)
  <2>1. CASE Finish(r) BY <1>3, <2>1
  <2>2. CASE calls' = [calls EXCEPT ![r].at = "write"]
    <3>1. calls' = [calls EXCEPT ![r] = [calls[r] EXCEPT !.at = "write"]] BY <2>2
    <3>2. [calls[r] EXCEPT !.at = "write"].at = "write" BY <1>0 DEF Records
    <3>3. Plans([calls[r] EXCEPT !.at = "write"]) BY <3>2 DEF Plans
    <3> QED BY <1>1, <3>1, <3>3
  <2> QED BY <1>14, <2>1, <2>2 DEF OpenForWriting
<1>15. CASE WriteContent(r) BY <1>3, <1>15 DEF WriteContent
<1>16. CASE Kill(r)
  <2>1. Plans(Idle) BY IdleIsARecord DEF Plans
  <2> QED BY <1>1, <1>16, <2>1 DEF Kill
<1> QED BY <1>6, <1>7, <1>8, <1>9, <1>10, <1>11, <1>12, <1>13, <1>14, <1>15, <1>16

\* Whatever @update-frontmatter is asked for, of whatever document: no other
\* field comes, goes or reads otherwise, what it writes is what
\* @read-frontmatter reads, and doing it twice is doing it once
\* (write-ops.ts:180-330). For all scenarios and any number of renders.
THEOREM UpdatesDoWhatTheySay == Spec => []UpdatesAreExact
<1> DEFINE J == TypeOK /\ AsPlanned
<1>1. Init => J
  <2>1. SUFFICES ASSUME Init PROVE AsPlanned BY InitTyped
  <2>2. \A r \in Renders : calls[r] = Idle BY <2>1 DEF Init
  <2> QED BY <2>2, IdleIsARecord DEF AsPlanned, Plans
<1>2. J /\ [Next]_vars => J'
  <2>1. ASSUME J, Next PROVE J' BY <2>1, StepTyped, StepPlanned DEF Next
  <2>2. ASSUME J, UNCHANGED vars PROVE J'
    BY <2>2 DEF TypeOK, AsPlanned, Plans, Planned, vars, In
  <2> QED BY <2>1, <2>2
<1>3. J => UpdatesAreExact
  <2>1. SUFFICES ASSUME J PROVE OthersKept /\ ReadsBack /\ Idempotent BY DEF UpdatesAreExact
  <2>2. ASSUME NEW r \in Renders, Updating(r) PROVE Exact(calls[r])
    <3>1. calls[r] \in Records /\ Planned(calls[r])
      BY <2>1, <2>2 DEF TypeOK, Records, AsPlanned, Plans, Updating, In
    <3> QED BY <3>1, PlannedIsExact
  <2>3. OthersKept BY <2>2 DEF OthersKept, Exact
  <2>4. ReadsBack BY <2>2 DEF ReadsBack, Exact
  <2>5. Idempotent BY <2>2 DEF Idempotent, Exact
  <2> QED BY <2>3, <2>4, <2>5
<1> QED BY <1>1, <1>2, <1>3, PTL DEF Spec
=============================================================================
