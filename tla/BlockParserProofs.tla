------------------------- MODULE BlockParserProofs -------------------------
(***************************************************************************)
(* Proofs about BlockParser, for every document: the frames of the walk    *)
(* stay inside each other, line numbers never run ahead, no line is looked *)
(* at twice, and blocks are where a bracket matcher puts them.             *)
(*                                                                         *)
(* The inductive invariant says where the intervals of the frames lie: a   *)
(* frame's slice ends just before the close tag the frame below has        *)
(* already moved behind.  Without that link a return from a block could    *)
(* move the cursor anywhere.  What else the proofs need is added to it:    *)
(* Ledger, who claims which line; Hanging, that every open block is a node *)
(* and all other blocks lie behind the cursor; AllSearched, what           *)
(* collectBlock counted for each open block; and, for documents whose tags *)
(* match, Matched: each call has whole blocks behind its cursor.           *)
(*                                                                         *)
(* At the end, the migration from the first syntax to the second: what it  *)
(* has written it never changes again.                                     *)
(***************************************************************************)
EXTENDS BlockParser, MigrationScripts, NaturalLemmas, FiniteSetTheorems, SequenceTheorems

-----------------------------------------------------------------------------
(* collectBlock: where a block closes and where its body starts.           *)

\* The fields of a close tag.
LEMMA CloseIs ==
  ASSUME NEW name
  PROVE  Close(name).k = "close" /\ Close(name).name = name /\ ~ Close(name).self
BY DEF Close, Shape

\* The close tag is found behind the opener and inside the slice.
LEMMA CloseLineInSlice ==
  ASSUME Here \in Nat, Top.last \in Nat, CloseLine # 0
  PROVE  /\ CloseLine \in Here + 1 .. Top.last
         /\ source[CloseLine] = Close(Line.name)
<1> DEFINE C == Closers(source, Line.name, Here + 1, Top.last)
<1>1. C # {} BY DEF CloseLine
<1>2. C \subseteq Here + 1 .. Top.last BY DEF Closers
<1>3. C \in SUBSET Nat BY <1>2
<1>4. Min(C) \in C
  <2> HIDE DEF C
  <2> QED BY <1>1, <1>3, MinOf
<1>5. CloseLine = Min(C) BY <1>1 DEF CloseLine
<1>6. source[Min(C)] = Close(Line.name) BY <1>4 DEF Closers
<1> HIDE DEF C
<1> QED BY <1>2, <1>4, <1>5, <1>6

\* The body of a block starts behind the opener, at the close tag at the
\* latest.
LEMMA BodyInBlock ==
  ASSUME NEW s, NEW name, NEW from \in Nat, NEW close \in Nat,
         from <= close, s[close] = Close(name)
  PROVE  BodyStart(s, name, from, close) \in from .. close
<1> DEFINE A == {i \in from..close : s[i].k # "attr"}
<1>1. s[close].k = "close" BY CloseIs
<1>2. close \in A BY <1>1
<1>3. A \in SUBSET Nat /\ A # {} BY <1>2
<1>4. Min(A) \in from..close
  <2>1. Min(A) \in A
    <3> HIDE DEF A
    <3> QED BY <1>3, MinOf
  <2> QED BY <2>1
<1>5. s[Min(A)].k \in {"blank", "sep"} => Min(A) + 1 \in from..close
  BY <1>1, <1>4
<1>6. BodyStart(s, name, from, close) =
        IF name \in VERBATIM_BODY_DIRECTIVES THEN from
        ELSE IF s[Min(A)].k \in {"blank", "sep"} THEN Min(A) + 1 ELSE Min(A)
  BY DEF BodyStart
<1> HIDE DEF A
<1> QED BY <1>4, <1>5, <1>6

-----------------------------------------------------------------------------
(* The frames                                                              *)

FrameType ==
  [block : RECURSIVE_BODY_DIRECTIVES \cup {"document"}, opener : Nat, first : Nat,
   last : Nat, pos : Nat, base : Nat, clause : Nat]

\* One frame over a document of len lines.  Line numbers start too low in
\* the slices of blocks and right at the top level.
FrameIn(f, len) ==
  /\ f.opener < f.first /\ f.last <= len
  /\ f.first <= f.pos /\ f.pos <= f.last + 1
  /\ f.base <= HeaderAt + f.first
  /\ f.opener = 0 => f.base = HeaderAt + f.first

\* The frame below goes on behind the close tag of the frame above.
Linked(f, g) == f.pos = g.last + 2

FramesOK(st, len) ==
  /\ st \in Seq(FrameType) /\ st # <<>>
  /\ \A i \in 1..Len(st) : FrameIn(st[i], len)
  /\ \A i \in 1..Len(st) - 1 : Linked(st[i], st[i + 1])

\* The last frame with its cursor and clause replaced.
At(f, p, c) == [f EXCEPT !.pos = p, !.clause = c]
Forwarded(st, p, c) == [st EXCEPT ![Len(st)] = At(@, p, c)]

\* Moving the cursor inside the slice keeps a frame.
LEMMA AtOK ==
  ASSUME NEW len \in Nat, NEW f \in FrameType, FrameIn(f, len), NEW p \in Nat,
         NEW c \in Nat, f.pos <= p, p <= f.last + 1
  PROVE  /\ At(f, p, c) \in FrameType
         /\ FrameIn(At(f, p, c), len)
         /\ At(f, p, c).last = f.last /\ At(f, p, c).pos = p
<1>1. At(f, p, c) \in FrameType BY DEF At, FrameType
<1>2. /\ At(f, p, c).opener = f.opener /\ At(f, p, c).first = f.first
      /\ At(f, p, c).last = f.last /\ At(f, p, c).base = f.base
      /\ At(f, p, c).pos = p
  BY DEF At, FrameType
<1>3. f.first <= p
  <2>1. f.first \in Nat /\ f.pos \in Nat BY DEF FrameType
  <2> QED BY <2>1 DEF FrameIn
<1> QED BY <1>1, <1>2, <1>3 DEF FrameIn

\* Moving the cursor inside the slice keeps the frames.
LEMMA ForwardedOK ==
  ASSUME NEW len \in Nat, NEW st, FramesOK(st, len), NEW p \in Nat, NEW c \in Nat,
         st[Len(st)].pos <= p, p <= st[Len(st)].last + 1
  PROVE  /\ FramesOK(Forwarded(st, p, c), len)
         /\ Len(Forwarded(st, p, c)) = Len(st)
         /\ Forwarded(st, p, c)[Len(st)] = At(st[Len(st)], p, c)
<1> DEFINE n == Len(st)
           t == Forwarded(st, p, c)
<1>1. st \in Seq(FrameType) /\ n \in Nat /\ n >= 1 /\ n \in 1..n
  BY DEF FramesOK
<1>2. st[n] \in FrameType /\ FrameIn(st[n], len)
  BY <1>1 DEF FramesOK
<1>3. /\ At(st[n], p, c) \in FrameType /\ FrameIn(At(st[n], p, c), len)
      /\ At(st[n], p, c).last = st[n].last
  BY <1>2, AtOK
<1>4. /\ t \in Seq(FrameType) /\ Len(t) = n
      /\ t[n] = At(st[n], p, c)
      /\ \A i \in 1..n : i # n => t[i] = st[i]
  BY <1>1, <1>3 DEF Forwarded
<1>5. \A i \in 1..n : FrameIn(t[i], len)
  BY <1>3, <1>4 DEF FramesOK
<1>6. \A i \in 1..n - 1 : Linked(t[i], t[i + 1])
  <2>1. TAKE i \in 1..n - 1
  <2>2. i \in 1..n /\ i # n /\ i + 1 \in 1..n BY <1>1
  <2>3. Linked(st[i], st[i + 1]) BY DEF FramesOK
  <2>4. t[i] = st[i] BY <1>4, <2>2
  <2>5. t[i + 1].last = st[i + 1].last
    BY <1>3, <1>4, <2>2
  <2> QED BY <2>3, <2>4, <2>5 DEF Linked
<1> HIDE DEF t
<1>7. t # <<>> BY <1>1, <1>4
<1> QED BY <1>4, <1>5, <1>6, <1>7 DEF t, FramesOK

\* Entering a block keeps the frames.
LEMMA EnteredOK ==
  ASSUME NEW len \in Nat, NEW st, FramesOK(st, len), NEW g \in FrameType,
         FrameIn(g, len), Linked(st[Len(st)], g)
  PROVE  /\ FramesOK(Append(st, g), len)
         /\ Len(Append(st, g)) = Len(st) + 1
         /\ Append(st, g)[Len(st) + 1] = g
<1> DEFINE n == Len(st)
           t == Append(st, g)
<1>1. st \in Seq(FrameType) /\ n \in Nat /\ n >= 1
  BY DEF FramesOK
<1>2. /\ t \in Seq(FrameType) /\ Len(t) = n + 1 /\ t[n + 1] = g
      /\ \A i \in 1..n : t[i] = st[i]
  BY <1>1
<1>3. \A i \in 1..n + 1 : FrameIn(t[i], len)
  BY <1>1, <1>2 DEF FramesOK
<1>4. \A i \in 1..n : Linked(t[i], t[i + 1])
  <2>1. TAKE i \in 1..n
  <2>2. CASE i = n BY <1>2, <2>2
  <2>3. CASE i # n
    <3>1. i \in 1..n - 1 /\ i + 1 \in 1..n BY <1>1, <2>3
    <3> QED BY <1>2, <3>1 DEF FramesOK
  <2> QED BY <2>2, <2>3
<1> HIDE DEF t
<1>5. t # <<>> BY <1>1, <1>2
<1> QED BY <1>1, <1>2, <1>3, <1>4, <1>5 DEF t, FramesOK

\* Leaving a block keeps the frames and puts the cursor behind the block.
LEMMA LeftOK ==
  ASSUME NEW len \in Nat, NEW st, FramesOK(st, len), Len(st) > 1
  PROVE  LET t == SubSeq(st, 1, Len(st) - 1)
         IN /\ FramesOK(t, len)
            /\ t[Len(t)].pos = st[Len(st)].last + 2
<1> DEFINE n == Len(st)
           t == SubSeq(st, 1, n - 1)
<1>1. st \in Seq(FrameType) /\ n \in Nat /\ n - 1 \in Nat /\ n - 1 >= 1
  BY DEF FramesOK
<1>2. /\ t \in Seq(FrameType) /\ Len(t) = n - 1
      /\ \A i \in 1..n - 1 : t[i] = st[i]
  BY <1>1
<1>3. \A i \in 1..n - 1 : FrameIn(t[i], len)
  BY <1>1, <1>2 DEF FramesOK
<1>4. \A i \in 1..(n - 1) - 1 : Linked(t[i], t[i + 1])
  <2>1. TAKE i \in 1..(n - 1) - 1
  <2>2. i \in 1..n - 1 /\ i + 1 \in 1..n - 1 BY <1>1
  <2> QED BY <1>2, <2>2 DEF FramesOK
<1>5. t[n - 1].pos = st[n].last + 2
  <2>1. n - 1 \in 1..n - 1 /\ (n - 1) + 1 = n BY <1>1
  <2> QED BY <1>2, <2>1 DEF FramesOK, Linked
<1> HIDE DEF t
<1>6. t # <<>> BY <1>1, <1>2
<1> QED BY <1>2, <1>3, <1>4, <1>5, <1>6 DEF t, FramesOK

-----------------------------------------------------------------------------
(* The inductive invariant                                                 *)

Outcomes == {"parsing", "parsed", "unclosed graph", "v1 syntax", "misplaced",
             "phase in import", "unclosed", "refused"}

NodeOK(n, len) ==
  /\ n.at \in Nat /\ n.within \in Nat /\ n.upto \in Nat /\ n.number \in Nat
  /\ n.within < n.at /\ n.at <= n.upto /\ n.upto <= len
  /\ n.number <= HeaderAt + n.at
  /\ n.within = 0 => n.number = HeaderAt + n.at

OutcomeOK(o) ==
  /\ o.is \in Outcomes /\ o.at \in Nat /\ o.number \in Nat
  /\ o.number <= HeaderAt + o.at

\* What every step keeps: frames that lie inside each other, nodes inside
\* the document, and numbers that are never too large.
IInv ==
  /\ source \in Seq(Shapes) /\ inImport \in BOOLEAN
  /\ FramesOK(stack, Len(source))
  /\ \A n \in nodes : NodeOK(n, Len(source))
  /\ passed \subseteq DOMAIN source
  /\ OutcomeOK(outcome)

\* What a step does: it keeps the invariant, and ends the parse or moves on.
Advanced == IInv' /\ (outcome'.is # "parsing" \/ Here' > Here)

LEMMA Initially == Init => IInv
<1> SUFFICES ASSUME Init PROVE IInv OBVIOUS
<1>1. source \in Seq(Shapes) /\ inImport \in BOOLEAN /\ Len(source) \in Nat
  BY DocumentsAreLines DEF Init
<1> DEFINE f == Frame("document", 0, 1, Len(source), HeaderAt + 1)
<1>2. f \in FrameType /\ FrameIn(f, Len(source))
  BY <1>1, DocumentsAreLines DEF Frame, FrameType, FrameIn
<1>3. stack = <<f>> BY DEF Init
<1> HIDE DEF f
<1>4. FramesOK(stack, Len(source))
  <2>1. stack \in Seq(FrameType) /\ stack # <<>> /\ Len(stack) = 1 /\ stack[1] = f
    BY <1>2, <1>3
  <2> QED BY <1>2, <2>1 DEF FramesOK
<1>5. OutcomeOK(outcome) BY DocumentsAreLines DEF Init, OutcomeOK, Outcomes
<1> QED BY <1>1, <1>4, <1>5 DEF Init, IInv

\* The running frame.
LEMMA TopOK ==
  ASSUME IInv
  PROVE  /\ Top \in FrameType /\ FrameIn(Top, Len(source))
         /\ Len(source) \in Nat /\ Len(stack) \in Nat /\ Len(stack) >= 1
         /\ Here \in Nat /\ Top.last \in Nat /\ Top.first \in Nat /\ Top.base \in Nat
         /\ Top.opener \in Nat /\ Top.clause \in Nat
<1>1. stack \in Seq(FrameType) /\ Len(stack) \in Nat /\ Len(stack) >= 1
  BY DEF IInv, FramesOK
<1>2. Top \in FrameType /\ FrameIn(Top, Len(source))
  BY <1>1 DEF IInv, FramesOK, Top
<1>3. Len(source) \in Nat BY DEF IInv
<1> QED BY <1>1, <1>2, <1>3 DEF FrameType, Here

\* The numbers parseNodes and collectBlock give a line of the slice.
LEMMA NumbersOK ==
  ASSUME IInv, NEW p \in Nat, Top.first <= p
  PROVE  /\ Number(p) \in Nat /\ Number(p) <= HeaderAt + p
         /\ Top.opener = 0 => Number(p) = HeaderAt + p
         /\ Index(p) \in Nat /\ Index(p) + 1 <= p
<1>1. /\ Top.first \in Nat /\ Top.base \in Nat /\ Top.opener \in Nat
      /\ FrameIn(Top, Len(source))
  BY TopOK
<1>2. /\ 1 <= Top.first /\ Top.base <= HeaderAt + Top.first
      /\ Top.opener = 0 => Top.base = HeaderAt + Top.first
  BY <1>1 DEF FrameIn
<1>3. HeaderAt \in Nat BY DocumentsAreLines
<1>4. Index(p) \in Nat /\ Index(p) + 1 <= p
  BY <1>1, <1>2 DEF Index
<1>5. \A b, a, h, q \in Nat : a <= q /\ b <= h + a => b + (q - a) \in Nat /\ b + (q - a) <= h + q
  OBVIOUS
<1>6. \A b, a, h, q \in Nat : b = h + a => b + (q - a) = h + q
  OBVIOUS
<1>7. Number(p) = Top.base + (p - Top.first)
  BY DEF Number, Index
<1>8. Number(p) \in Nat /\ Number(p) <= HeaderAt + p
  BY <1>1, <1>2, <1>3, <1>5, <1>7
<1>9. Top.opener = 0 => Number(p) = HeaderAt + p
  BY <1>1, <1>2, <1>3, <1>6, <1>7
<1> QED BY <1>4, <1>8, <1>9

\* The line the cursor is on.
LEMMA HereOK ==
  ASSUME IInv, InLine
  PROVE  /\ Here \in 1..Len(source) /\ Here <= Top.last /\ Top.last <= Len(source)
         /\ Top.first <= Here /\ Top.opener < Here
<1>1. Here <= Top.last BY DEF InLine, Here
<1>2. Top.last <= Len(source) /\ Top.first <= Here /\ Top.opener < Top.first
  BY TopOK DEF FrameIn, Here
<1> QED BY <1>1, <1>2, TopOK

\* A node that starts at the cursor and ends in the slice is well placed.
LEMMA MadeOK ==
  ASSUME IInv, InLine, NEW kind, NEW body, NEW last \in Nat, Here <= last, last <= Top.last
  PROVE  NodeOK(Node(kind, Here, body, last), Len(source))
<1>1. NodeOK([kind |-> kind, at |-> Here, body |-> body, upto |-> last,
              within |-> Top.opener, number |-> Number(Here)], Len(source))
  BY TopOK, HereOK, NumbersOK DEF NodeOK
<1> QED BY <1>1 DEF Node

\* The cursor moves inside the slice.
LEMMA MovedOK ==
  ASSUME IInv, NEW p \in Nat, Here <= p, p <= Top.last + 1, NEW c \in Nat,
         stack' = Forwarded(stack, p, c)
  PROVE  FramesOK(stack', Len(source)) /\ Here' = p
<1>1. FramesOK(stack, Len(source)) /\ Len(source) \in Nat BY TopOK DEF IInv
<1>2. stack[Len(stack)].pos <= p /\ p <= stack[Len(stack)].last + 1
  BY DEF Here, Top
<1>3. /\ FramesOK(stack', Len(source)) /\ Len(stack') = Len(stack)
      /\ stack'[Len(stack)] = At(Top, p, c)
  BY <1>1, <1>2, ForwardedOK DEF Top
<1>4. At(Top, p, c).pos = p
  BY TopOK, AtOK DEF Here
<1> QED BY <1>3, <1>4 DEF Here, Top

\* MoveTo leaves the clause of the frame alone.
LEMMA MoveToForwards ==
  ASSUME IInv, NEW p \in Nat
  PROVE  [stack EXCEPT ![Len(stack)].pos = p] = Forwarded(stack, p, Top.clause)
<1>1. [Top EXCEPT !.pos = p] = At(Top, p, Top.clause)
  BY TopOK DEF At, FrameType
<1>2. stack \in Seq(FrameType) /\ Len(stack) \in DOMAIN stack
  BY TopOK DEF IInv, FramesOK
<1> QED BY <1>1, <1>2 DEF Forwarded, Top

-----------------------------------------------------------------------------
(* The steps                                                               *)

\* A step that makes a node of the lines from the cursor to `last`.
LEMMA LeafStep ==
  ASSUME IInv, InLine, NEW kind, NEW last \in Nat, Here <= last, last <= Top.last,
         Emit(Leaf(kind, last)), MoveTo(last + 1), Goes
  PROVE  Advanced
<1>1. NodeOK(Leaf(kind, last), Len(source)) BY MadeOK DEF Leaf
<1>2. last + 1 \in Nat /\ Here <= last + 1 /\ last + 1 <= Top.last + 1 /\ Here < last + 1
  BY TopOK
<1>3. stack' = Forwarded(stack, last + 1, Top.clause)
  BY <1>2, MoveToForwards DEF MoveTo
<1>4. FramesOK(stack', Len(source)) /\ Here' = last + 1
  BY <1>2, <1>3, TopOK, MovedOK
<1>5. \A n \in nodes' : NodeOK(n, Len(source)) BY <1>1 DEF Emit, IInv
<1>6. IInv' BY <1>4, <1>5 DEF IInv, Goes, Emit
<1> QED BY <1>2, <1>4, <1>6 DEF Advanced

\* A step over one line that makes no node.
LEMMA PassStep ==
  ASSUME IInv, InLine, NEW c \in Nat, stack' = Forwarded(stack, Here + 1, c),
         passed' = passed \cup {Here}, UNCHANGED nodes, Goes
  PROVE  Advanced
<1>1. Here + 1 \in Nat /\ Here <= Here + 1 /\ Here + 1 <= Top.last + 1 /\ Here < Here + 1
  BY TopOK, HereOK
<1>2. FramesOK(stack', Len(source)) /\ Here' = Here + 1
  BY <1>1, MovedOK
<1>3. passed' \subseteq DOMAIN source
  BY HereOK DEF IInv
<1>4. IInv' BY <1>2, <1>3 DEF IInv, Goes
<1> QED BY <1>1, <1>2, <1>4 DEF Advanced

\* A step that ends the parse with an error.
LEMMA FailStep ==
  ASSUME IInv, NEW why \in Outcomes, why # "parsing", NEW p \in Nat, NEW number \in Nat,
         number <= HeaderAt + p, Fail(why, p, number)
  PROVE  Advanced
<1>1. OutcomeOK(outcome') /\ outcome'.is # "parsing" BY DEF Fail, OutcomeOK
<1> QED BY <1>1 DEF Advanced, IInv, Fail

\* An error at the cursor, numbered by parseNodes.
LEMMA FailHere ==
  ASSUME IInv, InLine, NEW why \in Outcomes, why # "parsing", Fail(why, Here, Number(Here))
  PROVE  Advanced
<1>1. /\ Here \in Nat /\ Number(Here) \in Nat /\ Number(Here) <= HeaderAt + Here
  BY TopOK, HereOK, NumbersOK
<1> QED BY <1>1, FailStep

\* An error in collectBlock, numbered from 1 in the slice.
LEMMA FailInBlock ==
  ASSUME IInv, NEW why \in Outcomes, why # "parsing", NEW p \in Nat, Top.first <= p,
         Fail(why, p, Index(p) + 1)
  PROVE  Advanced
<1>1. Index(p) + 1 \in Nat /\ Index(p) + 1 <= HeaderAt + p
  BY NumbersOK, DocumentsAreLines
<1> QED BY <1>1, FailStep

LEMMA EnterBlockStep == IInv /\ EnterBlock => Advanced
<1> SUFFICES ASSUME IInv, EnterBlock PROVE Advanced OBVIOUS
<1> DEFINE close == CloseLine
           body  == BodyStart(source, Line.name, Here + 1, close)
           under == Forwarded(stack, close + 1, Top.clause)
           g     == Frame(Line.name, Here, body, close - 1, Index(Here) + 1)
<1>1. /\ InLine /\ close # 0 /\ Line.name \in RECURSIVE_BODY_DIRECTIVES
      /\ Emit(Node(Line.name, Here, body, close))
      /\ stack' = Append([stack EXCEPT ![Len(stack)].pos = close + 1], g)
      /\ Goes
  BY DEF EnterBlock, Collected, Opening, InClause
<1>2. /\ Here \in Nat /\ Top.last \in Nat /\ Len(source) \in Nat /\ Here + 1 \in Nat
      /\ Top.clause \in Nat
  BY TopOK
<1>3. close \in Here + 1 .. Top.last /\ source[close] = Close(Line.name)
  BY <1>1, <1>2, CloseLineInSlice
<1>4. body \in Here + 1 .. close
  BY <1>2, <1>3, BodyInBlock
<1> HIDE DEF close, body
<1>5. NodeOK(Node(Line.name, Here, body, close), Len(source))
  BY <1>1, <1>2, <1>3, MadeOK
<1>6. /\ FramesOK(under, Len(source)) /\ Len(under) = Len(stack)
      /\ under[Len(stack)].pos = close + 1
  <2>1. /\ close + 1 \in Nat /\ Here <= close + 1 /\ close + 1 <= Top.last + 1
    BY <1>2, <1>3
  <2>2. FramesOK(stack, Len(source)) BY DEF IInv
  <2>3. /\ FramesOK(under, Len(source)) /\ Len(under) = Len(stack)
        /\ under[Len(stack)] = At(Top, close + 1, Top.clause)
    <3>1. PICK p \in Nat : p = close + 1
      BY <2>1
    <3>2. stack[Len(stack)].pos <= p /\ p <= stack[Len(stack)].last + 1
      BY <2>1, <3>1 DEF Here, Top
    <3>3. /\ FramesOK(Forwarded(stack, p, Top.clause), Len(source))
          /\ Len(Forwarded(stack, p, Top.clause)) = Len(stack)
          /\ Forwarded(stack, p, Top.clause)[Len(stack)] = At(stack[Len(stack)], p, Top.clause)
      BY <1>2, <2>2, <3>2, ForwardedOK
    <3> QED BY <3>1, <3>3 DEF Top
  <2>4. At(Top, close + 1, Top.clause).pos = close + 1
    <3>1. Top \in FrameType
      BY TopOK
    <3> HIDE DEF under, g
    <3> QED BY <3>1 DEF At, FrameType
  <2> QED BY <2>3, <2>4
<1>7. /\ g \in FrameType /\ FrameIn(g, Len(source)) /\ g.pos = body
      /\ Linked(under[Len(under)], g)
  <2>1. /\ close - 1 \in Nat /\ body \in Nat /\ Here < body /\ body <= close
        /\ close \in Nat /\ close <= Len(source)
    BY <1>1, <1>2, <1>3, <1>4, HereOK
  <2>2. Index(Here) \in Nat /\ Index(Here) + 1 <= Here /\ Here # 0
    BY <1>1, <1>2, HereOK, NumbersOK
  <2>3. HeaderAt \in Nat BY DocumentsAreLines
  <2>4. g = [block |-> Line.name, opener |-> Here, first |-> body, last |-> close - 1,
             pos |-> body, base |-> Index(Here) + 1,
             clause |-> IF Line.name = "switch" THEN 0 ELSE 1]
    BY DEF Frame
  <2>5. g \in FrameType
    <3>1. /\ Line.name \in RECURSIVE_BODY_DIRECTIVES \cup {"document"}
          /\ Index(Here) + 1 \in Nat /\ (IF Line.name = "switch" THEN 0 ELSE 1) \in Nat
      BY <1>1, <2>2
    <3> HIDE DEF g
    <3> QED BY <1>2, <2>1, <2>4, <3>1 DEF FrameType
  <2>6. FrameIn(g, Len(source)) BY <1>2, <2>1, <2>2, <2>3, <2>4 DEF FrameIn
  <2>7. Linked(under[Len(under)], g) BY <1>6, <2>1, <2>4 DEF Linked
  <2> QED BY <2>4, <2>5, <2>6, <2>7
<1>8. stack' = Append(under, g)
  <2>1. close + 1 \in Nat BY <1>2, <1>3
  <2>2. [stack EXCEPT ![Len(stack)].pos = close + 1] = under
    BY <2>1, MoveToForwards
  <2> HIDE DEF under, g
  <2> QED BY <1>1, <2>2
<1> HIDE DEF under, g
<1>9. FramesOK(stack', Len(source)) /\ Here' = body
  BY <1>2, <1>6, <1>7, <1>8, EnteredOK DEF Here, Top
<1>10. \A n \in nodes' : NodeOK(n, Len(source)) BY <1>1, <1>5 DEF Emit, IInv
<1>11. IInv' BY <1>1, <1>9, <1>10 DEF IInv, Goes, Emit
<1>12. Here' > Here BY <1>2, <1>4, <1>9
<1> QED BY <1>11, <1>12 DEF Advanced

LEMMA LeaveBlockStep == IInv /\ LeaveBlock => Advanced
<1> SUFFICES ASSUME IInv, LeaveBlock PROVE Advanced OBVIOUS
<1>1. FramesOK(stack, Len(source)) /\ Len(source) \in Nat /\ Len(stack) > 1
  BY TopOK DEF IInv, LeaveBlock
<1>2. FramesOK(stack', Len(source)) /\ Here' = Top.last + 2
  BY <1>1, LeftOK DEF LeaveBlock, Here, Top
<1>3. Here <= Top.last + 1 BY TopOK DEF FrameIn, Here
<1>4. IInv' BY <1>2 DEF IInv, LeaveBlock, Goes
<1> QED BY <1>2, <1>3, <1>4, TopOK DEF Advanced

LEMMA FinishStep == IInv /\ Finish => Advanced
<1> SUFFICES ASSUME IInv, Finish PROVE Advanced OBVIOUS
<1>1. OutcomeOK(outcome') /\ outcome'.is = "parsed"
  <2>1. OutcomeOK(outcome) /\ outcome.is = "parsing" BY DEF IInv, Finish, Running
  <2>2. outcome' = [outcome EXCEPT !.is = "parsed"] BY DEF Finish
  <2> QED BY <2>1, <2>2 DEF OutcomeOK, Outcomes
<1>2. IInv' BY <1>1 DEF IInv, Finish
<1> QED BY <1>1, <1>2 DEF Advanced

LEMMA UnclosedStep == IInv /\ Unclosed => Advanced
<1> SUFFICES ASSUME IInv, Unclosed PROVE Advanced OBVIOUS
<1>1. InLine /\ Fail("unclosed", Here, Index(Here) + 1)
  BY DEF Unclosed, Opening, InClause
<1>2. Here \in Nat /\ Top.first <= Here BY <1>1, TopOK, HereOK
<1> QED BY <1>1, <1>2, FailInBlock DEF Outcomes

LEMMA OldEndInBlockStep == IInv /\ OldEndInBlock => Advanced
<1> SUFFICES ASSUME IInv, OldEndInBlock PROVE Advanced OBVIOUS
<1>1. InLine /\ OldEnds # {} /\ Fail("v1 syntax", Min(OldEnds), Index(Min(OldEnds)) + 1)
  BY DEF OldEndInBlock, Opening, InClause
<1>2. Here \in Nat /\ Top.first \in Nat /\ Top.first <= Here /\ Top.last \in Nat
  BY <1>1, TopOK, HereOK
<1>3. CloseLine # 0 => CloseLine \in Nat BY <1>2, CloseLineInSlice
<1>4. OldEnds \in SUBSET Nat /\ \A p \in OldEnds : Here < p
  BY <1>2, <1>3 DEF OldEnds
<1>5. Min(OldEnds) \in OldEnds BY <1>1, <1>4, MinOf
<1>6. \A p \in OldEnds : p \in Nat /\ Top.first <= p
  <2>1. TAKE p \in OldEnds
  <2>2. p \in Nat /\ Here < p BY <1>4
  <2> QED BY <1>2, <2>2
<1>7. Min(OldEnds) \in Nat /\ Top.first <= Min(OldEnds) BY <1>5, <1>6, Zenon
<1> QED BY <1>1, <1>7, FailInBlock DEF Outcomes

LEMMA CodeFenceStep == IInv /\ CodeFence => Advanced
<1> SUFFICES ASSUME IInv, CodeFence PROVE Advanced OBVIOUS
<1> DEFINE ends == {i \in Here + 1 .. Top.last : source[i].k \in Fences}
           last == IF ends = {} THEN Top.last ELSE Min(ends)
<1>1. InLine /\ Emit(Leaf("code", last)) /\ MoveTo(last + 1) /\ Goes
  BY DEF CodeFence, InClause
<1>2. Here \in Nat /\ Top.last \in Nat /\ Here <= Top.last BY <1>1, TopOK, HereOK
<1>3. ends \in SUBSET Nat /\ ends \subseteq Here + 1 .. Top.last BY <1>2
<1>4. ends # {} => Min(ends) \in ends
  <2> HIDE DEF ends
  <2> QED BY <1>3, MinOf
<1>5. last \in Nat /\ Here <= last /\ last <= Top.last BY <1>2, <1>3, <1>4
<1> HIDE DEF last
<1> QED BY <1>1, <1>5, LeafStep

LEMMA GraphFenceStep == IInv /\ GraphFence => Advanced
<1> SUFFICES ASSUME IInv, GraphFence PROVE Advanced OBVIOUS
<1>1. /\ InLine /\ GraphEnds # {} /\ Emit(Leaf("graph", Min(GraphEnds)))
      /\ MoveTo(Min(GraphEnds) + 1) /\ Goes
  BY DEF GraphFence, InClause
<1>2. Here \in Nat /\ Top.last \in Nat BY TopOK
<1>3. GraphEnds \in SUBSET Nat /\ GraphEnds \subseteq Here + 1 .. Top.last
  BY <1>2 DEF GraphEnds
<1>4. Min(GraphEnds) \in GraphEnds BY <1>1, <1>3, MinOf
<1>5. \A p \in GraphEnds : p \in Nat /\ Here <= p /\ p <= Top.last
  <2>1. TAKE p \in GraphEnds
  <2>2. p \in Here + 1 .. Top.last BY <1>3
  <2> QED BY <1>2, <2>2
<1>6. Min(GraphEnds) \in Nat /\ Here <= Min(GraphEnds) /\ Min(GraphEnds) <= Top.last
  BY <1>4, <1>5, Zenon
<1> QED BY <1>1, <1>6, LeafStep

\* A block that is not parsed inside is one node up to its close tag.
LEMMA WholeBlockStep ==
  ASSUME IInv, Collected, NEW kind, Emit(Leaf(kind, CloseLine)), MoveTo(CloseLine + 1), Goes
  PROVE  Advanced
<1>1. InLine /\ CloseLine # 0 BY DEF Collected, Opening, InClause
<1>2. Here \in Nat /\ Top.last \in Nat BY TopOK
<1>3. CloseLine \in Here + 1 .. Top.last BY <1>1, <1>2, CloseLineInSlice
<1>4. CloseLine \in Nat /\ Here <= CloseLine /\ CloseLine <= Top.last BY <1>2, <1>3
<1> QED BY <1>1, <1>4, LeafStep

LEMMA ClauseStep == IInv /\ Clause => Advanced
<1> SUFFICES ASSUME IInv, Clause PROVE Advanced OBVIOUS
<1>1. /\ InLine /\ passed' = passed \cup {Here} /\ UNCHANGED nodes /\ Goes
      /\ stack' = [stack EXCEPT ![Len(stack)].pos = @ + 1, ![Len(stack)].clause = @ + 1]
  BY DEF Clause
<1>2. Top \in FrameType /\ Here \in Nat /\ Top.clause \in Nat
      /\ stack \in Seq(FrameType) /\ Len(stack) \in DOMAIN stack
  BY TopOK DEF IInv, FramesOK
<1>3. [Top EXCEPT !.pos = Here + 1, !.clause = Top.clause + 1]
        = At(Top, Here + 1, Top.clause + 1)
  BY DEF At
<1>4. stack' = Forwarded(stack, Here + 1, Top.clause + 1)
  BY <1>1, <1>2, <1>3 DEF Forwarded, Top, Here
<1>5. Top.clause + 1 \in Nat BY <1>2
<1> QED BY <1>1, <1>4, <1>5, PassStep

LEMMA BeforeFirstCaseStep == IInv /\ BeforeFirstCase => Advanced
<1> SUFFICES ASSUME IInv, BeforeFirstCase PROVE Advanced OBVIOUS
<1>1. /\ InLine /\ MoveTo(Here + 1) /\ passed' = passed \cup {Here}
      /\ UNCHANGED nodes /\ Goes
  BY DEF BeforeFirstCase
<1>2. Here + 1 \in Nat /\ Top.clause \in Nat BY TopOK
<1>3. stack' = Forwarded(stack, Here + 1, Top.clause)
  BY <1>1, <1>2, MoveToForwards DEF MoveTo
<1> QED BY <1>1, <1>2, <1>3, PassStep

LEMMA SingleStep == IInv /\ Single => Advanced
<1> SUFFICES ASSUME IInv, Single PROVE Advanced OBVIOUS
<1>1. InLine /\ Emit(Leaf("line", Here)) /\ MoveTo(Here + 1) /\ Goes
  BY DEF Single, InClause
<1> QED BY <1>1, TopOK, HereOK, LeafStep

\* The errors parseNodes raises at the cursor.
LEMMA FailingSteps ==
  IInv /\ (\/ UnclosedGraph \/ OldSyntax \/ MisplacedTransition
           \/ RejectImportedPhase \/ Refused) => Advanced
<1> SUFFICES ASSUME IInv,
                    UnclosedGraph \/ OldSyntax \/ MisplacedTransition
                      \/ RejectImportedPhase \/ Refused
             PROVE  Advanced
  OBVIOUS
<1>1. InLine
  BY DEF UnclosedGraph, OldSyntax, MisplacedTransition, RejectImportedPhase, Refused,
         Collected, Opening, InClause
<1>2. \E why \in Outcomes \ {"parsing"} : Fail(why, Here, Number(Here))
  BY DEF UnclosedGraph, OldSyntax, MisplacedTransition, RejectImportedPhase, Refused,
         Outcomes
<1> QED BY <1>1, <1>2, FailHere

\* Every step of the parser keeps the invariant and moves on or ends.
LEMMA EveryStep == IInv /\ Next => Advanced
<1> SUFFICES ASSUME IInv, Next PROVE Advanced OBVIOUS
<1>1. CASE Clause BY <1>1, ClauseStep
<1>2. CASE BeforeFirstCase BY <1>2, BeforeFirstCaseStep
<1>3. CASE Single BY <1>3, SingleStep
<1>4. CASE CodeFence BY <1>4, CodeFenceStep
<1>5. CASE GraphFence BY <1>5, GraphFenceStep
<1>6. CASE UnclosedGraph \/ OldSyntax \/ MisplacedTransition
             \/ RejectImportedPhase \/ Refused
  BY <1>6, FailingSteps
<1>7. CASE OldEndInBlock BY <1>7, OldEndInBlockStep
<1>8. CASE Unclosed BY <1>8, UnclosedStep
<1>9. CASE UnknownBlock BY <1>9, WholeBlockStep DEF UnknownBlock
<1>10. CASE RawBlock BY <1>10, WholeBlockStep DEF RawBlock
<1>11. CASE EnterBlock BY <1>11, EnterBlockStep
<1>12. CASE LeaveBlock BY <1>12, LeaveBlockStep
<1>13. CASE Finish BY <1>13, FinishStep
<1> QED
  BY <1>1, <1>2, <1>3, <1>4, <1>5, <1>6, <1>7, <1>8, <1>9, <1>10, <1>11, <1>12, <1>13
  DEF Next

LEMMA Stutter == IInv /\ UNCHANGED vars => IInv'
BY DEF IInv, vars, FramesOK

-----------------------------------------------------------------------------
(* The theorems                                                            *)

LEMMA Invariant == Spec => []IInv
<1>1. Init => IInv BY Initially
<1>2. IInv /\ [Next]_vars => IInv' BY EveryStep, Stutter DEF Advanced
<1> QED BY <1>1, <1>2, PTL DEF Spec

LEMMA IInvGivesTypes == IInv => TypeOK
<1> SUFFICES ASSUME IInv PROVE TypeOK OBVIOUS
<1> DEFINE len == Len(source)
<1>1. len \in Nat /\ HeaderAt \in Nat BY DocumentsAreLines DEF IInv
<1>2. stack # <<>> /\ \A f \in 1..Len(stack) : stack[f] \in FrameType /\ FrameIn(stack[f], len)
  BY DEF IInv, FramesOK
<1>3. ASSUME NEW f \in 1..Len(stack)
      PROVE  /\ stack[f].block \in RECURSIVE_BODY_DIRECTIVES \cup {"document"}
             /\ stack[f].pos \in stack[f].first .. stack[f].last + 1
             /\ stack[f].base \in Numbers
             /\ stack[f].clause \in Nat
  <2>1. /\ stack[f].block \in RECURSIVE_BODY_DIRECTIVES \cup {"document"}
        /\ stack[f].pos \in Nat /\ stack[f].first \in Nat /\ stack[f].last \in Nat
        /\ stack[f].base \in Nat /\ stack[f].clause \in Nat
    BY <1>2 DEF FrameType
  <2>2. FrameIn(stack[f], len) BY <1>2
  <2>3. stack[f].pos \in stack[f].first .. stack[f].last + 1
    BY <2>1, <2>2 DEF FrameIn
  <2>4. stack[f].base <= HeaderAt + len + 1
    <3>1. /\ stack[f].first <= stack[f].pos /\ stack[f].pos <= stack[f].last + 1
          /\ stack[f].last <= len /\ stack[f].base <= HeaderAt + stack[f].first
      BY <2>2 DEF FrameIn
    <3> HIDE DEF len
    <3>2. \A b, a, p, l, n, h \in Nat :
            a <= p /\ p <= l + 1 /\ l <= n /\ b <= h + a => b <= h + n + 1
      OBVIOUS
    <3> QED BY <1>1, <2>1, <3>1, <3>2
  <2>5. stack[f].base \in Numbers BY <1>1, <2>1, <2>4 DEF Numbers
  <2> QED BY <2>1, <2>3, <2>5
<1>4. ASSUME NEW n \in nodes
      PROVE  n.at \in n.within + 1 .. n.upto /\ n.number \in Numbers
  BY <1>1 DEF IInv, NodeOK, Numbers
<1> QED BY <1>2, <1>3, <1>4 DEF IInv, TypeOK, OutcomeOK, Outcomes

\* Every frame, node and error of the parser has its type, for all
\* documents: parseNodes, collectBlock and the body parsers.
THEOREM ParserTypeCorrect == Spec => []TypeOK
BY Invariant, IInvGivesTypes, PTL

\* For all documents, the number in a node or an error never points below
\* the line it is about, and is exact at the top level: the numbering of
\* nested slices errs on one side only.
THEOREM NumbersNeverLate == Spec => []NumbersNotLate
<1>1. IInv => NumbersNotLate
  BY DEF IInv, NodeOK, OutcomeOK, NumbersNotLate
<1> QED BY <1>1, Invariant, PTL

\* For all documents, each step of the parser ends the parse or moves the
\* cursor down: no line is read as the start of anything twice, so that the
\* parse takes at most one step more than the document has lines.
THEOREM ParserGoesForward == Spec => Forward
<1>1. IInv /\ [Next]_vars => [outcome'.is # "parsing" \/ Here' > Here]_vars
  BY EveryStep DEF Advanced
<1> QED BY <1>1, Invariant, PTL DEF Spec, Forward

-----------------------------------------------------------------------------
(* Each line once                                                          *)

Claimants(ns, p) == {n \in ns : p \in Claimed(n)}

\* One node has the line, or it was passed over.
Once(p) ==
  \/ p \notin passed /\ \E n \in nodes : Claimants(nodes, p) = {n}
  \/ p \in passed /\ Claimants(nodes, p) = {}

\* The close tag of the block that frame f walks the body of.
ClosesAt(f) == f.last + 1

\* The books of the walk: what lies behind is accounted for once; what lies
\* ahead is free, but for the close tags of the blocks that are open, each of
\* which its block alone has claimed; and the slices get shorter inwards.
Ledger ==
  /\ \A p \in 1..Len(source) : p < Here => Once(p)
  /\ \A p \in 1..Len(source) : p >= Here =>
       /\ p \notin passed
       /\ \A n \in Claimants(nodes, p) :
            \E f \in 2..Len(stack) :
              p = n.upto /\ p = ClosesAt(stack[f]) /\ n.at = stack[f].opener
  /\ \A f \in 2..Len(stack) : \E n \in nodes : Claimants(nodes, ClosesAt(stack[f])) = {n}
  /\ \A f, g \in 1..Len(stack) : f < g => stack[g].last < stack[f].last

LEMMA EachFrame ==
  ASSUME IInv, NEW f \in 1..Len(stack)
  PROVE  /\ FrameIn(stack[f], Len(source))
         /\ stack[f].opener \in Nat /\ stack[f].first \in Nat
         /\ stack[f].last \in Nat /\ stack[f].pos \in Nat
<1>1. FramesOK(stack, Len(source)) BY DEF IInv
<1>2. stack[f] \in FrameType /\ FrameIn(stack[f], Len(source))
  BY <1>1 DEF FramesOK
<1> QED BY <1>2 DEF FrameType

LEMMA EachLink ==
  ASSUME IInv, NEW f \in 1..Len(stack) - 1
  PROVE  Linked(stack[f], stack[f + 1])
BY DEF IInv, FramesOK

\* A line of the running slice from the cursor on is free.
LEMMA FreeAhead ==
  ASSUME IInv, Ledger, NEW p \in Nat, Here <= p, p <= Top.last
  PROVE  p \in 1..Len(source) /\ p \notin passed /\ Claimants(nodes, p) = {}
<1>1. /\ FrameIn(Top, Len(source)) /\ Len(source) \in Nat /\ Len(stack) \in Nat
      /\ Len(stack) >= 1 /\ Top.last \in Nat /\ Top.first \in Nat /\ Here \in Nat
      /\ Top.opener \in Nat
  BY TopOK
<1>2. p \in 1..Len(source)
  BY <1>1 DEF FrameIn, Here
<1>3. \A f \in 2..Len(stack) : p # ClosesAt(stack[f])
  <2>1. TAKE f \in 2..Len(stack)
  <2>2. f \in 1..Len(stack) /\ Len(stack) \in 1..Len(stack) /\ stack[Len(stack)] = Top
    BY <1>1 DEF Top
  <2>3. stack[f].last \in Nat BY <2>2, EachFrame
  <2>4. Top.last <= stack[f].last
    <3>1. CASE f = Len(stack) BY <1>1, <2>2, <3>1
    <3>2. CASE f < Len(stack)
      <4>1. stack[Len(stack)].last < stack[f].last BY <2>2, <3>2 DEF Ledger
      <4> QED BY <1>1, <2>2, <2>3, <4>1
    <3> QED BY <1>1, <2>2, <3>1, <3>2
  <2> QED BY <1>1, <2>3, <2>4 DEF ClosesAt
<1> QED BY <1>1, <1>2, <1>3 DEF Ledger

\* A new node joins those that claim its lines.
LEMMA JoinsClaimants ==
  ASSUME NEW N, nodes' = nodes \cup {N}, NEW p
  PROVE  /\ p \in Claimed(N) => Claimants(nodes', p) = Claimants(nodes, p) \cup {N}
         /\ p \notin Claimed(N) => Claimants(nodes', p) = Claimants(nodes, p)
BY DEF Claimants

LEMMA SameClaimants ==
  ASSUME nodes' = nodes, NEW p
  PROVE  Claimants(nodes', p) = Claimants(nodes, p)
OBVIOUS

\* A node that is no block claims its lines from first to last.
LEMMA LeafClaims ==
  ASSUME NEW kind, kind \notin RECURSIVE_BODY_DIRECTIVES, NEW last
  PROVE  Claimed(Leaf(kind, last)) = Here..last
BY DEF Claimed, IsBlock, Leaf, Node

\* Moving the cursor leaves the slices where they are.
LEMMA SlicesStay ==
  ASSUME IInv, NEW q, NEW c, stack' = Forwarded(stack, q, c)
  PROVE  /\ Len(stack') = Len(stack)
         /\ \A f \in 1..Len(stack) :
              stack'[f].last = stack[f].last /\ stack'[f].opener = stack[f].opener
<1>1. stack \in Seq(FrameType) /\ Len(stack) \in Nat /\ Len(stack) \in 1..Len(stack)
  BY TopOK DEF IInv, FramesOK
<1>2. stack[Len(stack)] \in FrameType BY <1>1
<1> DEFINE a == At(stack[Len(stack)], q, c)
<1>3. a.last = stack[Len(stack)].last /\ a.opener = stack[Len(stack)].opener
  BY <1>2 DEF At, FrameType
<1>4. stack' = [stack EXCEPT ![Len(stack)] = a] BY DEF Forwarded
<1> HIDE DEF a
<1>5. Len(stack') = Len(stack) /\ \A f \in 1..Len(stack) :
        stack'[f] = IF f = Len(stack) THEN a ELSE stack[f]
  BY <1>1, <1>4
<1> QED BY <1>3, <1>5

\* The books after a step that moves the cursor to q and accounts for the
\* lines it leaves behind, and for no other.
LEMMA BooksForward ==
  ASSUME IInv, Ledger, NEW q \in Nat, Here <= q, q <= Top.last + 1, NEW c,
         stack' = Forwarded(stack, q, c), Here' = q, source' = source,
         \A p \in 1..Len(source) : Here <= p /\ p < q => Once(p)',
         \A p \in 1..Len(source) : p < Here \/ q <= p =>
            /\ Claimants(nodes', p) = Claimants(nodes, p)
            /\ p \in passed' <=> p \in passed,
         nodes \subseteq nodes'
  PROVE  Ledger'
<1>1. /\ Len(stack') = Len(stack) /\ Len(stack) \in Nat
      /\ \A f \in 1..Len(stack) :
           stack'[f].last = stack[f].last /\ stack'[f].opener = stack[f].opener
  BY SlicesStay, TopOK
<1>2. \A f \in 2..Len(stack) : f \in 1..Len(stack) /\ ClosesAt(stack'[f]) = ClosesAt(stack[f])
  BY <1>1 DEF ClosesAt
<1>3. /\ Here \in Nat /\ Top.last \in Nat /\ Len(source) \in Nat /\ Len(stack) >= 1
      /\ stack[Len(stack)] = Top
  BY TopOK DEF Top
<1>4. ASSUME NEW p \in 1..Len(source), p < q PROVE Once(p)'
  <2>1. CASE p < Here
    <3>1. Once(p) BY <2>1 DEF Ledger
    <3>2. Claimants(nodes', p) = Claimants(nodes, p) /\ (p \in passed' <=> p \in passed) BY <2>1
    <3> QED BY <3>1, <3>2 DEF Once
  <2>2. CASE Here <= p BY <1>4, <2>2
  <2> QED BY <1>3, <2>1, <2>2
<1>5. ASSUME NEW p \in 1..Len(source), p >= q
      PROVE  /\ p \notin passed'
             /\ \A n \in Claimants(nodes', p) :
                  \E f \in 2..Len(stack') :
                    p = n.upto /\ p = ClosesAt(stack'[f]) /\ n.at = stack'[f].opener
  <2>1. Claimants(nodes', p) = Claimants(nodes, p) /\ (p \in passed' <=> p \in passed)
    BY <1>5
  <2>2. p >= Here BY <1>3, <1>5
  <2>3. /\ p \notin passed
        /\ \A n \in Claimants(nodes, p) :
             \E f \in 2..Len(stack) :
               p = n.upto /\ p = ClosesAt(stack[f]) /\ n.at = stack[f].opener
    BY <2>2 DEF Ledger
  <2> QED BY <1>1, <1>2, <2>1, <2>3
<1>6. ASSUME NEW f \in 2..Len(stack)
      PROVE  \E n \in nodes' : Claimants(nodes', ClosesAt(stack'[f])) = {n}
  <2>1. PICK n \in nodes : Claimants(nodes, ClosesAt(stack[f])) = {n} BY DEF Ledger
  <2>2. f \in 1..Len(stack) BY <1>1
  <2>3. stack[f].last \in Nat BY <2>2, EachFrame
  <2>4. Top.last <= stack[f].last
    <3>1. CASE f = Len(stack) BY <1>3, <3>1
    <3>2. CASE f < Len(stack)
      <4>1. Len(stack) \in 1..Len(stack) BY <1>1, <1>3
      <4>2. stack[Len(stack)].last < stack[f].last BY <2>2, <3>2, <4>1 DEF Ledger
      <4> QED BY <1>3, <2>3, <4>2
    <3> QED BY <1>1, <2>2, <3>1, <3>2
  <2>5. ClosesAt(stack[f]) \in 1..Len(source) /\ q <= ClosesAt(stack[f])
    <3>1. ClosesAt(stack[f]) \in Nat /\ q <= ClosesAt(stack[f]) /\ ClosesAt(stack[f]) >= 1
      BY <1>3, <2>3, <2>4 DEF ClosesAt
    <3>2. f - 1 \in 1..Len(stack) - 1 /\ (f - 1) + 1 = f /\ f - 1 \in 1..Len(stack)
      BY <1>1
    <3>3. Linked(stack[f - 1], stack[f])
      <4>1. Linked(stack[f - 1], stack[(f - 1) + 1]) BY <3>2, EachLink
      <4> QED BY <3>2, <4>1
    <3>4. /\ FrameIn(stack[f - 1], Len(source))
          /\ stack[f - 1].pos \in Nat /\ stack[f - 1].last \in Nat
      BY <3>2, EachFrame
    <3>5. stack[f].last + 2 <= Len(source) + 1
      BY <1>3, <3>3, <3>4 DEF Linked, FrameIn
    <3> QED BY <1>3, <2>3, <3>1, <3>5 DEF ClosesAt
  <2>6. Claimants(nodes', ClosesAt(stack'[f])) = Claimants(nodes, ClosesAt(stack[f]))
    <3>1. ClosesAt(stack'[f]) = ClosesAt(stack[f]) BY <1>2
    <3>2. Claimants(nodes', ClosesAt(stack[f])) = Claimants(nodes, ClosesAt(stack[f]))
      BY <2>5
    <3> QED BY <3>1, <3>2
  <2> QED BY <2>1, <2>6
<1>7. \A f, g \in 1..Len(stack') : f < g => stack'[g].last < stack'[f].last
  BY <1>1 DEF Ledger
<1> QED BY <1>1, <1>4, <1>5, <1>6, <1>7 DEF Ledger

\* A node of the lines from the cursor to last accounts for them.
LEMMA LeafBooks ==
  ASSUME IInv, Ledger, InLine, NEW kind, kind \notin RECURSIVE_BODY_DIRECTIVES,
         NEW last \in Nat, Here <= last, last <= Top.last,
         Emit(Leaf(kind, last)), MoveTo(last + 1), Goes
  PROVE  Ledger'
<1> DEFINE N == Leaf(kind, last)
<1>1. nodes' = nodes \cup {N} /\ passed' = passed /\ source' = source
  BY DEF Emit, Goes
<1>2. Claimed(N) = Here..last BY LeafClaims
<1>3. last + 1 \in Nat /\ Here <= last + 1 /\ last + 1 <= Top.last + 1 /\ Here \in Nat
      /\ Top.last \in Nat /\ Top.clause \in Nat
  BY TopOK
<1>4. stack' = Forwarded(stack, last + 1, Top.clause)
  BY <1>3, MoveToForwards DEF MoveTo
<1>5. Here' = last + 1 BY <1>3, <1>4, MovedOK
<1> HIDE DEF N
<1>6. \A p \in 1..Len(source) : Here <= p /\ p < last + 1 => Once(p)'
  <2>1. SUFFICES ASSUME NEW p \in 1..Len(source), Here <= p, p < last + 1
                 PROVE  Once(p)'
    OBVIOUS
  <2>2. p \in Nat /\ p <= Top.last /\ p \in Here..last
    <3>1. p \in Nat BY <1>3, TopOK
    <3> QED BY <1>3, <2>1, <3>1
  <2>3. p \notin passed /\ Claimants(nodes, p) = {} BY <2>1, <2>2, FreeAhead
  <2>4. Claimants(nodes', p) = {N} BY <1>1, <1>2, <2>2, <2>3, JoinsClaimants
  <2> QED BY <1>1, <2>3, <2>4 DEF Once
<1>7. \A p \in 1..Len(source) : p < Here \/ last + 1 <= p =>
        Claimants(nodes', p) = Claimants(nodes, p) /\ (p \in passed' <=> p \in passed)
  <2>1. SUFFICES ASSUME NEW p \in 1..Len(source), p < Here \/ last + 1 <= p
                 PROVE  Claimants(nodes', p) = Claimants(nodes, p) /\ (p \in passed' <=> p \in passed)
    OBVIOUS
  <2>2. p \notin Here..last BY <1>3, <2>1
  <2> QED BY <1>1, <1>2, <2>2, JoinsClaimants
<1> QED BY <1>1, <1>3, <1>4, <1>5, <1>6, <1>7, BooksForward

\* Passing over a line accounts for it.
LEMMA PassBooks ==
  ASSUME IInv, Ledger, InLine, NEW c \in Nat, stack' = Forwarded(stack, Here + 1, c),
         passed' = passed \cup {Here}, UNCHANGED nodes, Goes
  PROVE  Ledger'
<1>1. Here + 1 \in Nat /\ Here <= Here + 1 /\ Here + 1 <= Top.last + 1 /\ Here \in Nat
      /\ Here <= Top.last
  BY TopOK, HereOK
<1>2. Here' = Here + 1 /\ source' = source BY <1>1, MovedOK DEF Goes
<1>3. \A p : Claimants(nodes', p) = Claimants(nodes, p) BY SameClaimants
<1>4. Claimants(nodes, Here) = {} BY <1>1, FreeAhead
<1>5. \A p \in 1..Len(source) : Here <= p /\ p < Here + 1 => Once(p)'
  <2>1. SUFFICES ASSUME NEW p \in 1..Len(source), Here <= p, p < Here + 1
                 PROVE  Once(p)'
    OBVIOUS
  <2>2. p = Here BY <1>1, <2>1
  <2>3. p \in passed' BY <2>2
  <2>4. Claimants(nodes, p) = {} BY <1>4, <2>2
  <2>5. Claimants(nodes', p) = {} BY <1>3, <2>4
  <2> QED BY <2>3, <2>5 DEF Once
<1>6. \A p \in 1..Len(source) : p < Here \/ Here + 1 <= p =>
        Claimants(nodes', p) = Claimants(nodes, p) /\ (p \in passed' <=> p \in passed)
  <2>1. SUFFICES ASSUME NEW p \in 1..Len(source), p < Here \/ Here + 1 <= p
                 PROVE  Claimants(nodes', p) = Claimants(nodes, p) /\ (p \in passed' <=> p \in passed)
    OBVIOUS
  <2>2. p # Here BY <1>1, <2>1
  <2> QED BY <1>3, <2>2
<1> QED BY <1>1, <1>2, <1>5, <1>6, BooksForward

\* Entering a block accounts for its opener, its attributes and its close tag.
LEMMA EnterBooks == IInv /\ Ledger /\ EnterBlock => Ledger'
<1> SUFFICES ASSUME IInv, Ledger, EnterBlock PROVE Ledger' OBVIOUS
<1> DEFINE close == CloseLine
           body  == BodyStart(source, Line.name, Here + 1, close)
           g     == Frame(Line.name, Here, body, close - 1, Index(Here) + 1)
           N     == Node(Line.name, Here, body, close)
           under == Forwarded(stack, close + 1, Top.clause)
<1>1. /\ InLine /\ close # 0 /\ Line.name \in RECURSIVE_BODY_DIRECTIVES
      /\ nodes' = nodes \cup {N} /\ passed' = passed /\ source' = source
      /\ stack' = Append([stack EXCEPT ![Len(stack)].pos = close + 1], g)
  BY DEF EnterBlock, Collected, Opening, InClause, Emit, Goes
<1>2. /\ Here \in Nat /\ Top.last \in Nat /\ Len(source) \in Nat /\ Here + 1 \in Nat
      /\ Top.clause \in Nat /\ Len(stack) \in Nat /\ Len(stack) >= 1
      /\ stack[Len(stack)] = Top /\ Top.last <= Len(source) /\ Here >= 1
  BY <1>1, TopOK, HereOK DEF Top
<1>3. close \in Here + 1 .. Top.last /\ source[close] = Close(Line.name)
  BY <1>1, <1>2, CloseLineInSlice
<1>4. body \in Here + 1 .. close BY <1>2, <1>3, BodyInBlock
<1>5. Claimed(N) = (Here .. body - 1) \cup {close}
  BY <1>1 DEF Claimed, IsBlock, Node
<1>6. N.at = Here /\ N.upto = close BY DEF Node
<1>7. g.last = close - 1 /\ g.opener = Here /\ g.pos = body BY DEF Frame
<1> HIDE DEF close, body, N, g
<1>8. close + 1 \in Nat /\ [stack EXCEPT ![Len(stack)].pos = close + 1] = under
  BY <1>2, <1>3, MoveToForwards
<1>9. /\ under \in Seq(FrameType) /\ Len(under) = Len(stack)
      /\ \A f \in 1..Len(stack) :
           under[f].last = stack[f].last /\ under[f].opener = stack[f].opener
  <2>1. stack \in Seq(FrameType) /\ Len(stack) \in 1..Len(stack)
    BY <1>2 DEF IInv, FramesOK
  <2>2. At(Top, close + 1, Top.clause) \in FrameType
        /\ At(Top, close + 1, Top.clause).last = Top.last
        /\ At(Top, close + 1, Top.clause).opener = Top.opener
    BY <1>2, <1>8, TopOK DEF At, FrameType
  <2> DEFINE a == At(Top, close + 1, Top.clause)
  <2>3. under = [stack EXCEPT ![Len(stack)] = a] BY <1>2 DEF Forwarded
  <2>4. a \in FrameType /\ a.last = Top.last /\ a.opener = Top.opener BY <2>2
  <2> HIDE DEF a
  <2>5. under \in Seq(FrameType) /\ Len(under) = Len(stack)
        /\ \A f \in 1..Len(stack) : under[f] = IF f = Len(stack) THEN a ELSE stack[f]
    BY <2>1, <2>3, <2>4
  <2> QED BY <1>2, <2>4, <2>5
<1> HIDE DEF under
<1>10. /\ Len(stack') = Len(stack) + 1 /\ stack'[Len(stack) + 1] = g
       /\ \A f \in 1..Len(stack) :
            stack'[f].last = stack[f].last /\ stack'[f].opener = stack[f].opener
  <2>1. stack' = Append(under, g) BY <1>1, <1>8
  <2>2. Len(stack') = Len(stack) + 1 /\ stack'[Len(stack) + 1] = g
        /\ \A f \in 1..Len(stack) : stack'[f] = under[f]
    BY <1>2, <1>9, <2>1
  <2> QED BY <1>9, <2>2
<1>11. Here' = body BY <1>7, <1>10 DEF Here, Top
<1>12. \A f \in 1..Len(stack) : stack[f].last \in Nat /\ Top.last <= stack[f].last
  <2>1. TAKE f \in 1..Len(stack)
  <2>2. stack[f].last \in Nat BY EachFrame
  <2>3. CASE f = Len(stack) BY <1>2, <2>2, <2>3
  <2>4. CASE f < Len(stack)
    <3>1. Len(stack) \in 1..Len(stack) BY <1>2
    <3>2. stack[Len(stack)].last < stack[f].last BY <2>4, <3>1 DEF Ledger
    <3> QED BY <1>2, <2>2, <3>2
  <2> QED BY <1>2, <2>2, <2>3, <2>4
<1>13. \A f \in 2..Len(stack) : f \in 1..Len(stack) /\ ClosesAt(stack'[f]) = ClosesAt(stack[f])
                                /\ ClosesAt(stack[f]) > close
  <2>1. TAKE f \in 2..Len(stack)
  <2>2. f \in 1..Len(stack) BY <1>2
  <2> QED BY <1>2, <1>3, <1>10, <1>12, <2>2 DEF ClosesAt
<1>14. ClosesAt(stack'[Len(stack) + 1]) = close
  BY <1>2, <1>3, <1>7, <1>10 DEF ClosesAt
<1>15. ASSUME NEW p \in 1..Len(source), p < body PROVE Once(p)'
  <2>1. CASE p < Here
    <3>1. p \notin Claimed(N) BY <1>2, <1>3, <1>4, <1>5, <2>1
    <3>2. Claimants(nodes', p) = Claimants(nodes, p) BY <1>1, <3>1, JoinsClaimants
    <3>3. Once(p) BY <2>1 DEF Ledger
    <3> QED BY <1>1, <3>2, <3>3 DEF Once
  <2>2. CASE Here <= p
    <3>1. p \in Claimed(N) /\ p <= Top.last /\ p \in Nat
      BY <1>2, <1>3, <1>4, <1>5, <1>15, <2>2
    <3>2. p \notin passed /\ Claimants(nodes, p) = {} BY <2>2, <3>1, FreeAhead
    <3>3. Claimants(nodes', p) = {N} BY <1>1, <3>1, <3>2, JoinsClaimants
    <3> QED BY <1>1, <3>2, <3>3 DEF Once
  <2> QED BY <1>2, <2>1, <2>2
<1>16. Claimants(nodes, close) = {} /\ close \notin passed /\ Claimants(nodes', close) = {N}
  <2>1. close \in Nat /\ Here <= close /\ close <= Top.last /\ close \in Claimed(N)
    BY <1>2, <1>3, <1>5
  <2>2. Claimants(nodes, close) = {} /\ close \notin passed BY <2>1, FreeAhead
  <2>3. Claimants(nodes', close) = Claimants(nodes, close) \cup {N}
    BY <1>1, <2>1 DEF Claimants
  <2> QED BY <2>2, <2>3
<1>17. ASSUME NEW p \in 1..Len(source), p >= body
       PROVE  /\ p \notin passed'
              /\ \A n \in Claimants(nodes', p) :
                   \E f \in 2..Len(stack') :
                     p = n.upto /\ p = ClosesAt(stack'[f]) /\ n.at = stack'[f].opener
  <2>1. p >= Here BY <1>2, <1>3, <1>4, <1>17
  <2>2. /\ p \notin passed
        /\ \A n \in Claimants(nodes, p) :
             \E f \in 2..Len(stack) :
               p = n.upto /\ p = ClosesAt(stack[f]) /\ n.at = stack[f].opener
    BY <2>1 DEF Ledger
  <2>3. CASE p = close
    <3>1. Claimants(nodes', p) = {N}
      <4>1. p \in Claimed(N) BY <1>5, <2>3
      <4>2. Claimants(nodes, p) = {} BY <1>16, <2>3
      <4> QED BY <1>1, <4>1, <4>2, JoinsClaimants
    <3>2. Len(stack) + 1 \in 2..Len(stack') BY <1>2, <1>10
    <3>3. stack'[Len(stack) + 1].opener = N.at BY <1>6, <1>7, <1>10
    <3> QED BY <1>1, <1>6, <1>14, <2>2, <2>3, <3>1, <3>2, <3>3
  <2>4. CASE p # close
    <3>1. p \notin Claimed(N) BY <1>2, <1>3, <1>4, <1>5, <1>17, <2>4
    <3>2. Claimants(nodes', p) = Claimants(nodes, p) BY <1>1, <3>1, JoinsClaimants
    <3>3. 2..Len(stack) \subseteq 2..Len(stack') BY <1>2, <1>10
    <3>4. \A f \in 2..Len(stack) : /\ ClosesAt(stack'[f]) = ClosesAt(stack[f])
                                  /\ stack'[f].opener = stack[f].opener
      BY <1>10, <1>13
    <3>5. p \notin passed' BY <1>1, <2>2
    <3>6. ASSUME NEW n \in Claimants(nodes', p)
          PROVE  \E f \in 2..Len(stack') :
                   p = n.upto /\ p = ClosesAt(stack'[f]) /\ n.at = stack'[f].opener
      <4>1. PICK f \in 2..Len(stack) :
              p = n.upto /\ p = ClosesAt(stack[f]) /\ n.at = stack[f].opener
        BY <2>2, <3>2
      <4> QED BY <3>3, <3>4, <4>1
    <3> QED BY <3>5, <3>6
  <2> QED BY <2>3, <2>4
<1>18. ASSUME NEW f \in 2..Len(stack')
       PROVE  \E n \in nodes' : Claimants(nodes', ClosesAt(stack'[f])) = {n}
  <2>1. CASE f = Len(stack) + 1
    <3>1. ClosesAt(stack'[f]) = close BY <1>14, <2>1
    <3> QED BY <1>1, <1>16, <3>1
  <2>2. CASE f # Len(stack) + 1
    <3>1. f \in 2..Len(stack) BY <1>2, <1>10, <2>2
    <3>2. PICK n \in nodes : Claimants(nodes, ClosesAt(stack[f])) = {n} BY <3>1 DEF Ledger
    <3>3. ClosesAt(stack'[f]) = ClosesAt(stack[f]) /\ ClosesAt(stack[f]) > close BY <1>13, <3>1
    <3>4. ClosesAt(stack[f]) \notin Claimed(N) BY <1>2, <1>3, <1>4, <1>5, <1>12, <3>1, <3>3 DEF ClosesAt
    <3>5. Claimants(nodes', ClosesAt(stack[f])) = Claimants(nodes, ClosesAt(stack[f]))
      BY <1>1, <3>4 DEF Claimants
    <3>6. Claimants(nodes', ClosesAt(stack'[f])) = Claimants(nodes, ClosesAt(stack[f]))
      BY <3>3, <3>5
    <3> QED BY <1>1, <3>2, <3>6
  <2> QED BY <2>1, <2>2
<1>19. \A f, h \in 1..Len(stack') : f < h => stack'[h].last < stack'[f].last
  <2>1. TAKE f, h \in 1..Len(stack')
  <2>2. HAVE f < h
  <2>3. f \in 1..Len(stack) BY <1>2, <1>10, <2>2
  <2>4. CASE h = Len(stack) + 1
    <3>1. stack'[h].last = close - 1
      BY <1>7, <1>10, <2>4
    <3>2. /\ stack'[f].last = stack[f].last /\ stack[f].last \in Nat
          /\ Top.last <= stack[f].last
      BY <1>10, <1>12, <2>3
    <3>3. close \in Nat /\ close <= Top.last
      BY <1>2, <1>3
    <3>4. \A c, t, l \in Nat : c <= t /\ t <= l => c - 1 < l
      OBVIOUS
    <3> QED BY <1>2, <3>1, <3>2, <3>3, <3>4
  <2>5. CASE h # Len(stack) + 1
    <3>1. h \in 1..Len(stack) BY <1>2, <1>10, <2>5
    <3> QED BY <1>10, <2>2, <2>3, <3>1 DEF Ledger
  <2> QED BY <2>4, <2>5
<1> QED BY <1>1, <1>11, <1>15, <1>17, <1>18, <1>19 DEF Ledger

\* Leaving a block puts its close tag behind the cursor.
LEMMA LeaveBooks == IInv /\ Ledger /\ LeaveBlock => Ledger'
<1> SUFFICES ASSUME IInv, Ledger, LeaveBlock PROVE Ledger' OBVIOUS
<1>1. /\ stack' = SubSeq(stack, 1, Len(stack) - 1) /\ Len(stack) > 1
      /\ UNCHANGED <<nodes, passed, source>> /\ Top.pos > Top.last
  BY DEF LeaveBlock, Goes
<1>2. /\ stack \in Seq(FrameType) /\ Len(stack) \in Nat /\ Len(stack) \in 2..Len(stack)
      /\ Here \in Nat /\ Top.last \in Nat /\ stack[Len(stack)] = Top
      /\ FrameIn(Top, Len(source)) /\ Len(source) \in Nat
  BY <1>1, TopOK DEF IInv, FramesOK, Top
<1>3. /\ Len(stack') = Len(stack) - 1
      /\ \A f \in 1..Len(stack) - 1 : stack'[f] = stack[f]
  BY <1>1, <1>2
<1>4. Here = Top.last + 1 BY <1>1, <1>2 DEF FrameIn, Here
<1>5. Here' = Here + 1
  <2>1. FramesOK(stack, Len(source)) BY DEF IInv
  <2>2. Here' = Top.last + 2
    BY <1>1, <1>2, <2>1, LeftOK DEF Here, Top
  <2> QED BY <1>2, <1>4, <2>2
<1>6. ClosesAt(stack[Len(stack)]) = Here BY <1>2, <1>4 DEF ClosesAt
<1>7. \A p : Claimants(nodes', p) = Claimants(nodes, p) BY <1>1, SameClaimants
<1>8. ASSUME NEW p \in 1..Len(source), p < Here' PROVE Once(p)'
  <2>1. Once(p)
    <3>1. CASE p < Here BY <3>1 DEF Ledger
    <3>2. CASE p = Here
      <4>1. \E n \in nodes : Claimants(nodes, Here) = {n}
        BY <1>2, <1>6 DEF Ledger
      <4>2. p \notin passed BY <1>2, <3>2 DEF Ledger
      <4> QED BY <3>2, <4>1, <4>2 DEF Once
    <3> QED BY <1>2, <1>5, <1>8, <3>1, <3>2
  <2> QED BY <1>1, <1>7, <2>1 DEF Once
<1>9. ASSUME NEW p \in 1..Len(source), p >= Here'
      PROVE  /\ p \notin passed'
             /\ \A n \in Claimants(nodes', p) :
                  \E f \in 2..Len(stack') :
                    p = n.upto /\ p = ClosesAt(stack'[f]) /\ n.at = stack'[f].opener
  <2>1. p >= Here /\ p # Here BY <1>2, <1>5, <1>9
  <2>2. p \notin passed BY <2>1 DEF Ledger
  <2>3. ASSUME NEW n \in Claimants(nodes, p)
        PROVE  \E f \in 2..Len(stack') :
                 p = n.upto /\ p = ClosesAt(stack'[f]) /\ n.at = stack'[f].opener
    <3>1. PICK f \in 2..Len(stack) :
            p = n.upto /\ p = ClosesAt(stack[f]) /\ n.at = stack[f].opener
      BY <2>1 DEF Ledger
    <3>2. f # Len(stack) BY <1>6, <2>1, <3>1
    <3>3. f \in 2..Len(stack') /\ f \in 1..Len(stack) - 1 BY <1>2, <1>3, <3>2
    <3>4. stack'[f] = stack[f] BY <1>3, <3>3
    <3> QED BY <3>1, <3>3, <3>4 DEF ClosesAt
  <2> QED BY <1>1, <1>7, <2>2, <2>3
<1>10. ASSUME NEW f \in 2..Len(stack')
       PROVE  \E n \in nodes' : Claimants(nodes', ClosesAt(stack'[f])) = {n}
  <2>1. f \in 2..Len(stack) /\ f \in 1..Len(stack) - 1 BY <1>2, <1>3
  <2>2. stack'[f] = stack[f] BY <1>3, <2>1
  <2>3. ClosesAt(stack'[f]) = ClosesAt(stack[f]) BY <2>2 DEF ClosesAt
  <2>4. Claimants(nodes', ClosesAt(stack'[f])) = Claimants(nodes, ClosesAt(stack[f]))
    BY <1>1, <2>3
  <2>5. PICK n \in nodes : Claimants(nodes, ClosesAt(stack[f])) = {n}
    BY <2>1 DEF Ledger
  <2> QED BY <1>1, <2>4, <2>5
<1>11. \A f, h \in 1..Len(stack') : f < h => stack'[h].last < stack'[f].last
  <2>1. TAKE f, h \in 1..Len(stack')
  <2>2. f \in 1..Len(stack) /\ h \in 1..Len(stack) /\ stack'[f] = stack[f] /\ stack'[h] = stack[h]
    BY <1>2, <1>3
  <2> QED BY <2>2 DEF Ledger
<1> QED BY <1>1, <1>8, <1>9, <1>10, <1>11 DEF Ledger

\* A step that only ends the parse leaves the books alone.
LEMMA SameBooks ==
  ASSUME Ledger, UNCHANGED <<source, stack, nodes, passed>>
  PROVE  Ledger'
<1>1. stack' = stack /\ nodes' = nodes /\ passed' = passed /\ source' = source OBVIOUS
<1>2. Here' = Here BY <1>1 DEF Here, Top
<1>3. ASSUME NEW p \in 1..Len(source), p < Here PROVE Once(p)'
  <2>1. Once(p) BY <1>3 DEF Ledger
  <2> QED BY <1>1, <2>1 DEF Once
<1>4. ASSUME NEW p \in 1..Len(source), p >= Here
      PROVE  /\ p \notin passed'
             /\ \A n \in Claimants(nodes', p) :
                  \E f \in 2..Len(stack') :
                    p = n.upto /\ p = ClosesAt(stack'[f]) /\ n.at = stack'[f].opener
  BY <1>1, <1>4 DEF Ledger
<1>5. \A f \in 2..Len(stack') :
        \E n \in nodes' : Claimants(nodes', ClosesAt(stack'[f])) = {n}
  BY <1>1 DEF Ledger
<1>6. \A f, g \in 1..Len(stack') : f < g => stack'[g].last < stack'[f].last
  BY <1>1 DEF Ledger
<1> QED BY <1>1, <1>2, <1>3, <1>4, <1>5, <1>6 DEF Ledger

LEMMA CodeFenceBooks == IInv /\ Ledger /\ CodeFence => Ledger'
<1> SUFFICES ASSUME IInv, Ledger, CodeFence PROVE Ledger' OBVIOUS
<1> DEFINE ends == {i \in Here + 1 .. Top.last : source[i].k \in Fences}
           last == IF ends = {} THEN Top.last ELSE Min(ends)
<1>1. InLine /\ Emit(Leaf("code", last)) /\ MoveTo(last + 1) /\ Goes
  BY DEF CodeFence, InClause
<1>2. Here \in Nat /\ Top.last \in Nat /\ Here <= Top.last BY <1>1, TopOK, HereOK
<1>3. ends \in SUBSET Nat /\ ends \subseteq Here + 1 .. Top.last BY <1>2
<1>4. ends # {} => Min(ends) \in ends
  <2> HIDE DEF ends
  <2> QED BY <1>3, MinOf
<1>5. last \in Nat /\ Here <= last /\ last <= Top.last BY <1>2, <1>3, <1>4
<1> HIDE DEF last
<1>6. "code" \notin RECURSIVE_BODY_DIRECTIVES BY DEF RECURSIVE_BODY_DIRECTIVES
<1> QED BY <1>1, <1>5, <1>6, LeafBooks

LEMMA GraphFenceBooks == IInv /\ Ledger /\ GraphFence => Ledger'
<1> SUFFICES ASSUME IInv, Ledger, GraphFence PROVE Ledger' OBVIOUS
<1>1. /\ InLine /\ GraphEnds # {} /\ Emit(Leaf("graph", Min(GraphEnds)))
      /\ MoveTo(Min(GraphEnds) + 1) /\ Goes
  BY DEF GraphFence, InClause
<1>2. Here \in Nat /\ Top.last \in Nat BY TopOK
<1>3. GraphEnds \in SUBSET Nat /\ GraphEnds \subseteq Here + 1 .. Top.last
  BY <1>2 DEF GraphEnds
<1>4. Min(GraphEnds) \in GraphEnds BY <1>1, <1>3, MinOf
<1>5. \A p \in GraphEnds : p \in Nat /\ Here <= p /\ p <= Top.last
  <2>1. TAKE p \in GraphEnds
  <2>2. p \in Here + 1 .. Top.last BY <1>3
  <2> QED BY <1>2, <2>2
<1>6. Min(GraphEnds) \in Nat /\ Here <= Min(GraphEnds) /\ Min(GraphEnds) <= Top.last
  BY <1>4, <1>5, Zenon
<1>7. "graph" \notin RECURSIVE_BODY_DIRECTIVES BY DEF RECURSIVE_BODY_DIRECTIVES
<1> QED BY <1>1, <1>6, <1>7, LeafBooks

LEMMA WholeBlockBooks ==
  ASSUME IInv, Ledger, Collected, NEW kind, kind \notin RECURSIVE_BODY_DIRECTIVES,
         Emit(Leaf(kind, CloseLine)), MoveTo(CloseLine + 1), Goes
  PROVE  Ledger'
<1>1. InLine /\ CloseLine # 0 BY DEF Collected, Opening, InClause
<1>2. Here \in Nat /\ Top.last \in Nat BY TopOK
<1>3. CloseLine \in Here + 1 .. Top.last BY <1>1, <1>2, CloseLineInSlice
<1>4. CloseLine \in Nat /\ Here <= CloseLine /\ CloseLine <= Top.last BY <1>2, <1>3
<1> QED BY <1>1, <1>4, LeafBooks

LEMMA ClauseBooks == IInv /\ Ledger /\ (Clause \/ BeforeFirstCase) => Ledger'
<1> SUFFICES ASSUME IInv, Ledger, Clause \/ BeforeFirstCase PROVE Ledger' OBVIOUS
<1>1. /\ InLine /\ passed' = passed \cup {Here} /\ UNCHANGED nodes /\ Goes
  BY DEF Clause, BeforeFirstCase
<1>2. Top \in FrameType /\ Here \in Nat /\ Top.clause \in Nat
      /\ stack \in Seq(FrameType) /\ Len(stack) \in DOMAIN stack
  BY TopOK DEF IInv, FramesOK
<1>3. CASE Clause
  <2>1. stack' = [stack EXCEPT ![Len(stack)].pos = @ + 1, ![Len(stack)].clause = @ + 1]
    BY <1>3 DEF Clause
  <2>2. [Top EXCEPT !.pos = Here + 1, !.clause = Top.clause + 1]
          = At(Top, Here + 1, Top.clause + 1)
    BY DEF At
  <2>3. stack' = Forwarded(stack, Here + 1, Top.clause + 1)
    BY <1>2, <2>1, <2>2 DEF Forwarded, Top, Here
  <2>4. Top.clause + 1 \in Nat BY <1>2
  <2> QED BY <1>1, <2>3, <2>4, PassBooks
<1>4. CASE BeforeFirstCase
  <2>1. MoveTo(Here + 1) /\ Here + 1 \in Nat BY <1>2, <1>4 DEF BeforeFirstCase
  <2>2. stack' = Forwarded(stack, Here + 1, Top.clause)
    BY <2>1, MoveToForwards DEF MoveTo
  <2> QED BY <1>1, <1>2, <2>2, PassBooks
<1> QED BY <1>3, <1>4

LEMMA SingleBooks == IInv /\ Ledger /\ Single => Ledger'
<1> SUFFICES ASSUME IInv, Ledger, Single PROVE Ledger' OBVIOUS
<1>1. InLine /\ Emit(Leaf("line", Here)) /\ MoveTo(Here + 1) /\ Goes
  BY DEF Single, InClause
<1>2. "line" \notin RECURSIVE_BODY_DIRECTIVES BY DEF RECURSIVE_BODY_DIRECTIVES
<1> QED BY <1>1, <1>2, TopOK, HereOK, LeafBooks

LEMMA StepBooks == IInv /\ Ledger /\ [Next]_vars => Ledger'
<1> SUFFICES ASSUME IInv, Ledger, [Next]_vars PROVE Ledger' OBVIOUS
<1>1. CASE Clause \/ BeforeFirstCase BY <1>1, ClauseBooks
<1>2. CASE Single BY <1>2, SingleBooks
<1>3. CASE CodeFence BY <1>3, CodeFenceBooks
<1>4. CASE GraphFence BY <1>4, GraphFenceBooks
<1>5. CASE UnknownBlock
  <2>1. "unknown" \notin RECURSIVE_BODY_DIRECTIVES BY DEF RECURSIVE_BODY_DIRECTIVES
  <2> QED BY <1>5, <2>1, WholeBlockBooks DEF UnknownBlock
<1>6. CASE RawBlock
  <2>1. "raw" \notin RECURSIVE_BODY_DIRECTIVES BY DEF RECURSIVE_BODY_DIRECTIVES
  <2> QED BY <1>6, <2>1, WholeBlockBooks DEF RawBlock
<1>7. CASE EnterBlock BY <1>7, EnterBooks
<1>8. CASE LeaveBlock BY <1>8, LeaveBooks
<1>9. CASE UNCHANGED <<source, stack, nodes, passed>> BY <1>9, SameBooks
<1>10. UnclosedGraph \/ OldSyntax \/ MisplacedTransition \/ RejectImportedPhase
         \/ OldEndInBlock \/ Unclosed \/ Refused \/ Finish \/ UNCHANGED vars
       => UNCHANGED <<source, stack, nodes, passed>>
  BY DEF UnclosedGraph, OldSyntax, MisplacedTransition, RejectImportedPhase,
         OldEndInBlock, Unclosed, Refused, Finish, Fail, vars
<1> QED
  BY <1>1, <1>2, <1>3, <1>4, <1>5, <1>6, <1>7, <1>8, <1>9, <1>10 DEF Next

LEMMA FirstBooks == Init => Ledger
<1> SUFFICES ASSUME Init PROVE Ledger OBVIOUS
<1>1. IInv BY Initially
<1>2. Len(source) \in Nat /\ Len(stack) = 1 /\ Here = 1
  <2>1. stack = <<Frame("document", 0, 1, Len(source), HeaderAt + 1)>> BY DEF Init
  <2>2. stack[1].pos = 1 /\ Len(stack) = 1 BY <2>1 DEF Frame
  <2> QED BY <1>1, <2>2 DEF IInv, Here, Top
<1>3. \A p : Claimants(nodes, p) = {} BY DEF Init, Claimants
<1> QED BY <1>2, <1>3 DEF Init, Ledger

\* The books are what EachLineOnce says, with the counts worked out.
LEMMA BooksBalance == IInv /\ Ledger => EachLineOnce
<1> SUFFICES ASSUME IInv, Ledger, NEW p \in DOMAIN source
             PROVE  IF p < Here THEN Accounts(p) = 1
                    ELSE /\ p \notin passed
                         /\ \A n \in nodes : p \in Claimed(n) =>
                              p = n.upto /\ n.at \in StillOpen
  BY DEF EachLineOnce
<1>1. p \in 1..Len(source) /\ Here \in Nat BY TopOK DEF IInv
<1>2. CASE p < Here
  <2>1. Once(p) BY <1>1, <1>2 DEF Ledger
  <2>2. CASE p \notin passed /\ \E n \in nodes : Claimants(nodes, p) = {n}
    <3>1. PICK n \in nodes : Claimants(nodes, p) = {n} BY <2>2
    <3>2. Cardinality(Claimants(nodes, p)) = 1 BY <3>1, FS_Singleton
    <3> QED BY <1>2, <2>2, <3>2 DEF Accounts, Claimants
  <2>3. CASE p \in passed /\ Claimants(nodes, p) = {}
    <3>1. Cardinality(Claimants(nodes, p)) = 0 BY <2>3, FS_EmptySet
    <3> QED BY <1>2, <2>3, <3>1 DEF Accounts, Claimants
  <2> QED BY <2>1, <2>2, <2>3 DEF Once
<1>3. CASE ~ (p < Here)
  <2>1. p >= Here BY <1>1, <1>3
  <2>2. p \notin passed BY <1>1, <2>1 DEF Ledger
  <2>3. ASSUME NEW n \in nodes, p \in Claimed(n)
        PROVE  p = n.upto /\ n.at \in StillOpen
    <3>1. n \in Claimants(nodes, p) BY <2>3 DEF Claimants
    <3>2. PICK f \in 2..Len(stack) :
            p = n.upto /\ p = ClosesAt(stack[f]) /\ n.at = stack[f].opener
      BY <1>1, <2>1, <3>1 DEF Ledger
    <3>3. f \in 1..Len(stack) BY TopOK
    <3> QED BY <3>2, <3>3 DEF StillOpen
  <2> QED BY <1>3, <2>2, <2>3
<1> QED BY <1>2, <1>3

\* For all documents, every line the parser has left behind is in one node or
\* was passed over once, and a line ahead is free but for the close tags of
\* the open blocks: no line is lost and none is read twice (parser.ts:227-337, 551-756).
THEOREM EachLineIsReadOnce == Spec => []EachLineOnce
<1>1. Init => IInv /\ Ledger BY Initially, FirstBooks
<1>2. IInv /\ Ledger /\ [Next]_vars => IInv' /\ Ledger'
  BY EveryStep, Stutter, StepBooks DEF Advanced
<1> QED BY <1>1, <1>2, BooksBalance, PTL DEF Spec
-----------------------------------------------------------------------------
(* What a step does to the frames                                          *)

\* A step inside the running slice: over one line or several, of which it may
\* make a node that is no parsed block.
Walked(q) ==
  /\ InLine /\ q \in Here + 1 .. Top.last + 1
  /\ \E c : stack' = Forwarded(stack, q, c)
  /\ Here' = q /\ source' = source
  /\ \/ nodes' = nodes
     \/ \E kind : kind \notin RECURSIVE_BODY_DIRECTIVES /\ nodes' = nodes \cup {Leaf(kind, q - 1)}

Still == UNCHANGED <<source, stack, nodes, passed>>

LEMMA LeafWalks ==
  ASSUME IInv, InLine, NEW kind, kind \notin RECURSIVE_BODY_DIRECTIVES,
         NEW last \in Nat, Here <= last, last <= Top.last,
         Emit(Leaf(kind, last)), MoveTo(last + 1), Goes
  PROVE  Walked(last + 1)
<1>1. last + 1 \in Nat /\ last + 1 \in Here + 1 .. Top.last + 1 /\ (last + 1) - 1 = last
      /\ Here <= last + 1 /\ last + 1 <= Top.last + 1
  BY TopOK
<1>2. stack' = Forwarded(stack, last + 1, Top.clause)
  BY <1>1, MoveToForwards DEF MoveTo
<1>3. Here' = last + 1
  BY <1>1, <1>2, TopOK, MovedOK
<1>4. nodes' = nodes \cup {Leaf(kind, (last + 1) - 1)}
  BY <1>1 DEF Emit
<1>. QED  BY <1>1, <1>2, <1>3, <1>4 DEF Walked, Goes

LEMMA PassWalks ==
  ASSUME IInv, InLine, NEW c \in Nat, stack' = Forwarded(stack, Here + 1, c),
         UNCHANGED nodes, Goes
  PROVE  Walked(Here + 1)
<1>1. Here + 1 \in Nat /\ Here + 1 \in Here + 1 .. Top.last + 1
      /\ Here <= Here + 1 /\ Here + 1 <= Top.last + 1
  <2>1. Here \in Nat /\ Top.last \in Nat /\ Here <= Top.last
    BY TopOK, HereOK
  <2> QED BY <2>1
<1>2. PICK p \in Nat : p = Here + 1
  BY <1>1
<1>3. Here' = p
  BY <1>1, <1>2, MovedOK
<1>. QED  BY <1>1, <1>2, <1>3 DEF Walked, Goes

LEMMA SingleWalks == IInv /\ Single => Walked(Here + 1)
<1> SUFFICES ASSUME IInv, Single PROVE Walked(Here + 1) OBVIOUS
<1>1. InLine /\ Emit(Leaf("line", Here)) /\ MoveTo(Here + 1) /\ Goes
  BY DEF Single, InClause
<1>2. "line" \notin RECURSIVE_BODY_DIRECTIVES BY DEF RECURSIVE_BODY_DIRECTIVES
<1> QED BY <1>1, <1>2, TopOK, HereOK, LeafWalks

LEMMA ClauseWalks == IInv /\ (Clause \/ BeforeFirstCase) => Walked(Here + 1)
<1> SUFFICES ASSUME IInv, Clause \/ BeforeFirstCase PROVE Walked(Here + 1) OBVIOUS
<1>1. InLine /\ UNCHANGED nodes /\ Goes
  BY DEF Clause, BeforeFirstCase
<1>2. Top \in FrameType /\ Here \in Nat /\ Top.clause \in Nat
      /\ stack \in Seq(FrameType) /\ Len(stack) \in DOMAIN stack
  BY TopOK DEF IInv, FramesOK
<1>3. CASE Clause
  <2>1. stack' = [stack EXCEPT ![Len(stack)].pos = @ + 1, ![Len(stack)].clause = @ + 1]
    BY <1>3 DEF Clause
  <2>2. [Top EXCEPT !.pos = Here + 1, !.clause = Top.clause + 1]
          = At(Top, Here + 1, Top.clause + 1)
    BY DEF At
  <2>3. stack' = Forwarded(stack, Here + 1, Top.clause + 1)
    BY <1>2, <2>1, <2>2 DEF Forwarded, Top, Here
  <2>4. Top.clause + 1 \in Nat BY <1>2
  <2> QED BY <1>1, <2>3, <2>4, PassWalks
<1>4. CASE BeforeFirstCase
  <2>1. MoveTo(Here + 1) /\ Here + 1 \in Nat BY <1>2, <1>4 DEF BeforeFirstCase
  <2>2. stack' = Forwarded(stack, Here + 1, Top.clause)
    BY <2>1, MoveToForwards DEF MoveTo
  <2> QED BY <1>1, <1>2, <2>2, PassWalks
<1> QED BY <1>3, <1>4

LEMMA CodeFenceWalks == IInv /\ CodeFence => \E q : Walked(q)
<1> SUFFICES ASSUME IInv, CodeFence PROVE \E q : Walked(q) OBVIOUS
<1> DEFINE ends == {i \in Here + 1 .. Top.last : source[i].k \in Fences}
           last == IF ends = {} THEN Top.last ELSE Min(ends)
<1>1. InLine /\ Emit(Leaf("code", last)) /\ MoveTo(last + 1) /\ Goes
  BY DEF CodeFence, InClause
<1>2. Here \in Nat /\ Top.last \in Nat /\ Here <= Top.last BY <1>1, TopOK, HereOK
<1>3. ends \in SUBSET Nat /\ ends \subseteq Here + 1 .. Top.last BY <1>2
<1>4. ends # {} => Min(ends) \in ends
  <2> HIDE DEF ends
  <2> QED BY <1>3, MinOf
<1>5. last \in Nat /\ Here <= last /\ last <= Top.last BY <1>2, <1>3, <1>4
<1> HIDE DEF last
<1>6. "code" \notin RECURSIVE_BODY_DIRECTIVES BY DEF RECURSIVE_BODY_DIRECTIVES
<1> QED BY <1>1, <1>5, <1>6, LeafWalks

LEMMA GraphFenceWalks == IInv /\ GraphFence => \E q : Walked(q)
<1> SUFFICES ASSUME IInv, GraphFence PROVE \E q : Walked(q) OBVIOUS
<1>1. /\ InLine /\ GraphEnds # {} /\ Emit(Leaf("graph", Min(GraphEnds)))
      /\ MoveTo(Min(GraphEnds) + 1) /\ Goes
  BY DEF GraphFence, InClause
<1>2. Here \in Nat /\ Top.last \in Nat BY TopOK
<1>3. GraphEnds \in SUBSET Nat /\ GraphEnds \subseteq Here + 1 .. Top.last
  BY <1>2 DEF GraphEnds
<1>4. Min(GraphEnds) \in GraphEnds BY <1>1, <1>3, MinOf
<1>5. \A p \in GraphEnds : p \in Nat /\ Here <= p /\ p <= Top.last
  <2>1. TAKE p \in GraphEnds
  <2>2. p \in Here + 1 .. Top.last BY <1>3
  <2> QED BY <1>2, <2>2
<1>6. Min(GraphEnds) \in Nat /\ Here <= Min(GraphEnds) /\ Min(GraphEnds) <= Top.last
  BY <1>4, <1>5, Zenon
<1>7. "graph" \notin RECURSIVE_BODY_DIRECTIVES BY DEF RECURSIVE_BODY_DIRECTIVES
<1> QED BY <1>1, <1>6, <1>7, LeafWalks

LEMMA WholeBlockWalks ==
  ASSUME IInv, Collected, NEW kind, kind \notin RECURSIVE_BODY_DIRECTIVES,
         Emit(Leaf(kind, CloseLine)), MoveTo(CloseLine + 1), Goes
  PROVE  \E q : Walked(q)
<1>1. InLine /\ CloseLine # 0 BY DEF Collected, Opening, InClause
<1>2. Here \in Nat /\ Top.last \in Nat BY TopOK
<1>3. CloseLine \in Here + 1 .. Top.last BY <1>1, <1>2, CloseLineInSlice
<1>4. CloseLine \in Nat /\ Here <= CloseLine /\ CloseLine <= Top.last BY <1>2, <1>3
<1> QED BY <1>1, <1>4, LeafWalks

\* The steps that end the parse or change nothing.
Ends ==
  \/ UnclosedGraph \/ OldSyntax \/ MisplacedTransition \/ RejectImportedPhase
  \/ OldEndInBlock \/ Unclosed \/ Refused \/ Finish

LEMMA EndsKeep == Ends \/ UNCHANGED vars => Still
BY DEF Ends, UnclosedGraph, OldSyntax, MisplacedTransition, RejectImportedPhase,
       OldEndInBlock, Unclosed, Refused, Finish, Fail, vars, Still

\* Every step goes on in the slice, enters or leaves a block, or changes
\* nothing but the outcome.
LEMMA KindsOfSteps ==
  ASSUME IInv, [Next]_vars
  PROVE  (\E q : Walked(q)) \/ EnterBlock \/ LeaveBlock \/ Still
<1>1. CASE Clause \/ BeforeFirstCase BY <1>1, ClauseWalks
<1>2. CASE Single BY <1>2, SingleWalks
<1>3. CASE CodeFence BY <1>3, CodeFenceWalks
<1>4. CASE GraphFence BY <1>4, GraphFenceWalks
<1>5. CASE UnknownBlock
  <2>1. "unknown" \notin RECURSIVE_BODY_DIRECTIVES BY DEF RECURSIVE_BODY_DIRECTIVES
  <2> QED BY <1>5, <2>1, WholeBlockWalks DEF UnknownBlock
<1>6. CASE RawBlock
  <2>1. "raw" \notin RECURSIVE_BODY_DIRECTIVES BY DEF RECURSIVE_BODY_DIRECTIVES
  <2> QED BY <1>6, <2>1, WholeBlockWalks DEF RawBlock
<1>7. CASE Ends \/ UNCHANGED vars BY <1>7, EndsKeep
<1> QED BY <1>1, <1>2, <1>3, <1>4, <1>5, <1>6, <1>7 DEF Next, Ends

\* Of a frame the cursor and the clause alone change.
Fixed(f) == <<f.block, f.opener, f.first, f.last>>

LEMMA FixedStay ==
  ASSUME IInv, NEW q, NEW c, stack' = Forwarded(stack, q, c)
  PROVE  /\ Len(stack') = Len(stack)
         /\ \A f \in 1..Len(stack) : Fixed(stack'[f]) = Fixed(stack[f])
         /\ \A f \in 1..Len(stack) - 1 : stack'[f] = stack[f]
<1>1. stack \in Seq(FrameType) /\ Len(stack) \in Nat /\ Len(stack) \in 1..Len(stack)
  BY TopOK DEF IInv, FramesOK
<1>2. stack[Len(stack)] \in FrameType BY <1>1
<1> DEFINE a == At(stack[Len(stack)], q, c)
<1>3. Fixed(a) = Fixed(stack[Len(stack)])
  BY <1>2 DEF At, FrameType, Fixed
<1>4. stack' = [stack EXCEPT ![Len(stack)] = a] BY DEF Forwarded
<1> HIDE DEF a
<1>5. Len(stack') = Len(stack) /\ \A f \in 1..Len(stack) :
        stack'[f] = IF f = Len(stack) THEN a ELSE stack[f]
  BY <1>1, <1>4
<1> QED BY <1>1, <1>3, <1>5

\* What EnterBlock does.
Entered(close, body) ==
  /\ Opening /\ Line.name \in RECURSIVE_BODY_DIRECTIVES
  /\ close = CloseLine /\ body = BodyStart(source, Line.name, Here + 1, close)
  /\ close \in Here + 1 .. Top.last /\ body \in Here + 1 .. close
  /\ source[close] = Close(Line.name)
  /\ nodes' = nodes \cup {Node(Line.name, Here, body, close)} /\ source' = source
  /\ Len(stack') = Len(stack) + 1
  /\ \A f \in 1..Len(stack) : Fixed(stack'[f]) = Fixed(stack[f])
  /\ \A f \in 1..Len(stack) - 1 : stack'[f] = stack[f]
  /\ stack'[Len(stack)].pos = close + 1 /\ stack'[Len(stack)].clause = Top.clause
  /\ stack'[Len(stack) + 1] = Frame(Line.name, Here, body, close - 1, Index(Here) + 1)
  /\ Here' = body

LEMMA EnterBlockEnters == IInv /\ EnterBlock => \E close, body : Entered(close, body)
<1> SUFFICES ASSUME IInv, EnterBlock PROVE \E close, body : Entered(close, body) OBVIOUS
<1> DEFINE close == CloseLine
           body  == BodyStart(source, Line.name, Here + 1, close)
           g     == Frame(Line.name, Here, body, close - 1, Index(Here) + 1)
           N     == Node(Line.name, Here, body, close)
           a     == At(Top, close + 1, Top.clause)
           under == Forwarded(stack, close + 1, Top.clause)
<1>1. /\ InLine /\ close # 0 /\ Line.name \in RECURSIVE_BODY_DIRECTIVES
      /\ Opening
      /\ nodes' = nodes \cup {N} /\ source' = source
      /\ stack' = Append([stack EXCEPT ![Len(stack)].pos = close + 1], g)
  BY DEF EnterBlock, Collected, Opening, InClause, Emit, Goes
<1>2. /\ Here \in Nat /\ Top.last \in Nat /\ Len(source) \in Nat /\ Here + 1 \in Nat
      /\ Top.clause \in Nat /\ Len(stack) \in Nat /\ Len(stack) >= 1
      /\ stack[Len(stack)] = Top /\ Top.last <= Len(source) /\ Here >= 1
      /\ Top \in FrameType
  BY <1>1, TopOK, HereOK DEF Top
<1>3. close \in Here + 1 .. Top.last /\ source[close] = Close(Line.name)
  BY <1>1, <1>2, CloseLineInSlice
<1>4. body \in Here + 1 .. close BY <1>2, <1>3, BodyInBlock
<1>5. g.pos = body BY DEF Frame
<1>6. close = CloseLine /\ body = BodyStart(source, Line.name, Here + 1, close)
      /\ g = Frame(Line.name, Here, body, close - 1, Index(Here) + 1)
      /\ N = Node(Line.name, Here, body, close)
  OBVIOUS
<1> HIDE DEF close, body, N, g
<1>7. close + 1 \in Nat /\ [stack EXCEPT ![Len(stack)].pos = close + 1] = under
  BY <1>2, <1>3, MoveToForwards
<1>8. /\ a \in FrameType /\ Fixed(a) = Fixed(Top)
      /\ a.pos = close + 1 /\ a.clause = Top.clause
  BY <1>2, <1>7 DEF At, FrameType, Fixed
<1>9. stack \in Seq(FrameType) /\ Len(stack) \in 1..Len(stack)
  BY <1>2 DEF IInv, FramesOK
<1>10. under = [stack EXCEPT ![Len(stack)] = a] BY <1>2 DEF Forwarded
<1> HIDE DEF a, under
<1>11. under \in Seq(FrameType) /\ Len(under) = Len(stack)
       /\ \A f \in 1..Len(stack) : under[f] = IF f = Len(stack) THEN a ELSE stack[f]
  BY <1>8, <1>9, <1>10
<1>12. stack' = Append(under, g) BY <1>1, <1>7
<1>13. Len(stack') = Len(stack) + 1 /\ stack'[Len(stack) + 1] = g
       /\ \A f \in 1..Len(stack) : stack'[f] = under[f]
  BY <1>2, <1>11, <1>12
<1>14. Here' = body BY <1>5, <1>13 DEF Here, Top
<1>15. \A f \in 1..Len(stack) : Fixed(stack'[f]) = Fixed(stack[f])
  BY <1>2, <1>8, <1>11, <1>13
<1>16. \A f \in 1..Len(stack) - 1 : stack'[f] = stack[f]
  BY <1>2, <1>11, <1>13
<1>17. stack'[Len(stack)].pos = close + 1 /\ stack'[Len(stack)].clause = Top.clause
  BY <1>2, <1>8, <1>11, <1>13
<1>18. Entered(close, body)
  BY <1>1, <1>3, <1>4, <1>6, <1>13, <1>14, <1>15, <1>16, <1>17 DEF Entered
<1> QED BY <1>18

\* What LeaveBlock does.
LEMMA LeaveBlockLeaves ==
  ASSUME IInv, LeaveBlock
  PROVE  /\ Len(stack) \in Nat /\ Len(stack) > 1
         /\ Len(stack') = Len(stack) - 1
         /\ \A f \in 1..Len(stack) - 1 : stack'[f] = stack[f]
         /\ nodes' = nodes /\ source' = source /\ passed' = passed
         /\ Here = Top.last + 1 /\ Here' = Here + 1
         /\ ClosesAt(stack[Len(stack)]) = Here
<1>1. /\ stack' = SubSeq(stack, 1, Len(stack) - 1) /\ Len(stack) > 1
      /\ UNCHANGED <<nodes, passed, source>> /\ Top.pos > Top.last
  BY DEF LeaveBlock, Goes
<1>2. /\ stack \in Seq(FrameType) /\ Len(stack) \in Nat
      /\ Here \in Nat /\ Top.last \in Nat /\ stack[Len(stack)] = Top
      /\ FrameIn(Top, Len(source)) /\ Len(source) \in Nat
  BY <1>1, TopOK DEF IInv, FramesOK, Top
<1>3. /\ Len(stack') = Len(stack) - 1
      /\ \A f \in 1..Len(stack) - 1 : stack'[f] = stack[f]
  BY <1>1, <1>2
<1>4. Here = Top.last + 1 BY <1>1, <1>2 DEF FrameIn, Here
<1>5. Here' = Here + 1
  <2>1. FramesOK(stack, Len(source)) BY DEF IInv
  <2>2. Here' = Top.last + 2
    BY <1>1, <1>2, <2>1, LeftOK DEF Here, Top
  <2> QED BY <1>2, <1>4, <2>2
<1>6. ClosesAt(stack[Len(stack)]) = Here BY <1>2, <1>4 DEF ClosesAt
<1> QED BY <1>1, <1>2, <1>3, <1>4, <1>5, <1>6

LEMMA FixedSays ==
  ASSUME NEW f, NEW g, Fixed(f) = Fixed(g)
  PROVE  /\ f.block = g.block /\ f.opener = g.opener /\ f.first = g.first
         /\ f.last = g.last /\ ClosesAt(f) = ClosesAt(g)
BY DEF Fixed, ClosesAt

-----------------------------------------------------------------------------
(* Where nodes hang                                                        *)

\* b is the node of the block whose body f walks.
NodeOf(b, f) ==
  IsBlock(b) /\ b.at = f.opener /\ b.body = f.first /\ b.upto = ClosesAt(f)

\* Blocks open inside the bodies of those below them; a block that is not
\* behind the cursor is open, and what is open is a node; nodes begin behind
\* the cursor, so that a new node comes to lie around no other.
Hanging ==
  /\ stack[1].opener = 0 /\ stack[1].last = Len(source)
  /\ \A f, g \in 1..Len(stack) : f < g => stack[f].first <= stack[g].opener
  /\ \A f, g \in 1..Len(stack) : f < g => stack[g].last < stack[f].last
  /\ \A f \in 2..Len(stack) : \E b \in nodes : NodeOf(b, stack[f])
  /\ \A b \in nodes : IsBlock(b) => b.upto < Here \/ \E f \in 2..Len(stack) : NodeOf(b, stack[f])
  /\ \A n \in nodes : n.at < Here
  /\ HangsUnderInnermost

\* The blocks around a line.
Around(ns, p) == {b \in ns : IsBlock(b) /\ b.at < p /\ p <= b.upto}

Hangs(ns, n) ==
  /\ \A b \in Around(ns, n.at) : b.body <= n.at /\ n.upto < b.upto
  /\ n.within = IF Around(ns, n.at) = {} THEN 0 ELSE Max({b.at : b \in Around(ns, n.at)})

LEMMA HangsIs == HangsUnderInnermost <=> \A n \in nodes : Hangs(nodes, n)
BY DEF HangsUnderInnermost, Hangs, Around

\* Slices get shorter inwards.
LEMMA InnermostIsShortest ==
  ASSUME IInv, Hanging, NEW f \in 1..Len(stack)
  PROVE  /\ stack[f].last \in Nat /\ Top.last <= stack[f].last
         /\ stack[f].first \in Nat /\ stack[f].opener \in Nat
         /\ stack[f].first <= Here /\ stack[f].opener < Here
         /\ stack[f].opener <= Top.opener
<1>1. /\ Len(stack) \in Nat /\ Len(stack) \in 1..Len(stack) /\ stack[Len(stack)] = Top
      /\ Top.last \in Nat /\ Top.first \in Nat /\ Top.opener \in Nat /\ Here \in Nat
  BY TopOK DEF Top
<1>2. /\ stack[f].last \in Nat /\ stack[f].first \in Nat /\ stack[f].opener \in Nat
      /\ FrameIn(stack[f], Len(source))
  BY EachFrame
<1>3. FrameIn(Top, Len(source))
  BY TopOK
<1>4. CASE f = Len(stack)
  BY <1>1, <1>2, <1>3, <1>4 DEF FrameIn, Here
<1>5. CASE f < Len(stack)
  <2>1. stack[Len(stack)].last < stack[f].last /\ stack[f].first <= stack[Len(stack)].opener
    BY <1>1, <1>5 DEF Hanging
  <2>2. Top.opener < Top.first /\ Top.first <= Here /\ stack[f].opener < stack[f].first
    BY <1>2, <1>3 DEF FrameIn, Here
  <2> QED BY <1>1, <1>2, <2>1, <2>2
<1> QED BY <1>1, <1>4, <1>5

\* The blocks around a line of the running slice are the open ones.
LEMMA AroundHere ==
  ASSUME IInv, Hanging, NEW p \in Nat, Here <= p, p <= Top.last + 1, Here = p
  PROVE  /\ \A b \in Around(nodes, p) : \E f \in 2..Len(stack) : NodeOf(b, stack[f])
         /\ \A f \in 2..Len(stack) : \E b \in Around(nodes, p) : NodeOf(b, stack[f])
<1>1. /\ Len(stack) \in Nat /\ Top.last \in Nat /\ Here \in Nat
  BY TopOK
<1>2. ASSUME NEW b \in Around(nodes, p)
      PROVE  \E f \in 2..Len(stack) : NodeOf(b, stack[f])
  <2>1. b \in nodes /\ IsBlock(b) /\ p <= b.upto
    BY DEF Around
  <2>2. b.upto \in Nat
    BY <2>1 DEF IInv, NodeOK
  <2>3. ~ (b.upto < Here)
    BY <1>1, <2>1, <2>2
  <2> QED BY <2>1, <2>3 DEF Hanging
<1>3. ASSUME NEW f \in 2..Len(stack)
      PROVE  \E b \in Around(nodes, p) : NodeOf(b, stack[f])
  <2>1. PICK b \in nodes : NodeOf(b, stack[f])
    BY DEF Hanging
  <2>2. f \in 1..Len(stack)
    BY <1>1
  <2>3. b.at < p /\ p <= b.upto
    BY <1>1, <2>1, <2>2, InnermostIsShortest DEF NodeOf, ClosesAt
  <2> QED BY <2>1, <2>3 DEF Around, NodeOf
<1> QED BY <1>2, <1>3

\* A new node at the cursor hangs where it should.
LEMMA NewNodeHangs ==
  ASSUME IInv, Hanging, InLine, NEW kind, NEW body, NEW last \in Nat,
         Here <= last, last <= Top.last
  PROVE  Hangs(nodes, Node(kind, Here, body, last))
<1> DEFINE N == Node(kind, Here, body, last)
           A == Around(nodes, Here)
<1>1. N.at = Here /\ N.upto = last /\ N.within = Top.opener
  BY DEF Node
<1>2. /\ Len(stack) \in Nat /\ Len(stack) >= 1 /\ Top.last \in Nat /\ Here \in Nat
      /\ Here <= Top.last /\ stack[Len(stack)] = Top /\ Top.opener \in Nat
      /\ Top.opener < Here /\ Top.opener \in Nat
  BY TopOK, HereOK DEF Top
<1>3. /\ \A b \in A : \E f \in 2..Len(stack) : NodeOf(b, stack[f])
      /\ \A f \in 2..Len(stack) : \E b \in A : NodeOf(b, stack[f])
  BY <1>2, AroundHere
<1>4. ASSUME NEW b \in A
      PROVE  /\ b.body <= Here /\ last < b.upto
             /\ b.at \in 0..Here /\ b.at <= Top.opener
  <2>1. PICK f \in 2..Len(stack) : NodeOf(b, stack[f])
    BY <1>3
  <2>2. f \in 1..Len(stack)
    BY <1>2
  <2> QED BY <1>2, <2>1, <2>2, InnermostIsShortest DEF NodeOf, ClosesAt
<1>5. Top.opener = IF A = {} THEN 0 ELSE Max({b.at : b \in A})
  <2> DEFINE M == {b.at : b \in A}
  <2>1. CASE Len(stack) = 1
    <3>1. A = {}
      BY <1>3, <2>1
    <3> QED BY <1>2, <2>1, <3>1 DEF Hanging
  <2>2. CASE Len(stack) > 1
    <3>1. Len(stack) \in 2..Len(stack)
      BY <1>2, <2>2
    <3>2. PICK b \in A : b.at = Top.opener
      BY <1>2, <1>3, <3>1 DEF NodeOf
    <3>3. M \in SUBSET (0..Here) /\ Top.opener \in M /\ \A m \in M : m <= Top.opener
      BY <1>4, <3>2
    <3>4. A # {}
      BY <3>2
    <3>5. Max(M) = Top.opener
      <4> HIDE DEF M
      <4>1. M # {} /\ M \in SUBSET (0..Here) /\ Here \in Nat
        BY <1>2, <3>3
      <4>2. Max(M) \in M /\ \A k \in M : k <= Max(M)
        BY <4>1, MaxOf
      <4>3. Max(M) \in 0..Here
        BY <4>1, <4>2
      <4>4. Max(M) <= Top.opener /\ Top.opener <= Max(M)
        BY <3>3, <4>2
      <4> QED BY <1>2, <4>3, <4>4
    <3> QED BY <3>4, <3>5
  <2>3. Len(stack) = 1 \/ Len(stack) > 1
    <3>1. Len(stack) \in Nat /\ Len(stack) >= 1
      BY TopOK
    <3>2. \A n \in Nat : n >= 1 => n = 1 \/ n > 1
      OBVIOUS
    <3> QED BY <3>1, <3>2
  <2> QED BY <2>1, <2>2, <2>3, Zenon
<1> HIDE DEF N, A
<1>6. \A b \in A : b.body <= N.at /\ N.upto < b.upto
  BY <1>1, <1>4
<1>7. Hangs(nodes, N)
  BY <1>1, <1>5, <1>6 DEF Hangs, A
<1> QED BY <1>7 DEF N

\* A node at the cursor lies around nobody that was there before.
LEMMA HangingWithOne ==
  ASSUME IInv, Hanging, NEW N, N.at = Here, Hangs(nodes, N), nodes' = nodes \cup {N}
  PROVE  HangsUnderInnermost'
<1>1. Here \in Nat
  BY TopOK
<1>2. \A n \in nodes' : Around(nodes', n.at) = Around(nodes, n.at)
  <2>1. TAKE n \in nodes'
  <2>2. n.at \in Nat /\ n.at <= Here
    BY <1>1 DEF Hanging, IInv, NodeOK
  <2>3. ~ (N.at < n.at)
    BY <1>1, <2>2
  <2> QED BY <2>3 DEF Around
<1>3. \A n \in nodes' : Hangs(nodes, n)
  BY HangsIs DEF Hanging
<1>4. \A n \in nodes' : Hangs(nodes', n)
  BY <1>2, <1>3 DEF Hangs
<1> QED BY <1>4 DEF HangsUnderInnermost, Hangs, Around

LEMMA HangingWithNone ==
  ASSUME Hanging, nodes' = nodes
  PROVE  HangsUnderInnermost'
BY DEF Hanging, HangsUnderInnermost, IsBlock

LEMMA InitHanging == Init => Hanging
<1> SUFFICES ASSUME Init PROVE Hanging OBVIOUS
<1> DEFINE f == Frame("document", 0, 1, Len(source), HeaderAt + 1)
<1>1. Len(source) \in Nat
  BY Initially DEF IInv
<1>2. stack = <<f>> BY DEF Init
<1>3. f.opener = 0 /\ f.last = Len(source)
  BY DEF Frame
<1> HIDE DEF f
<1>4. Len(stack) = 1 /\ stack[1] = f
  BY <1>2
<1>5. nodes = {}
  BY DEF Init
<1> QED BY <1>1, <1>3, <1>4, <1>5 DEF Hanging, HangsUnderInnermost

LEMMA WalkedHanging ==
  ASSUME IInv, Hanging, NEW q, Walked(q)
  PROVE  Hanging'
<1>1. /\ InLine /\ q \in Here + 1 .. Top.last + 1 /\ Here' = q /\ source' = source
      /\ Here \in Nat /\ Top.last \in Nat /\ Len(stack) \in Nat /\ Len(stack) >= 1
      /\ Here <= Top.last
  BY TopOK, HereOK DEF Walked
<1>2. PICK c : stack' = Forwarded(stack, q, c)
  BY DEF Walked
<1>3. /\ Len(stack') = Len(stack)
      /\ \A f \in 1..Len(stack) : Fixed(stack'[f]) = Fixed(stack[f])
  BY <1>2, FixedStay
<1>4. \A f \in 1..Len(stack) :
        /\ stack'[f].opener = stack[f].opener /\ stack'[f].first = stack[f].first
        /\ stack'[f].last = stack[f].last /\ ClosesAt(stack'[f]) = ClosesAt(stack[f])
  BY <1>3, FixedSays
<1>5. \A f \in 2..Len(stack) : f \in 1..Len(stack)
  BY <1>1
<1>6. \A f \in 2..Len(stack) : \A b : NodeOf(b, stack'[f]) <=> NodeOf(b, stack[f])
  BY <1>4, <1>5 DEF NodeOf
<1>7. q - 1 \in Nat /\ Here <= q - 1 /\ q - 1 <= Top.last /\ q \in Nat /\ Here < q
  BY <1>1
<1>8. /\ nodes \subseteq nodes'
      /\ \A b \in nodes' : b \in nodes \/ (~ IsBlock(b) /\ b.at = Here)
  <2>1. ASSUME NEW kind, kind \notin RECURSIVE_BODY_DIRECTIVES,
               nodes' = nodes \cup {Leaf(kind, q - 1)}
        PROVE  \A b \in nodes' : b \in nodes \/ (~ IsBlock(b) /\ b.at = Here)
    <3>1. Leaf(kind, q - 1).kind = kind /\ Leaf(kind, q - 1).at = Here
      BY DEF Leaf, Node
    <3> QED BY <2>1, <3>1 DEF IsBlock
  <2> QED BY <2>1 DEF Walked
<1>9. HangsUnderInnermost'
  <2>1. CASE nodes' = nodes
    BY <2>1, HangingWithNone
  <2>2. ASSUME NEW kind, nodes' = nodes \cup {Leaf(kind, q - 1)}
        PROVE  HangsUnderInnermost'
    <3>1. Hangs(nodes, Leaf(kind, q - 1)) /\ Leaf(kind, q - 1).at = Here
      BY <1>1, <1>7, NewNodeHangs DEF Leaf, Node
    <3> QED BY <2>2, <3>1, HangingWithOne
  <2> QED BY <2>1, <2>2 DEF Walked
<1>10. \A f \in 2..Len(stack') : \E b \in nodes' : NodeOf(b, stack'[f])
  BY <1>3, <1>6, <1>8 DEF Hanging
<1>11. \A b \in nodes' : IsBlock(b) =>
         b.upto < Here' \/ \E f \in 2..Len(stack') : NodeOf(b, stack'[f])
  <2>1. TAKE b \in nodes'
  <2>2. HAVE IsBlock(b)
  <2>3. b \in nodes
    BY <1>8, <2>2
  <2>4. CASE b.upto < Here
    <3>1. b.upto \in Nat
      BY <2>3 DEF IInv, NodeOK
    <3> QED BY <1>1, <1>7, <2>4, <3>1
  <2>5. CASE \E f \in 2..Len(stack) : NodeOf(b, stack[f])
    BY <1>3, <1>6, <2>5
  <2> QED BY <2>2, <2>3, <2>4, <2>5 DEF Hanging
<1>12. \A n \in nodes' : n.at < Here'
  <2>1. TAKE n \in nodes'
  <2>2. CASE n \in nodes
    <3>1. n.at < Here /\ n.at \in Nat
      BY <2>2 DEF Hanging, IInv, NodeOK
    <3> QED BY <1>1, <1>7, <3>1
  <2>3. CASE n.at = Here
    BY <1>1, <1>7, <2>3
  <2> QED BY <1>8, <2>2, <2>3
<1>13. stack'[1].opener = 0 /\ stack'[1].last = Len(source')
  BY <1>1, <1>4 DEF Hanging
<1>14. \A f, g \in 1..Len(stack') :
         f < g => stack'[f].first <= stack'[g].opener /\ stack'[g].last < stack'[f].last
  BY <1>3, <1>4 DEF Hanging
<1> QED BY <1>9, <1>10, <1>11, <1>12, <1>13, <1>14 DEF Hanging

LEMMA EnteredHanging ==
  ASSUME IInv, Hanging, NEW close, NEW body, Entered(close, body)
  PROVE  Hanging'
<1> DEFINE N == Node(Line.name, Here, body, close)
           g == Frame(Line.name, Here, body, close - 1, Index(Here) + 1)
<1>1. /\ InLine /\ Line.name \in RECURSIVE_BODY_DIRECTIVES
      /\ close \in Here + 1 .. Top.last /\ body \in Here + 1 .. close
      /\ nodes' = nodes \cup {N} /\ source' = source
      /\ Len(stack') = Len(stack) + 1
      /\ \A f \in 1..Len(stack) : Fixed(stack'[f]) = Fixed(stack[f])
      /\ stack'[Len(stack) + 1] = g
      /\ Here' = body
  BY DEF Entered, Opening, InClause
<1>2. /\ Here \in Nat /\ Top.last \in Nat /\ Len(stack) \in Nat /\ Len(stack) >= 1
      /\ Here <= Top.last
  BY <1>1, TopOK, HereOK
<1>3. /\ N.at = Here /\ N.upto = close /\ N.body = body /\ IsBlock(N)
      /\ g.opener = Here /\ g.first = body /\ g.last = close - 1
  BY <1>1 DEF Node, Frame, IsBlock
<1>4. Hangs(nodes, N)
  <2>1. close \in Nat /\ Here <= close /\ close <= Top.last
    BY <1>1, <1>2
  <2> QED BY <1>1, <2>1, NewNodeHangs
<1> HIDE DEF N, g
<1>5. HangsUnderInnermost'
  BY <1>1, <1>3, <1>4, HangingWithOne
<1>6. \A f \in 1..Len(stack) :
        /\ stack'[f].opener = stack[f].opener /\ stack'[f].first = stack[f].first
        /\ stack'[f].last = stack[f].last /\ ClosesAt(stack'[f]) = ClosesAt(stack[f])
  BY <1>1, FixedSays
<1>7. \A f \in 2..Len(stack) : f \in 1..Len(stack) /\ f \in 2..Len(stack')
  BY <1>1, <1>2
<1>8. \A f \in 2..Len(stack) : \A b : NodeOf(b, stack'[f]) <=> NodeOf(b, stack[f])
  BY <1>6, <1>7 DEF NodeOf
<1>9. Len(stack) + 1 \in 2..Len(stack') /\ NodeOf(N, stack'[Len(stack) + 1])
  BY <1>1, <1>2, <1>3 DEF NodeOf, ClosesAt
<1>10. \A f \in 2..Len(stack') : \E b \in nodes' : NodeOf(b, stack'[f])
  <2>1. TAKE f \in 2..Len(stack')
  <2>2. CASE f = Len(stack) + 1
    BY <1>1, <1>9, <2>2
  <2>3. CASE f # Len(stack) + 1
    <3>1. f \in 2..Len(stack)
      BY <1>1, <1>2, <2>3
    <3> QED BY <1>1, <1>8, <3>1 DEF Hanging
  <2> QED BY <2>2, <2>3
<1>11. \A b \in nodes' : IsBlock(b) =>
         b.upto < Here' \/ \E f \in 2..Len(stack') : NodeOf(b, stack'[f])
  <2>1. TAKE b \in nodes'
  <2>2. HAVE IsBlock(b)
  <2>3. CASE b = N
    BY <1>9, <2>3
  <2>4. CASE b \in nodes
    <3>1. CASE b.upto < Here
      <4>1. b.upto \in Nat
        BY <2>4 DEF IInv, NodeOK
      <4> QED BY <1>1, <1>2, <3>1, <4>1
    <3>2. CASE \E f \in 2..Len(stack) : NodeOf(b, stack[f])
      BY <1>7, <1>8, <3>2
    <3> QED BY <2>2, <2>4, <3>1, <3>2 DEF Hanging
  <2> QED BY <1>1, <2>3, <2>4
<1>12. \A n \in nodes' : n.at < Here'
  <2>1. TAKE n \in nodes'
  <2>2. CASE n \in nodes
    <3>1. n.at < Here /\ n.at \in Nat
      BY <2>2 DEF Hanging, IInv, NodeOK
    <3> QED BY <1>1, <1>2, <3>1
  <2>3. CASE n = N
    BY <1>1, <1>2, <1>3, <2>3
  <2> QED BY <1>1, <2>2, <2>3
<1>13. stack'[1].opener = 0 /\ stack'[1].last = Len(source')
  BY <1>1, <1>2, <1>6 DEF Hanging
<1>14. \A f \in 1..Len(stack) : stack[f].first \in Nat /\ stack[f].last \in Nat
                                /\ stack[f].first <= Here /\ Top.last <= stack[f].last
  BY InnermostIsShortest
<1>15. ASSUME NEW f \in 1..Len(stack'), NEW h \in 1..Len(stack'), f < h
       PROVE  stack'[f].first <= stack'[h].opener /\ stack'[h].last < stack'[f].last
  <2>1. f \in 1..Len(stack)
    BY <1>1, <1>2, <1>15
  <2>2. CASE h = Len(stack) + 1
    <3>1. stack'[h].opener = Here /\ stack'[h].last = close - 1
      BY <1>1, <1>3, <2>2
    <3>2. /\ stack'[f].first = stack[f].first /\ stack'[f].last = stack[f].last
          /\ stack[f].first <= Here /\ Top.last <= stack[f].last /\ stack[f].last \in Nat
      BY <1>6, <1>14, <2>1
    <3>3. close - 1 < stack[f].last
      BY <1>1, <1>2, <3>2
    <3> QED BY <3>1, <3>2, <3>3
  <2>3. CASE h # Len(stack) + 1
    <3>1. h \in 1..Len(stack)
      BY <1>1, <1>2, <2>3
    <3> QED BY <1>6, <1>15, <2>1, <3>1 DEF Hanging
  <2> QED BY <2>2, <2>3
<1> QED BY <1>5, <1>10, <1>11, <1>12, <1>13, <1>15 DEF Hanging

LEMMA LeftHanging ==
  ASSUME IInv, Hanging, LeaveBlock
  PROVE  Hanging'
<1>1. /\ Len(stack) \in Nat /\ Len(stack) > 1 /\ Len(stack') = Len(stack) - 1
      /\ \A f \in 1..Len(stack) - 1 : stack'[f] = stack[f]
      /\ nodes' = nodes /\ source' = source
      /\ Here' = Here + 1 /\ ClosesAt(stack[Len(stack)]) = Here /\ Here \in Nat
  BY LeaveBlockLeaves, TopOK
<1>2. HangsUnderInnermost'
  BY <1>1, HangingWithNone
<1>3. \A f \in 2..Len(stack') : f \in 2..Len(stack) /\ stack'[f] = stack[f]
  BY <1>1
<1>4. \A f \in 2..Len(stack') : \E b \in nodes' : NodeOf(b, stack'[f])
  BY <1>1, <1>3 DEF Hanging
<1>5. \A b \in nodes' : IsBlock(b) =>
         b.upto < Here' \/ \E f \in 2..Len(stack') : NodeOf(b, stack'[f])
  <2>1. TAKE b \in nodes'
  <2>2. HAVE IsBlock(b)
  <2>3. b \in nodes /\ b.upto \in Nat
    BY <1>1 DEF IInv, NodeOK
  <2>4. CASE b.upto < Here
    BY <1>1, <2>3, <2>4
  <2>5. ASSUME NEW f \in 2..Len(stack), NodeOf(b, stack[f])
        PROVE  b.upto < Here' \/ \E h \in 2..Len(stack') : NodeOf(b, stack'[h])
    <3>1. CASE f = Len(stack)
      BY <1>1, <2>3, <2>5, <3>1 DEF NodeOf
    <3>2. CASE f # Len(stack)
      <4>1. f \in 2..Len(stack')
        BY <1>1, <3>2
      <4> QED BY <1>3, <2>5, <4>1
    <3> QED BY <3>1, <3>2
  <2> QED BY <2>2, <2>3, <2>4, <2>5 DEF Hanging
<1>6. \A n \in nodes' : n.at < Here'
  <2>1. TAKE n \in nodes'
  <2>2. n.at < Here /\ n.at \in Nat
    BY <1>1 DEF Hanging, IInv, NodeOK
  <2> QED BY <1>1, <2>2
<1>7. \A f \in 1..Len(stack') : f \in 1..Len(stack) /\ stack'[f] = stack[f]
  BY <1>1
<1>8. stack'[1].opener = 0 /\ stack'[1].last = Len(source')
  BY <1>1, <1>7 DEF Hanging
<1>9. \A f, g \in 1..Len(stack') :
        f < g => stack'[f].first <= stack'[g].opener /\ stack'[g].last < stack'[f].last
  BY <1>7 DEF Hanging
<1> QED BY <1>2, <1>4, <1>5, <1>6, <1>8, <1>9 DEF Hanging

LEMMA StillHanging ==
  ASSUME Hanging, Still
  PROVE  Hanging'
<1>1. stack' = stack /\ nodes' = nodes /\ source' = source
  BY DEF Still
<1>2. HangsUnderInnermost'
  BY <1>1, HangingWithNone
<1>3. Here' = Here
  BY <1>1 DEF Here, Top
<1>4. /\ stack'[1].opener = 0 /\ stack'[1].last = Len(source')
      /\ \A f, g \in 1..Len(stack') : f < g => stack'[f].first <= stack'[g].opener
      /\ \A f, g \in 1..Len(stack') : f < g => stack'[g].last < stack'[f].last
  BY <1>1 DEF Hanging
<1>5. \A f \in 2..Len(stack') : \E b \in nodes' : NodeOf(b, stack'[f])
  BY <1>1 DEF Hanging
<1>6. \A b \in nodes' : IsBlock(b) =>
        b.upto < Here' \/ \E f \in 2..Len(stack') : NodeOf(b, stack'[f])
  BY <1>1, <1>3 DEF Hanging
<1>7. \A n \in nodes' : n.at < Here'
  BY <1>1, <1>3 DEF Hanging
<1> QED BY <1>2, <1>4, <1>5, <1>6, <1>7 DEF Hanging

LEMMA StepHanging == IInv /\ Hanging /\ [Next]_vars => Hanging'
BY KindsOfSteps, WalkedHanging, EnterBlockEnters, EnteredHanging, LeftHanging, StillHanging

-----------------------------------------------------------------------------
(* Depth                                                                   *)

\* How a line changes the depth of the blocks of a name.
Up(l, name)   == IF Nests(l, name) THEN 1 ELSE 0
Down(l, name) == IF l = Close(name) THEN 1 ELSE 0

Count(Q, a, p) == Cardinality({i \in a..p : i \in Q})

LEMMA CountNext ==
  ASSUME NEW Q, NEW a \in Nat, NEW p \in Nat, a <= p + 1
  PROVE  /\ Count(Q, a, p) \in Nat
         /\ Count(Q, a, p + 1) = Count(Q, a, p) + IF p + 1 \in Q THEN 1 ELSE 0
<1> DEFINE S == {i \in a..p : i \in Q}
           T == {i \in a..p + 1 : i \in Q}
<1>1. IsFiniteSet(a..p)
  BY FS_Interval
<1>2. IsFiniteSet(S) /\ Cardinality(S) \in Nat
  <2>1. S \subseteq a..p
    OBVIOUS
  <2> HIDE DEF S
  <2> QED BY <1>1, <2>1, FS_Subset, FS_CardinalityType
<1>3. p + 1 \notin S
  OBVIOUS
<1>4. CASE p + 1 \in Q
  <2>1. T = S \cup {p + 1}
    BY <1>4
  <2> HIDE DEF S, T
  <2>2. Cardinality(T) = Cardinality(S) + 1
    BY <1>2, <1>3, <2>1, FS_AddElement
  <2> QED BY <1>2, <1>4, <2>2 DEF Count, S, T
<1>5. CASE p + 1 \notin Q
  <2>1. T = S
    BY <1>5
  <2> QED BY <1>2, <1>5, <2>1 DEF Count
<1> QED BY <1>4, <1>5

LEMMA DepthIsCount ==
  ASSUME NEW s, NEW name, NEW a \in Nat, NEW p \in Int
  PROVE  Depth(s, name, a, p) =
           1 + Count({i \in Nat : Nests(s[i], name)}, a, p)
             - Count({i \in Nat : s[i] = Close(name)}, a, p)
<1>1. {i \in a..p : i \in {j \in Nat : Nests(s[j], name)}} = {i \in a..p : Nests(s[i], name)}
  OBVIOUS
<1>2. {i \in a..p : i \in {j \in Nat : s[j] = Close(name)}} = {i \in a..p : s[i] = Close(name)}
  OBVIOUS
<1> QED BY <1>1, <1>2, Zenon DEF Depth, Count

LEMMA DepthNext ==
  ASSUME NEW s, NEW name, NEW a \in Nat, NEW p \in Nat, a <= p + 1
  PROVE  /\ Depth(s, name, a, p) \in Int
         /\ Depth(s, name, a, p + 1) =
              Depth(s, name, a, p) + Up(s[p + 1], name) - Down(s[p + 1], name)
<1> DEFINE O == {i \in Nat : Nests(s[i], name)}
           C == {i \in Nat : s[i] = Close(name)}
<1>1. /\ p + 1 \in O <=> Nests(s[p + 1], name)
      /\ p + 1 \in C <=> s[p + 1] = Close(name)
  OBVIOUS
<1>2. /\ Depth(s, name, a, p) = 1 + Count(O, a, p) - Count(C, a, p)
      /\ Depth(s, name, a, p + 1) = 1 + Count(O, a, p + 1) - Count(C, a, p + 1)
  BY DepthIsCount
<1> HIDE DEF O, C
<1>3. /\ Count(O, a, p) \in Nat /\ Count(C, a, p) \in Nat
      /\ Count(O, a, p + 1) = Count(O, a, p) + IF p + 1 \in O THEN 1 ELSE 0
      /\ Count(C, a, p + 1) = Count(C, a, p) + IF p + 1 \in C THEN 1 ELSE 0
  BY CountNext
<1>4. /\ Up(s[p + 1], name) = IF p + 1 \in O THEN 1 ELSE 0
      /\ Down(s[p + 1], name) = IF p + 1 \in C THEN 1 ELSE 0
  BY <1>1 DEF Up, Down
<1> QED BY <1>2, <1>3, <1>4

LEMMA DepthAtStart ==
  ASSUME NEW s, NEW name, NEW p \in Nat
  PROVE  Depth(s, name, p + 1, p) = 1
<1>1. p + 1..p = {}
  OBVIOUS
<1>2. /\ {i \in p + 1..p : Nests(s[i], name)} = {}
      /\ {i \in p + 1..p : s[i] = Close(name)} = {}
  BY <1>1
<1>3. Cardinality({}) = 0
  BY FS_EmptySet
<1> QED BY <1>2, <1>3 DEF Depth

\* No line raises and lowers the depth, and none does either by more than one.
LEMMA OneLine ==
  ASSUME NEW l, NEW name
  PROVE  /\ Up(l, name) \in {0, 1} /\ Down(l, name) \in {0, 1}
         /\ Down(l, name) = 1 => l = Close(name)
         /\ Nests(l, name) => Up(l, name) = 1 /\ Down(l, name) = 0
<1>1. Nests(l, name) => l # Close(name)
  BY CloseIs DEF Nests
<1> QED BY <1>1 DEF Up, Down

\* Counting from a line on gives what counting from before gives, less what the
\* depth is there.
LEMMA DepthFrom ==
  ASSUME NEW s, NEW name, NEW a \in Nat, NEW b \in Nat, a <= b + 1
  PROVE  \A c \in Nat : b <= c =>
           Depth(s, name, b + 1, c) = 1 + Depth(s, name, a, c) - Depth(s, name, a, b)
<1>1. SUFFICES ASSUME NEW c \in Nat, b <= c
               PROVE  Depth(s, name, b + 1, c) = 1 + Depth(s, name, a, c) - Depth(s, name, a, b)
  OBVIOUS
<1> DEFINE J == {i \in Nat : Depth(s, name, b + 1, i) = 1 + Depth(s, name, a, i) - Depth(s, name, a, b)}
<1>2. b \in J
  <2>1. Depth(s, name, a, b) \in Int
    BY DepthNext
  <2> QED BY <2>1, DepthAtStart
<1>3. ASSUME NEW i \in b..c, i < c, i \in J
      PROVE  i + 1 \in J
  <2>1. i \in Nat /\ a <= i + 1 /\ b + 1 <= i + 1 /\ b + 1 \in Nat
    OBVIOUS
  <2>2. /\ Depth(s, name, a, i) \in Int /\ Depth(s, name, a, b) \in Int
        /\ Depth(s, name, a, i + 1) =
             Depth(s, name, a, i) + Up(s[i + 1], name) - Down(s[i + 1], name)
    BY <2>1, DepthNext
  <2>3. Depth(s, name, b + 1, i + 1) =
          Depth(s, name, b + 1, i) + Up(s[i + 1], name) - Down(s[i + 1], name)
    BY <2>1, DepthNext
  <2>4. Up(s[i + 1], name) \in Int /\ Down(s[i + 1], name) \in Int
    BY OneLine
  <2>5. Depth(s, name, b + 1, i) = 1 + Depth(s, name, a, i) - Depth(s, name, a, b)
    BY <1>3
  <2>6. Depth(s, name, b + 1, i + 1) = 1 + Depth(s, name, a, i + 1) - Depth(s, name, a, b)
    BY <2>2, <2>3, <2>4, <2>5
  <2> QED BY <2>1, <2>6
<1> HIDE DEF J
<1>4. \A i \in b..c : i \in J
  BY <1>2, <1>3, <1>1, HandedFrom
<1>5. c \in J
  BY <1>1, <1>4
<1> QED BY <1>5 DEF J

\* The depth that collectBlock counts is above zero until the close tag.
LEMMA FirstCloser ==
  ASSUME NEW s, NEW name, NEW o \in Nat, NEW last \in Nat,
         Closers(s, name, o + 1, last) # {}
  PROVE  LET c == Min(Closers(s, name, o + 1, last))
         IN /\ c \in o + 1..last /\ s[c] = Close(name) /\ Depth(s, name, o + 1, c) = 0
            /\ \A p \in o..c - 1 : Depth(s, name, o + 1, p) >= 1
<1> DEFINE C == Closers(s, name, o + 1, last)
           c == Min(C)
           J == {i \in Nat : Depth(s, name, o + 1, i) >= 1}
<1>1. C \in SUBSET Nat /\ C # {}
  BY DEF Closers
<1>2. c \in C /\ \A k \in C : c <= k
  <2> HIDE DEF C
  <2> QED BY <1>1, MinOf
<1>3. c \in o + 1..last /\ s[c] = Close(name) /\ Depth(s, name, o + 1, c) = 0
  <2> HIDE DEF c
  <2> QED BY <1>2 DEF Closers
<1>4. \A k \in o + 1..last : s[k] = Close(name) /\ Depth(s, name, o + 1, k) = 0 => c <= k
  <2> HIDE DEF c
  <2> QED BY <1>2 DEF Closers
<1> HIDE DEF c, C
<1>5. o \in J /\ c - 1 \in Nat
  BY <1>3, DepthAtStart
<1>6. ASSUME NEW i \in o..c - 1, i < c - 1, i \in J
      PROVE  i + 1 \in J
  <2>1. i \in Nat /\ o + 1 \in Nat /\ o + 1 <= i + 1 /\ i + 1 \in o + 1..last /\ ~ (c <= i + 1)
    BY <1>3, <1>6
  <2>2. /\ Depth(s, name, o + 1, i) \in Int
        /\ Depth(s, name, o + 1, i + 1) =
             Depth(s, name, o + 1, i) + Up(s[i + 1], name) - Down(s[i + 1], name)
    BY <2>1, DepthNext
  <2>3. Depth(s, name, o + 1, i) >= 1
    BY <1>6
  <2>4. CASE Down(s[i + 1], name) = 1
    <3>1. Depth(s, name, o + 1, i + 1) # 0
      BY <1>4, <2>1, <2>4, OneLine
    <3> QED BY <2>1, <2>2, <2>3, <3>1, OneLine
  <2>5. CASE Down(s[i + 1], name) # 1
    <3>1. Down(s[i + 1], name) = 0 /\ Up(s[i + 1], name) \in {0, 1}
      BY <2>5, OneLine
    <3> QED BY <2>1, <2>2, <2>3, <3>1
  <2> QED BY <2>4, <2>5
<1> HIDE DEF J
<1>7. \A i \in o..c - 1 : i \in J
  BY <1>5, <1>6, HandedFrom
<1>8. \A p \in o..c - 1 : Depth(s, name, o + 1, p) >= 1
  BY <1>7 DEF J
<1> QED BY <1>3, <1>8 DEF c, C

\* In the body of a block every block of the same name finds its close tag.
LEMMA InnerCloses ==
  ASSUME NEW s, NEW name, NEW o \in Nat, NEW last \in Nat, NEW h \in o + 1..last,
         \A p \in o..last : Depth(s, name, o + 1, p) >= 1,
         Depth(s, name, o + 1, last + 1) = 0, Nests(s[h], name)
  PROVE  Closers(s, name, h + 1, last) # {}
<1> SUFFICES ASSUME Closers(s, name, h + 1, last) = {} PROVE FALSE OBVIOUS
<1> DEFINE D(p) == Depth(s, name, o + 1, p)
<1>1. h \in Nat /\ h - 1 \in Nat /\ o + 1 \in Nat /\ o + 1 <= h /\ h - 1 \in o..last /\ h <= last
  OBVIOUS
<1>2. ASSUME NEW p \in Nat, o <= p
      PROVE  D(p) \in Int /\ D(p + 1) = D(p) + Up(s[p + 1], name) - Down(s[p + 1], name)
  <2>1. o + 1 <= p + 1
    BY <1>2
  <2> QED BY <1>1, <2>1, DepthNext
<1>3. \A c \in Nat : h <= c => Depth(s, name, h + 1, c) = 1 + D(c) - D(h)
  BY <1>1, DepthFrom
<1>4. \A p \in o..last : D(p) >= 1
  OBVIOUS
<1>5. D(last + 1) = 0
  OBVIOUS
<1> HIDE DEF D
<1>6. D(h) \in Int /\ D(h) >= 2
  <2>1. D(h - 1) \in Int /\ D((h - 1) + 1) = D(h - 1) + Up(s[(h - 1) + 1], name) - Down(s[(h - 1) + 1], name)
    BY <1>1, <1>2
  <2>2. (h - 1) + 1 = h
    BY <1>1
  <2>3. Up(s[h], name) = 1 /\ Down(s[h], name) = 0
    BY OneLine
  <2>4. D(h) = D(h - 1) + Up(s[h], name) - Down(s[h], name)
    BY <2>1, <2>2
  <2>5. D(h - 1) >= 1
    BY <1>1, <1>4
  <2> QED BY <2>1, <2>3, <2>4, <2>5
<1> DEFINE J == {i \in Nat : D(i) >= D(h)}
<1>7. ASSUME NEW i \in h..last, i < last, i \in J
      PROVE  i + 1 \in J
  <2>1. i \in Nat /\ o <= i /\ i + 1 \in Nat /\ h <= i + 1 /\ i + 1 \in h + 1..last
    BY <1>1, <1>7
  <2>2. D(i) \in Int /\ D(i + 1) = D(i) + Up(s[i + 1], name) - Down(s[i + 1], name)
    BY <1>2, <2>1
  <2>3. D(i) >= D(h)
    BY <1>7
  <2>4. CASE Down(s[i + 1], name) = 1
    <3>1. s[i + 1] = Close(name)
      BY <2>4, OneLine
    <3>2. Depth(s, name, h + 1, i + 1) # 0
      BY <2>1, <3>1 DEF Closers
    <3>3. Depth(s, name, h + 1, i + 1) = 1 + D(i + 1) - D(h)
      BY <1>3, <2>1
    <3>4. Up(s[i + 1], name) \in {0, 1}
      BY OneLine
    <3> QED BY <1>6, <2>1, <2>2, <2>3, <2>4, <3>2, <3>3, <3>4
  <2>5. CASE Down(s[i + 1], name) # 1
    <3>1. Down(s[i + 1], name) = 0 /\ Up(s[i + 1], name) \in {0, 1}
      BY <2>5, OneLine
    <3> QED BY <1>6, <2>1, <2>2, <2>3, <3>1
  <2> QED BY <2>4, <2>5
<1>8. h \in J
  BY <1>1, <1>6
<1> HIDE DEF J
<1>9. \A i \in h..last : i \in J
  BY <1>1, <1>7, <1>8, HandedFrom
<1>10. last \in J
  BY <1>1, <1>9
<1>11. D(last) >= 2 /\ D(last) \in Int
  <2>1. D(last) >= D(h)
    BY <1>10 DEF J
  <2>2. D(last) \in Int
    BY <1>1, <1>2
  <2> QED BY <1>6, <2>1, <2>2
<1>12. D(last + 1) = D(last) + Up(s[last + 1], name) - Down(s[last + 1], name)
  BY <1>1, <1>2
<1>13. Up(s[last + 1], name) \in {0, 1} /\ Down(s[last + 1], name) \in {0, 1}
  BY OneLine
<1> QED BY <1>5, <1>11, <1>12, <1>13

-----------------------------------------------------------------------------
(* Blocks of one name in each other                                        *)

\* What collectBlock counted for a block whose body is being walked.
Searched(s, f) ==
  /\ Depth(s, f.block, f.opener + 1, ClosesAt(f)) = 0
  /\ \A p \in f.opener..f.last : Depth(s, f.block, f.opener + 1, p) >= 1

AllSearched == \A f \in 2..Len(stack) : Searched(source, stack[f])

LEMMA SearchedStays ==
  ASSUME NEW f, NEW g, Fixed(g) = Fixed(f), NEW s, Searched(s, f)
  PROVE  Searched(s, g)
BY FixedSays DEF Searched

LEMMA InitSearched == Init => AllSearched
<1> SUFFICES ASSUME Init PROVE AllSearched OBVIOUS
<1>1. Len(stack) = 1
  BY DEF Init
<1> QED BY <1>1 DEF AllSearched

LEMMA StepSearched == IInv /\ AllSearched /\ [Next]_vars => AllSearched'
<1> SUFFICES ASSUME IInv, AllSearched, [Next]_vars,
                    NEW f \in 2..Len(stack')
             PROVE  Searched(source', stack'[f])
  BY DEF AllSearched
<1>1. Len(stack) \in Nat /\ Len(stack) >= 1 /\ Here \in Nat /\ Top.last \in Nat
  BY TopOK
<1>2. ASSUME f \in 2..Len(stack), Fixed(stack'[f]) = Fixed(stack[f]), source' = source
      PROVE  Searched(source', stack'[f])
  <2>1. Searched(source, stack[f])
    BY <1>2 DEF AllSearched
  <2> QED BY <1>2, <2>1, SearchedStays
<1>3. ASSUME NEW q, Walked(q)
      PROVE  Searched(source', stack'[f])
  <2>1. PICK c : stack' = Forwarded(stack, q, c)
    BY <1>3 DEF Walked
  <2>2. f \in 2..Len(stack) /\ f \in 1..Len(stack) /\ Fixed(stack'[f]) = Fixed(stack[f])
    BY <1>1, <2>1, FixedStay
  <2> QED BY <1>2, <1>3, <2>2 DEF Walked
<1>4. ASSUME NEW close, NEW body, Entered(close, body)
      PROVE  Searched(source', stack'[f])
  <2>1. /\ Len(stack') = Len(stack) + 1 /\ source' = source
        /\ \A h \in 1..Len(stack) : Fixed(stack'[h]) = Fixed(stack[h])
    BY <1>4 DEF Entered
  <2>2. CASE f = Len(stack) + 1
    <3>1. /\ close = CloseLine /\ close \in Here + 1..Top.last
          /\ stack'[f] = Frame(Line.name, Here, body, close - 1, Index(Here) + 1)
      BY <1>4, <2>2 DEF Entered
    <3>2. close # 0 /\ close \in Nat
      BY <1>1, <3>1
    <3>3. /\ Closers(source, Line.name, Here + 1, Top.last) # {}
          /\ close = Min(Closers(source, Line.name, Here + 1, Top.last))
      BY <3>1, <3>2 DEF CloseLine
    <3>4. /\ Depth(source, Line.name, Here + 1, close) = 0
          /\ \A p \in Here..close - 1 : Depth(source, Line.name, Here + 1, p) >= 1
      <4> DEFINE c == Min(Closers(source, Line.name, Here + 1, Top.last))
      <4>1. /\ Depth(source, Line.name, Here + 1, c) = 0
            /\ \A p \in Here..c - 1 : Depth(source, Line.name, Here + 1, p) >= 1
        BY <1>1, <3>3, FirstCloser
      <4>2. close = c
        BY <3>3
      <4> HIDE DEF c
      <4> QED BY <4>1, <4>2
    <3>5. /\ stack'[f].block = Line.name /\ stack'[f].opener = Here
          /\ stack'[f].last = close - 1
      BY <3>1 DEF Frame
    <3>6. ClosesAt(stack'[f]) = close
      BY <3>2, <3>5 DEF ClosesAt
    <3> QED BY <2>1, <3>4, <3>5, <3>6 DEF Searched
  <2>3. CASE f # Len(stack) + 1
    <3>1. f \in 2..Len(stack) /\ f \in 1..Len(stack)
      BY <1>1, <2>1, <2>3
    <3> QED BY <1>2, <2>1, <3>1
  <2> QED BY <2>2, <2>3
<1>5. CASE LeaveBlock
  <2>1. /\ Len(stack') = Len(stack) - 1 /\ source' = source
        /\ \A h \in 1..Len(stack) - 1 : stack'[h] = stack[h]
    BY <1>5, LeaveBlockLeaves
  <2>2. f \in 2..Len(stack) /\ stack'[f] = stack[f]
    BY <1>1, <2>1
  <2> QED BY <1>2, <2>1, <2>2
<1>6. CASE Still
  BY <1>2, <1>6 DEF Still
<1> QED BY <1>3, <1>4, <1>5, <1>6, KindsOfSteps, EnterBlockEnters

\* What a step says of the parse.
Says(why) == \E at, number : outcome' = [is |-> why, at |-> at, number |-> number]

LEMMA FinishParses == IInv /\ Finish => outcome'.is = "parsed"
<1> SUFFICES ASSUME IInv, Finish PROVE outcome'.is = "parsed" OBVIOUS
<1>1. OutcomeOK(outcome) /\ outcome.is = "parsing" BY DEF IInv, Finish, Running
<1>2. outcome' = [outcome EXCEPT !.is = "parsed"] BY DEF Finish
<1> QED BY <1>1, <1>2 DEF OutcomeOK, Outcomes

LEMMA OutcomesOfSteps ==
  ASSUME IInv, Next
  PROVE  /\ outcome.is = "parsing"
         /\ \/ outcome' = outcome
            \/ UnclosedGraph /\ Says("unclosed graph")
            \/ OldSyntax /\ Says("v1 syntax")
            \/ OldEndInBlock /\ Says("v1 syntax")
            \/ MisplacedTransition /\ Says("misplaced")
            \/ RejectImportedPhase /\ Says("phase in import")
            \/ Unclosed /\ Says("unclosed")
            \/ Refused /\ Says("refused")
            \/ Finish /\ outcome'.is = "parsed"
<1>1. outcome.is = "parsing"
  BY DEF Next, Clause, BeforeFirstCase, Single, CodeFence, GraphFence, UnclosedGraph,
         OldSyntax, MisplacedTransition, RejectImportedPhase, OldEndInBlock, Unclosed,
         UnknownBlock, RawBlock, Refused, EnterBlock, LeaveBlock, Finish,
         InClause, InLine, Running, Opening, Collected
<1>2. CASE Clause \/ BeforeFirstCase \/ Single \/ CodeFence \/ GraphFence
           \/ UnknownBlock \/ RawBlock \/ EnterBlock \/ LeaveBlock
  <2>1. outcome' = outcome
    BY <1>2 DEF Clause, BeforeFirstCase, Single, CodeFence, GraphFence,
                UnknownBlock, RawBlock, EnterBlock, LeaveBlock, Goes
  <2> QED BY <1>1, <2>1
<1>3. UnclosedGraph => Says("unclosed graph")
  BY DEF UnclosedGraph, Fail, Says
<1>4. OldSyntax => Says("v1 syntax")
  BY DEF OldSyntax, Fail, Says
<1>5. OldEndInBlock => Says("v1 syntax")
  BY DEF OldEndInBlock, Fail, Says
<1>6. MisplacedTransition => Says("misplaced")
  BY DEF MisplacedTransition, Fail, Says
<1>7. RejectImportedPhase => Says("phase in import")
  BY DEF RejectImportedPhase, Fail, Says
<1>8. Unclosed => Says("unclosed")
  BY DEF Unclosed, Fail, Says
<1>9. Refused => Says("refused")
  BY DEF Refused, Fail, Says
<1>10. Finish => outcome'.is = "parsed"
  BY FinishParses
<1> QED BY <1>1, <1>2, <1>3, <1>4, <1>5, <1>6, <1>7, <1>8, <1>9, <1>10, Zenon DEF Next

LEMMA StepSameName ==
  IInv /\ AllSearched /\ SameNameCloses /\ [Next]_vars => SameNameCloses'
<1> SUFFICES ASSUME IInv, AllSearched, SameNameCloses, [Next]_vars,
                    outcome'.is = "unclosed", Len(stack') > 1,
                    source'[outcome'.at].gap # "("
             PROVE  source'[outcome'.at].name # Top'.block
  BY DEF SameNameCloses
<1>1. CASE Unclosed
  <2>1. /\ Opening /\ CloseLine = 0 /\ outcome'.at = Here
        /\ stack' = stack /\ source' = source
    BY <1>1 DEF Unclosed, Fail
  <2>2. InLine /\ Line.k = "open" /\ ~ Line.self
    BY <2>1 DEF Opening, InClause
  <2>3. /\ Len(stack) \in Nat /\ Len(stack) \in 2..Len(stack) /\ stack[Len(stack)] = Top
        /\ Here \in Nat /\ Top.last \in Nat /\ Top.opener \in Nat
        /\ Here \in Top.opener + 1..Top.last
    BY <2>1, <2>2, TopOK, HereOK DEF Top
  <2>4. Closers(source, Line.name, Here + 1, Top.last) = {}
    <3> DEFINE C == Closers(source, Line.name, Here + 1, Top.last)
    <3>1. C \in SUBSET Nat /\ \A c \in C : c # 0
      BY <2>3 DEF Closers
    <3>2. C # {} => Min(C) \in C
      <4> HIDE DEF C
      <4> QED BY <3>1, MinOf
    <3> QED BY <2>1, <3>1, <3>2 DEF CloseLine
  <2>5. Top' = Top
    BY <2>1 DEF Top
  <2>6. ASSUME Line.name = Top.block
        PROVE  FALSE
    <3>1. Searched(source, Top)
      BY <2>3 DEF AllSearched
    <3>2. Nests(source[Here], Top.block)
      <4>1. source \in Seq(Shapes) /\ Here \in 1..Len(source)
        BY <2>2, HereOK DEF IInv
      <4>2. Line \in Shapes
        BY <4>1 DEF Line
      <4>3. Line.gap # "("
        BY <2>1 DEF Line
      <4>4. Line.gap \in {" ", "/"}
        BY <4>2, <4>3 DEF Shapes
      <4>5. Nests(Line, Top.block)
        BY <2>2, <2>6, <4>4 DEF Nests
      <4> QED BY <4>5 DEF Line
    <3>3. Closers(source, Top.block, Here + 1, Top.last) # {}
      BY <2>3, <3>1, <3>2, InnerCloses DEF Searched, ClosesAt
    <3> QED BY <2>4, <2>6, <3>3
  <2> QED BY <2>1, <2>5, <2>6 DEF Line
<1>2. CASE UNCHANGED vars
  BY <1>2 DEF vars, SameNameCloses, Top
<1>3. CASE Next /\ ~ Unclosed
  <2>1. outcome.is = "parsing"
    BY <1>3, OutcomesOfSteps
  <2>2. CASE outcome' = outcome
    BY <2>1, <2>2
  <2>3. CASE outcome' # outcome
    <3>1. \A why : Says(why) => outcome'.is = why
      BY DEF Says
    <3>2. outcome'.is \in {"unclosed graph", "v1 syntax", "misplaced", "phase in import",
                           "refused", "parsed"}
      BY <1>3, <2>3, <3>1, OutcomesOfSteps
    <3> QED BY <3>2
  <2> QED BY <2>2, <2>3
<1> QED BY <1>1, <1>2, <1>3

-----------------------------------------------------------------------------
(* The bracket matcher                                                     *)

\* What one line does to the unmatched tags.
Turn(s, before, k) ==
  IF s[k].k \notin {"open", "close"} \/ s[k].self THEN before
  ELSE IF /\ s[k].k = "close" /\ before # <<>>
          /\ s[before[Len(before)]].k = "open"
          /\ s[before[Len(before)]].name = s[k].name
       THEN SubSeq(before, 1, Len(before) - 1)
       ELSE Append(before, k)

Turned(f, s, n) == f = [k \in 0..n |-> IF k = 0 THEN <<>> ELSE Turn(s, f[k - 1], k)]

\* The recursion of Unmatched has a solution.
LEMMA TurnedExists ==
  ASSUME NEW s, NEW n \in Nat
  PROVE  \E f : Turned(f, s, n)
<1> DEFINE J == {m \in Nat : \E f : Turned(f, s, m)}
<1>1. \A m \in Nat : m \in J <=> \E f : Turned(f, s, m)
  OBVIOUS
<1> HIDE DEF J
<1>2. 0 \in J
  <2>1. Turned([k \in 0..0 |-> <<>>], s, 0)
    BY DEF Turned
  <2> QED BY <2>1, <1>1
<1>3. ASSUME NEW m \in 0..n, m < n, m \in J
      PROVE  m + 1 \in J
  <2>1. PICK g : Turned(g, s, m)
    BY <1>1, <1>3
  <2> DEFINE h == [k \in 0..m + 1 |-> IF k = 0 THEN <<>> ELSE Turn(s, g[k - 1], k)]
  <2>2. \A k \in 0..m : g[k] = IF k = 0 THEN <<>> ELSE Turn(s, g[k - 1], k)
    BY <2>1, Zenon DEF Turned
  <2>3. \A k \in 0..m + 1 : h[k] = IF k = 0 THEN <<>> ELSE Turn(s, g[k - 1], k)
    BY Zenon
  <2>4. h = [k \in 0..m + 1 |-> h[k]]
    OBVIOUS
  <2> HIDE DEF h
  <2>5. \A k \in 0..m + 1 : h[k] = IF k = 0 THEN <<>> ELSE Turn(s, h[k - 1], k)
    <3>1. TAKE k \in 0..m + 1
    <3>2. CASE k = 0
      BY <2>3, <3>2
    <3>3. CASE k # 0
      <4>1. k - 1 \in 0..m /\ k - 1 \in 0..m + 1
        BY <3>3
      <4>2. h[k - 1] = g[k - 1]
        BY <2>2, <2>3, <4>1
      <4> QED BY <2>3, <3>3, <4>2
    <3> QED BY <3>2, <3>3
  <2>6. Turned(h, s, m + 1)
    BY <2>4, <2>5 DEF Turned
  <2> QED BY <2>6, <1>1
<1>4. \A m \in 0..n : m \in J
  BY <1>2, <1>3, HandedFrom
<1> QED BY <1>1, <1>4

LEMMA UnmatchedTurns ==
  ASSUME Len(source) \in Nat
  PROVE  /\ Unmatched[0] = <<>>
         /\ \A k \in 1..Len(source) : Unmatched[k] = Turn(source, Unmatched[k - 1], k)
<1> DEFINE g == CHOOSE f : Turned(f, source, Len(source))
<1>1. Turned(g, source, Len(source))
  BY TurnedExists
<1>2. Unmatched = g
  BY DEF Unmatched, Turned, Turn
<1> HIDE DEF g
<1>3. \A k \in 0..Len(source) : g[k] = IF k = 0 THEN <<>> ELSE Turn(source, g[k - 1], k)
  BY <1>1, Zenon DEF Turned
<1> QED BY <1>2, <1>3

\* A line that opens a block, one that closes one, one that does neither.
Opens(l)  == l.k = "open" /\ ~ l.self /\ l.name \in RECURSIVE_BODY_DIRECTIVES \ {"switch"}
Closes(l) == l = Close(l.name)
Plain(l)  == \/ l.k \in {"text", "attr", "sep", "blank"}
             \/ l.k = "open" /\ l.self /\ l.name \notin {"on", "on-complete"}

\* The tag o opens what the close tag l ends.
Matches(s, o, l) == s[o].k = "open" /\ s[o].name = l.name

\* u matches all tags of s.
Brackets(s, u) ==
  /\ u[0] = <<>> /\ u[Len(s)] = <<>>
  /\ \A k \in 0..Len(s) : u[k] \in Seq(Nat)
  /\ \A k \in 1..Len(s) :
       \/ Opens(s[k]) /\ u[k] = Append(u[k - 1], k)
       \/ Closes(s[k]) /\ \E o \in Nat : Matches(s, o, s[k]) /\ u[k - 1] = Append(u[k], o)
       \/ Plain(s[k]) /\ u[k] = u[k - 1]

\* No odd opener stands inside a block of its own name.
Tame(s, u) ==
  \A k \in 1..Len(s) :
    /\ s[k] \in Shapes
    /\ Odd(s[k]) => \A j \in 1..Len(u[k - 1]) : s[u[k - 1][j]].name # s[k].name

\* The kinds of line exclude each other.
LEMMA LineShapes ==
  ASSUME NEW l
  PROVE  /\ Opens(l) => l.k = "open" /\ ~ l.self /\ l.name \in RECURSIVE_BODY_DIRECTIVES \ {"switch"}
         /\ Closes(l) => l.k = "close"
         /\ Plain(l) => \/ l.k \in {"text", "attr", "sep", "blank"}
                        \/ l.k = "open" /\ l.self /\ l.name \notin {"on", "on-complete"}
BY CloseIs DEF Opens, Closes, Plain

LEMMA LineKinds ==
  ASSUME source \in Seq(Shapes), OnlyNests, NEW k \in 1..Len(source)
  PROVE  Opens(source[k]) \/ Closes(source[k]) \/ Plain(source[k])
<1>1. k \in DOMAIN source
  OBVIOUS
<1>2. \/ source[k].k \in {"text", "attr", "sep", "blank"}
      \/ source[k].k = "open" /\ ~source[k].self
           /\ source[k].name \in RECURSIVE_BODY_DIRECTIVES \ {"switch"}
      \/ source[k].k = "open" /\ source[k].self /\ source[k].name \notin {"on", "on-complete"}
      \/ source[k] = Close(source[k].name)
  BY <1>1 DEF OnlyNests
<1> QED BY <1>2 DEF Opens, Closes, Plain

\* Sequences of naturals under the matcher.
LEMMA TurnTypes ==
  ASSUME NEW s, NEW q \in Seq(Nat), NEW k \in Nat
  PROVE  Turn(s, q, k) \in Seq(Nat)
<1>1. q # <<>> => SubSeq(q, 1, Len(q) - 1) \in Seq(Nat)
  OBVIOUS
<1> QED BY <1>1 DEF Turn

LEMMA UnmatchedTypes ==
  ASSUME source \in Seq(Shapes)
  PROVE  \A k \in 0..Len(source) : Unmatched[k] \in Seq(Nat)
<1> DEFINE J == {k \in Nat : Unmatched[k] \in Seq(Nat)}
<1>1. Len(source) \in Nat
  OBVIOUS
<1>2. 0 \in J
  <2>1. <<>> \in Seq(Nat)
    OBVIOUS
  <2>2. Unmatched[0] \in Seq(Nat)
    BY <1>1, <2>1, UnmatchedTurns
  <2> QED BY <2>2
<1>3. ASSUME NEW i \in 0..Len(source), i < Len(source), i \in J
      PROVE  i + 1 \in J
  <2>1. i + 1 \in 1..Len(source) /\ (i + 1) - 1 = i /\ i + 1 \in Nat
    BY <1>1, <1>3
  <2>2. Unmatched[i + 1] = Turn(source, Unmatched[i], i + 1)
    BY <1>1, <2>1, UnmatchedTurns
  <2>3. Unmatched[i] \in Seq(Nat)
    BY <1>3
  <2> QED BY <2>1, <2>2, <2>3, TurnTypes
<1> HIDE DEF J
<1>4. \A i \in 0..Len(source) : i \in J
  BY <1>1, <1>2, <1>3, HandedFrom
<1> QED BY <1>4 DEF J

\* An unmatched close tag is never matched later.
LEMMA StrayStays ==
  ASSUME source \in Seq(Shapes), NEW c \in 1..Len(source), source[c].k = "close",
         NEW i \in c..Len(source), i < Len(source),
         NEW j \in Nat, j >= 1, j <= Len(Unmatched[i]), Unmatched[i][j] = c
  PROVE  j <= Len(Unmatched[i + 1]) /\ Unmatched[i + 1][j] = c
<1> DEFINE q == Unmatched[i]
<1>1. Len(source) \in Nat /\ i \in Nat /\ i + 1 \in 1..Len(source) /\ (i + 1) - 1 = i
      /\ i \in 0..Len(source)
  OBVIOUS
<1>2. q \in Seq(Nat)
  BY <1>1, UnmatchedTypes
<1>3. Unmatched[i + 1] = Turn(source, q, i + 1)
  BY <1>1, UnmatchedTurns
<1>4. q[j] = c /\ j <= Len(q)
  OBVIOUS
<1> HIDE DEF q
<1>5. CASE Unmatched[i + 1] = q
  BY <1>4, <1>5
<1>6. CASE Unmatched[i + 1] = Append(q, i + 1)
  BY <1>1, <1>2, <1>4, <1>6
<1>7. CASE q # <<>> /\ source[q[Len(q)]].k = "open"
           /\ Unmatched[i + 1] = SubSeq(q, 1, Len(q) - 1)
  <2>2. j # Len(q)
    BY <1>4, <1>7
  <2>3. Len(q) \in Nat /\ j <= Len(q) - 1
    BY <1>2, <1>4, <2>2
  <2> QED BY <1>2, <1>4, <1>7, <2>3
<1> QED BY <1>3, <1>5, <1>6, <1>7 DEF Turn

LEMMA NoStray ==
  ASSUME source \in Seq(Shapes), Unmatched[Len(source)] = <<>>,
         NEW c \in 1..Len(source), source[c].k = "close"
  PROVE  Unmatched[c] # Append(Unmatched[c - 1], c)
<1> SUFFICES ASSUME Unmatched[c] = Append(Unmatched[c - 1], c) PROVE FALSE OBVIOUS
<1>1. Len(source) \in Nat /\ c \in Nat /\ c - 1 \in 0..Len(source) /\ c <= Len(source)
  OBVIOUS
<1>2. Unmatched[c - 1] \in Seq(Nat)
  BY <1>1, UnmatchedTypes
<1>3. PICK j \in Nat : j = Len(Unmatched[c - 1]) + 1
  BY <1>2
<1>4. j >= 1 /\ j <= Len(Unmatched[c]) /\ Unmatched[c][j] = c
  BY <1>2, <1>3
<1> DEFINE J == {i \in Nat : j <= Len(Unmatched[i]) /\ Unmatched[i][j] = c}
<1>5. c \in J
  BY <1>1, <1>4
<1>6. ASSUME NEW i \in c..Len(source), i < Len(source), i \in J
      PROVE  i + 1 \in J
  <2>1. j <= Len(Unmatched[i]) /\ Unmatched[i][j] = c
    BY <1>6
  <2>2. j <= Len(Unmatched[i + 1]) /\ Unmatched[i + 1][j] = c
    BY <1>4, <1>6, <2>1, StrayStays
  <2> QED BY <1>1, <2>2
<1> HIDE DEF J
<1>7. \A i \in c..Len(source) : i \in J
  BY <1>1, <1>5, <1>6, HandedFrom
<1>8. Len(source) \in J
  BY <1>1, <1>7
<1>9. j <= Len(Unmatched[Len(source)])
  BY <1>8 DEF J
<1>10. Len(<<>>) = 0
  OBVIOUS
<1> QED BY <1>4, <1>9, <1>10

LEMMA LastApart ==
  ASSUME NEW q \in Seq(Nat), q # <<>>
  PROVE  q[Len(q)] \in Nat /\ q = Append(SubSeq(q, 1, Len(q) - 1), q[Len(q)])
OBVIOUS

\* The premise of CountingFindsTheMatch, in use.
Balanced ==
  /\ OnlyNests /\ Unmatched[Len(source)] = <<>>
  /\ ~ (\E p \in DOMAIN source : OddInItsLike(p))

LEMMA BalancedBrackets ==
  ASSUME source \in Seq(Shapes), Balanced
  PROVE  Brackets(source, Unmatched)
<1>1. Len(source) \in Nat /\ OnlyNests /\ Unmatched[Len(source)] = <<>>
  BY DEF Balanced
<1>2. ASSUME NEW k \in 1..Len(source)
      PROVE  \/ Opens(source[k]) /\ Unmatched[k] = Append(Unmatched[k - 1], k)
             \/ /\ Closes(source[k])
                /\ \E o \in Nat : /\ Matches(source, o, source[k])
                                  /\ Unmatched[k - 1] = Append(Unmatched[k], o)
             \/ Plain(source[k]) /\ Unmatched[k] = Unmatched[k - 1]
  <2> DEFINE q == Unmatched[k - 1]
  <2>1. q \in Seq(Nat) /\ Unmatched[k] = Turn(source, q, k)
    BY <1>1, UnmatchedTypes, UnmatchedTurns
  <2> HIDE DEF q
  <2>2. CASE Opens(source[k])
    <3>1. source[k].k = "open" /\ ~ source[k].self
      BY <2>2 DEF Opens
    <3>2. Turn(source, q, k) = Append(q, k)
      BY <3>1 DEF Turn
    <3> QED BY <2>1, <2>2, <3>2 DEF q
  <2>3. CASE Closes(source[k])
    <3>1. source[k].k = "close" /\ ~ source[k].self
      BY <2>3, CloseIs DEF Closes
    <3>2. Unmatched[k] # Append(q, k)
      BY <1>1, <3>1, NoStray DEF q
    <3>3. /\ q # <<>> /\ Matches(source, q[Len(q)], source[k])
          /\ Unmatched[k] = SubSeq(q, 1, Len(q) - 1)
      BY <2>1, <3>1, <3>2 DEF Turn, Matches
    <3>4. q[Len(q)] \in Nat /\ q = Append(SubSeq(q, 1, Len(q) - 1), q[Len(q)])
      BY <2>1, <3>3, LastApart
    <3> QED BY <2>3, <3>3, <3>4 DEF q
  <2>4. CASE Plain(source[k])
    <3>1. source[k].k \notin {"open", "close"} \/ source[k].self
      BY <2>4 DEF Plain
    <3>2. Turn(source, q, k) = q
      BY <3>1 DEF Turn
    <3> QED BY <2>1, <2>4, <3>2 DEF q
  <2> QED BY <1>1, <2>2, <2>3, <2>4, LineKinds
<1> QED BY <1>1, <1>2, UnmatchedTurns, UnmatchedTypes DEF Brackets

LEMMA BalancedTame ==
  ASSUME source \in Seq(Shapes), Balanced
  PROVE  Tame(source, Unmatched)
<1>1. ASSUME NEW k \in 1..Len(source)
      PROVE  /\ source[k] \in Shapes
             /\ Odd(source[k]) => \A j \in 1..Len(Unmatched[k - 1]) :
                                    source[Unmatched[k - 1][j]].name # source[k].name
  <2>1. source[k] \in Shapes /\ k \in DOMAIN source
    OBVIOUS
  <2>2. ~ OddInItsLike(k)
    BY <2>1 DEF Balanced
  <2> QED BY <2>1, <2>2, Zenon DEF OddInItsLike
<1> QED BY <1>1, Zenon DEF Tame

-----------------------------------------------------------------------------
(* Counting tags of one name, and matching brackets                        *)

\* How many of the unmatched tags q are of a name.
Named(s, q, name) == Cardinality({j \in 1..Len(q) : s[q[j]].name = name})

LEMMA NamedAppend ==
  ASSUME NEW s, NEW name, NEW q \in Seq(Nat), NEW x \in Nat
  PROVE  /\ Named(s, q, name) \in Nat
         /\ Named(s, Append(q, x), name) = Named(s, q, name) + (IF s[x].name = name THEN 1 ELSE 0)
<1> DEFINE r == Append(q, x)
           n == Len(q)
           S == {j \in 1..n : s[q[j]].name = name}
           T == {j \in 1..Len(r) : s[r[j]].name = name}
<1>1. n \in Nat /\ Len(r) = n + 1 /\ r[n + 1] = x /\ \A j \in 1..n : r[j] = q[j]
  OBVIOUS
<1>2. IsFiniteSet(S) /\ Cardinality(S) \in Nat
  <2>1. S \subseteq 1..n /\ IsFiniteSet(1..n)
    BY <1>1, FS_Interval
  <2> HIDE DEF S
  <2> QED BY <2>1, FS_Subset, FS_CardinalityType
<1>3. n + 1 \notin S
  BY <1>1
<1>4. CASE s[x].name = name
  <2>1. T = S \cup {n + 1}
    BY <1>1, <1>4
  <2> HIDE DEF S, T, n
  <2>2. Cardinality(T) = Cardinality(S) + 1
    BY <1>2, <1>3, <2>1, FS_AddElement
  <2> QED BY <1>2, <1>4, <2>2 DEF Named, S, T, n
<1>5. CASE s[x].name # name
  <2>1. T = S
    BY <1>1, <1>5
  <2>2. Named(s, q, name) = Cardinality(S) /\ Named(s, r, name) = Cardinality(T)
    BY DEF Named
  <2> HIDE DEF S, T, n, r
  <2>3. Named(s, q, name) \in Nat /\ Named(s, r, name) = Named(s, q, name) + 0
    BY <1>2, <2>1, <2>2
  <2> QED BY <1>5, <2>3 DEF r
<1> QED BY <1>4, <1>5

LEMMA NamedPrefix ==
  ASSUME NEW s, NEW name, NEW q \in Seq(Nat), NEW r \in Seq(Nat),
         Len(q) <= Len(r), \A j \in 1..Len(q) : r[j] = q[j]
  PROVE  Named(s, q, name) <= Named(s, r, name)
<1> DEFINE S == {j \in 1..Len(q) : s[q[j]].name = name}
           T == {j \in 1..Len(r) : s[r[j]].name = name}
<1>1. Len(q) \in Nat /\ Len(r) \in Nat
  OBVIOUS
<1>2. S \subseteq T
  BY <1>1
<1>3. T \subseteq 1..Len(r) /\ IsFiniteSet(1..Len(r))
  BY <1>1, FS_Interval
<1> HIDE DEF S, T
<1>4. IsFiniteSet(T)
  BY <1>3, FS_Subset
<1>5. Cardinality(S) <= Cardinality(T)
  BY <1>2, <1>4, FS_Subset
<1> QED BY <1>5 DEF Named, S, T

\* What a line of such a document does to the depth.
LEMMA LinesAndDepth ==
  ASSUME NEW l \in Shapes, NEW name, ~ (Odd(l) /\ l.name = name)
  PROVE  /\ Opens(l) => Up(l, name) = (IF l.name = name THEN 1 ELSE 0) /\ Down(l, name) = 0
         /\ Closes(l) => Up(l, name) = 0 /\ Down(l, name) = (IF l.name = name THEN 1 ELSE 0)
         /\ Plain(l) => Up(l, name) = 0 /\ Down(l, name) = 0
<1>1. Close(name).k = "close" /\ Close(name).name = name /\ Close(l.name).k = "close"
  BY CloseIs
<1>2. ASSUME Opens(l)
      PROVE  Up(l, name) = (IF l.name = name THEN 1 ELSE 0) /\ Down(l, name) = 0
  <2>1. l.k = "open" /\ ~ l.self /\ l # Close(name)
    BY <1>1, <1>2 DEF Opens
  <2>2. l.gap \in {" ", "/", "("}
    BY DEF Shapes
  <2>3. l.name = name => l.gap # "("
    BY <2>1 DEF Odd
  <2>4. Nests(l, name) <=> l.name = name
    BY <2>1, <2>2, <2>3 DEF Nests
  <2> QED BY <2>1, <2>4 DEF Up, Down
<1>3. ASSUME Closes(l)
      PROVE  Up(l, name) = 0 /\ Down(l, name) = (IF l.name = name THEN 1 ELSE 0)
  <2>1. l.k = "close" /\ l = Close(l.name)
    BY <1>1, <1>3 DEF Closes
  <2>2. l = Close(name) <=> l.name = name
    BY <1>1, <2>1
  <2>3. ~ Nests(l, name)
    BY <2>1 DEF Nests
  <2> QED BY <2>2, <2>3 DEF Up, Down
<1>4. ASSUME Plain(l)
      PROVE  Up(l, name) = 0 /\ Down(l, name) = 0
  <2>1. l # Close(name)
    BY <1>1, <1>4 DEF Plain
  <2>2. ~ Nests(l, name)
    <3>1. CASE l.k \in {"text", "attr", "sep", "blank"}
      BY <3>1 DEF Nests
    <3>2. CASE l.k = "open" /\ l.self
      BY <3>2 DEF Nests, Odd
    <3> QED BY <1>4, <3>1, <3>2 DEF Plain
  <2> QED BY <2>1, <2>2 DEF Up, Down
<1> QED BY <1>2, <1>3, <1>4

\* From o to b there are never fewer tags than at o.
Over(u, o, b) == \A p \in o..b : Len(u[p]) >= Len(u[o])

Rests(u, o, b) == \A p \in o..b : \A j \in 1..Len(u[o]) : u[p][j] = u[o][j]

\* The tags at o and at c match.
Pair(s, u, o, c) ==
  /\ o \in 1..Len(s) /\ c \in o + 1..Len(s)
  /\ Opens(s[o]) /\ s[c] = Close(s[o].name)
  /\ u[o] = Append(u[c], o) /\ u[c - 1] = u[o]
  /\ Over(u, o, c - 1)

\* What lies on the brackets at o stays there until they get fewer.
LEMMA Beneath ==
  ASSUME NEW s, Len(s) \in Nat, NEW u, Brackets(s, u),
         NEW o \in Nat, NEW b \in Nat, b <= Len(s), Over(u, o, b)
  PROVE  Rests(u, o, b)
<1> SUFFICES \A p \in o..b : \A j \in 1..Len(u[o]) : u[p][j] = u[o][j]
  BY DEF Rests
<1>1. CASE o > b
  <2>1. o..b = {}
    BY <1>1
  <2> QED BY <2>1
<1>2. CASE o <= b
  <2> DEFINE J == {p \in Nat : \A j \in 1..Len(u[o]) : u[p][j] = u[o][j]}
  <2>1. o \in J
    OBVIOUS
  <2>2. ASSUME NEW i \in o..b, i < b, i \in J
        PROVE  i + 1 \in J
    <3>1. i \in Nat /\ i + 1 \in 1..Len(s) /\ (i + 1) - 1 = i /\ i \in 0..Len(s)
          /\ i + 1 \in 0..Len(s) /\ i + 1 \in o..b /\ o \in 0..Len(s)
      BY <2>2, <1>2
    <3>2. u[i] \in Seq(Nat) /\ u[i + 1] \in Seq(Nat) /\ u[o] \in Seq(Nat)
      BY <3>1 DEF Brackets
    <3>3. /\ Len(u[i]) >= Len(u[o]) /\ Len(u[i + 1]) >= Len(u[o])
          /\ Len(u[i]) \in Nat /\ Len(u[i + 1]) \in Nat /\ Len(u[o]) \in Nat
      BY <2>2, <3>1, <3>2 DEF Over
    <3>4. ASSUME NEW j \in 1..Len(u[o]) PROVE u[i + 1][j] = u[i][j]
      <4>1. j \in Nat /\ j >= 1 /\ j <= Len(u[i]) /\ j <= Len(u[i + 1])
        <5>1. j \in Nat /\ j >= 1 /\ j <= Len(u[o])
          BY <3>3
        <5> QED BY <3>3, <5>1
      <4>2. CASE u[i + 1] = Append(u[i], i + 1)
        BY <3>2, <4>1, <4>2
      <4>3. ASSUME NEW x \in Nat, u[i] = Append(u[i + 1], x)
            PROVE  u[i + 1][j] = u[i][j]
        BY <3>2, <4>1, <4>3
      <4>4. CASE u[i + 1] = u[i]
        BY <4>4
      <4> QED BY <3>1, <4>2, <4>3, <4>4 DEF Brackets
    <3>5. \A j \in 1..Len(u[o]) : u[i][j] = u[o][j]
      BY <2>2
    <3> QED BY <3>1, <3>4, <3>5
  <2> HIDE DEF J
  <2>3. \A p \in o..b : p \in J
    BY <2>1, <2>2, HandedFrom
  <2> QED BY <2>3 DEF J
<1> QED BY <1>1, <1>2

\* Every opening line has a matching close line.
LEMMA Mates ==
  ASSUME NEW s, Len(s) \in Nat, NEW u, Brackets(s, u),
         NEW o \in 1..Len(s), Opens(s[o])
  PROVE  \E c : Pair(s, u, o, c)
<1> DEFINE F == {p \in o + 1..Len(s) : Len(u[p]) < Len(u[o])}
           c == Min(F)
<1>1. /\ o \in Nat /\ o - 1 \in 0..Len(s) /\ o \in 0..Len(s)
      /\ u[o - 1] \in Seq(Nat) /\ u[o] \in Seq(Nat)
  <2>1. o \in Nat /\ o - 1 \in 0..Len(s) /\ o \in 0..Len(s)
    OBVIOUS
  <2> QED BY <2>1 DEF Brackets
<1>2. u[o] = Append(u[o - 1], o)
  <2>1. ~ Closes(s[o]) /\ ~ Plain(s[o])
    BY LineShapes
  <2> QED BY <2>1 DEF Brackets
<1>3. Len(u[o]) \in Nat /\ Len(u[o]) >= 1 /\ u[o][Len(u[o])] = o
  BY <1>1, <1>2
<1>4. o # Len(s) /\ Len(s) \in F
  <2>1. u[Len(s)] = <<>> /\ Len(<<>>) = 0
    BY DEF Brackets
  <2>2. o # Len(s)
    BY <1>3, <2>1
  <2>3. Len(s) \in o + 1..Len(s)
    BY <1>1, <2>2
  <2>4. Len(u[Len(s)]) < Len(u[o])
    BY <1>3, <2>1
  <2> QED BY <2>2, <2>3, <2>4
<1>5. F \in SUBSET Nat /\ F # {}
  <2>1. F \in SUBSET Nat
    BY <1>1
  <2> HIDE DEF F
  <2> QED BY <1>4, <2>1
<1>6. c \in F /\ \A k \in F : c <= k
  <2> HIDE DEF F
  <2> QED BY <1>5, MinOf
<1>7. c \in o + 1..Len(s) /\ Len(u[c]) < Len(u[o])
  <2> HIDE DEF c
  <2> QED BY <1>6
<1>8. \A p \in o + 1..Len(s) : Len(u[p]) < Len(u[o]) => c <= p
  <2> HIDE DEF c
  <2> QED BY <1>6
<1> HIDE DEF F, c
<1>9. /\ c \in Nat /\ c \in 1..Len(s) /\ c - 1 \in o..Len(s) /\ c - 1 \in Nat
      /\ c - 1 \in 0..Len(s) /\ c \in 0..Len(s)
  BY <1>1, <1>7
<1>10. \A p \in o..c - 1 : Len(u[p]) >= Len(u[o])
  <2>1. TAKE p \in o..c - 1
  <2>2. CASE p = o
    BY <1>3, <2>2
  <2>3. CASE p # o
    <3>1. p \in o + 1..Len(s) /\ ~ (c <= p) /\ p \in 0..Len(s)
      BY <1>1, <1>9, <2>3
    <3>2. u[p] \in Seq(Nat)
      BY <3>1 DEF Brackets
    <3>3. ~ (Len(u[p]) < Len(u[o]))
      BY <1>8, <3>1
    <3> QED BY <1>3, <3>2, <3>3
  <2> QED BY <2>2, <2>3
<1>11. \A j \in 1..Len(u[o]) : u[c - 1][j] = u[o][j]
  <2>1. PICK b \in Nat : b = c - 1
    BY <1>9
  <2>2. b <= Len(s) /\ b \in o..b
    BY <1>1, <1>9, <2>1
  <2>3. Over(u, o, b)
    BY <1>10, <2>1 DEF Over
  <2>4. Rests(u, o, b)
    BY <1>1, <2>2, <2>3, Beneath
  <2> QED BY <2>1, <2>2, <2>4 DEF Rests
<1>12. u[c - 1] \in Seq(Nat) /\ u[c] \in Seq(Nat)
  BY <1>9 DEF Brackets
<1>13. Len(u[c - 1]) >= Len(u[o])
  BY <1>1, <1>9, <1>10
<1>14. PICK x \in Nat : /\ Closes(s[c]) /\ Matches(s, x, s[c])
                        /\ u[c - 1] = Append(u[c], x)
  <2>1. u[c] # u[c - 1]
    BY <1>3, <1>7, <1>12, <1>13
  <2>2. u[c] # Append(u[c - 1], c)
    BY <1>3, <1>7, <1>12, <1>13
  <2> QED BY <1>9, <2>1, <2>2 DEF Brackets
<1>15. Len(u[c - 1]) = Len(u[c]) + 1 /\ u[c - 1][Len(u[c - 1])] = x
  BY <1>12, <1>14
<1>16. Len(u[c - 1]) = Len(u[o])
  <2>1. \A a, b, d \in Nat : a = d + 1 /\ d < b /\ a >= b => a = b
    OBVIOUS
  <2>2. Len(u[c - 1]) \in Nat /\ Len(u[c]) \in Nat
    BY <1>12
  <2> QED BY <1>3, <1>7, <1>13, <1>15, <2>1, <2>2
<1>17. x = o
  BY <1>3, <1>11, <1>15, <1>16
<1>18. s[c] = Close(s[o].name)
  <2>1. s[o].name = s[c].name
    BY <1>14, <1>17 DEF Matches
  <2> QED BY <1>14, <2>1 DEF Closes
<1>19. u[c - 1] = u[o]
  <2>1. \A q, r \in Seq(Nat) : Len(q) = Len(r) /\ (\A j \in 1..Len(r) : q[j] = r[j]) => q = r
    <3>1. TAKE q, r \in Seq(Nat)
    <3>2. q = [j \in 1..Len(q) |-> q[j]] /\ r = [j \in 1..Len(r) |-> r[j]]
      OBVIOUS
    <3> QED BY <3>2
  <2> QED BY <1>1, <1>11, <1>12, <1>16, <2>1
<1>20. u[o] = Append(u[c], o)
  BY <1>14, <1>17, <1>19
<1>21. Pair(s, u, o, c)
  BY <1>7, <1>10, <1>18, <1>19, <1>20 DEF Pair, Over
<1> QED BY <1>21

\* Inside a block the depth is one more than its name's openers above its own.
LEMMA DepthInside ==
  ASSUME NEW s, Len(s) \in Nat, NEW u, Brackets(s, u), Tame(s, u),
         NEW o, NEW c, Pair(s, u, o, c)
  PROVE  \A p \in o..c : /\ u[p] \in Seq(Nat) /\ Named(s, u[p], s[o].name) \in Nat
                         /\ Depth(s, s[o].name, o + 1, p) =
                              1 + Named(s, u[p], s[o].name) - Named(s, u[o], s[o].name)
<1> DEFINE name == s[o].name
           N(p) == Named(s, u[p], name)
           D(p) == Depth(s, name, o + 1, p)
<1>1. /\ o \in Nat /\ c \in Nat /\ o + 1 \in Nat /\ o \in 1..Len(s) /\ c \in o + 1..Len(s)
      /\ u[o] = Append(u[c], o) /\ Over(u, o, c - 1)
  BY DEF Pair
<1>2. \A p \in 0..Len(s) : u[p] \in Seq(Nat)
  BY DEF Brackets
<1>3. \A p \in 0..Len(s) : N(p) \in Nat
  <2>1. TAKE p \in 0..Len(s)
  <2> QED BY <1>2, NamedAppend
<1>4. o \in 0..Len(s) /\ c \in 0..Len(s)
  BY <1>1
<1>5. Len(u[o]) \in Nat /\ Len(u[o]) >= 1 /\ u[o][Len(u[o])] = o
  <2>1. u[c] \in Seq(Nat)
    BY <1>2, <1>4
  <2> QED BY <1>1, <2>1
<1>6. Rests(u, o, c - 1)
  <2>1. PICK b \in Nat : b = c - 1
    BY <1>1
  <2>2. b <= Len(s) /\ Over(u, o, b)
    BY <1>1, <2>1
  <2>3. Rests(u, o, b)
    BY <1>1, <2>2, Beneath
  <2> QED BY <2>1, <2>3
<1> DEFINE J == {p \in Nat : D(p) = 1 + N(p) - N(o)}
<1>7. o \in J
  <2>1. D(o) = 1
    BY <1>1, DepthAtStart
  <2>2. N(o) \in Nat
    BY <1>3, <1>4
  <2> HIDE DEF N, D
  <2> QED BY <1>1, <2>1, <2>2
<1>8. ASSUME NEW i \in o..c, i < c, i \in J
      PROVE  i + 1 \in J
  <2>1. /\ i \in Nat /\ i + 1 \in 1..Len(s) /\ (i + 1) - 1 = i /\ o + 1 <= i + 1
        /\ i \in 0..Len(s) /\ i + 1 \in 0..Len(s) /\ i \in o..c - 1 /\ i + 1 \in Nat
    BY <1>1, <1>8
  <2>2. /\ D(i) \in Int
        /\ D(i + 1) = D(i) + Up(s[i + 1], name) - Down(s[i + 1], name)
    BY <1>1, <2>1, DepthNext
  <2>3. D(i) = 1 + N(i) - N(o) /\ N(i) \in Nat /\ N(i + 1) \in Nat /\ N(o) \in Nat
    BY <1>3, <1>4, <1>8, <2>1
  <2>4. u[i] \in Seq(Nat) /\ u[i + 1] \in Seq(Nat)
    BY <1>2, <2>1
  <2>5. s[i + 1] \in Shapes /\ ~ (Odd(s[i + 1]) /\ s[i + 1].name = name)
    <3>1. Len(u[o]) \in 1..Len(u[i])
      <4>1. Len(u[i]) >= Len(u[o]) /\ Len(u[i]) \in Nat
        BY <2>1, <2>4, <1>1 DEF Over
      <4> QED BY <1>5, <4>1
    <3>2. u[i][Len(u[o])] = o
      <4>1. Len(u[o]) \in 1..Len(u[o])
        BY <1>5
      <4> QED BY <1>5, <1>6, <2>1, <4>1 DEF Rests
    <3>3. /\ s[i + 1] \in Shapes
          /\ Odd(s[i + 1]) => \A j \in 1..Len(u[i]) : s[u[i][j]].name # s[i + 1].name
      BY <2>1 DEF Tame
    <3>4. Odd(s[i + 1]) => name # s[i + 1].name
      BY <3>1, <3>2, <3>3
    <3> QED BY <3>3, <3>4
  <2> DEFINE l == s[i + 1]
  <2>6. l \in Shapes /\ ~ (Odd(l) /\ l.name = name)
    BY <2>5
  <2>7. CASE Opens(l) /\ u[i + 1] = Append(u[i], i + 1)
    <3>1. N(i + 1) = N(i) + (IF l.name = name THEN 1 ELSE 0)
      BY <2>1, <2>4, <2>7, NamedAppend
    <3>2. Up(l, name) = (IF l.name = name THEN 1 ELSE 0) /\ Down(l, name) = 0
      <4> HIDE DEF l, name
      <4> QED BY <2>6, <2>7, LinesAndDepth
    <3>3. D(i + 1) = 1 + N(i + 1) - N(o)
      <4> HIDE DEF N, D, name
      <4> QED BY <2>2, <2>3, <3>1, <3>2
    <3> HIDE DEF N, D, name
    <3> QED BY <2>1, <3>3
  <2>8. ASSUME Closes(l), NEW x \in Nat, Matches(s, x, l), u[i] = Append(u[i + 1], x)
        PROVE  i + 1 \in J
    <3>1. N(i) = N(i + 1) + (IF s[x].name = name THEN 1 ELSE 0)
      BY <2>4, <2>8, NamedAppend
    <3>2. s[x].name = l.name
      BY <2>8 DEF Matches
    <3>3. Up(l, name) = 0 /\ Down(l, name) = (IF l.name = name THEN 1 ELSE 0)
      <4> HIDE DEF l, name
      <4> QED BY <2>6, <2>8, LinesAndDepth
    <3>4. N(i) = N(i + 1) + Down(l, name) /\ Down(l, name) \in Int /\ Up(l, name) = 0
      <4> HIDE DEF N, l, name
      <4> QED BY <3>1, <3>2, <3>3
    <3>5. D(i + 1) = D(i) + Up(l, name) - Down(l, name)
      BY <2>2
    <3>6. D(i + 1) = 1 + N(i + 1) - N(o)
      <4> HIDE DEF N, D, l, name
      <4> QED BY <2>3, <3>4, <3>5
    <3> HIDE DEF N, D, name
    <3> QED BY <2>1, <3>6
  <2>9. CASE Plain(l) /\ u[i + 1] = u[i]
    <3>1. N(i + 1) = N(i)
      BY <2>9
    <3>2. Up(l, name) = 0 /\ Down(l, name) = 0
      <4> HIDE DEF l, name
      <4> QED BY <2>6, <2>9, LinesAndDepth
    <3>3. D(i + 1) = 1 + N(i + 1) - N(o)
      <4> HIDE DEF N, D, name
      <4> QED BY <2>2, <2>3, <3>1, <3>2
    <3> HIDE DEF N, D, name
    <3> QED BY <2>1, <3>3
  <2>10. \/ Opens(l) /\ u[i + 1] = Append(u[i], i + 1)
         \/ Closes(l) /\ \E x \in Nat : Matches(s, x, l) /\ u[i] = Append(u[i + 1], x)
         \/ Plain(l) /\ u[i + 1] = u[i]
    BY <2>1 DEF Brackets
  <2> HIDE DEF l, J
  <2> QED BY <2>7, <2>8, <2>9, <2>10
<1> HIDE DEF J
<1>9. \A p \in o..c : p \in J
  BY <1>1, <1>7, <1>8, HandedFrom
<1>10. \A p \in o..c : p \in 0..Len(s)
  BY <1>1
<1> QED BY <1>2, <1>3, <1>9, <1>10 DEF J

\* collectBlock finds the matching tag.
LEMMA MateCloses ==
  ASSUME NEW s, Len(s) \in Nat, NEW u, Brackets(s, u), Tame(s, u),
         NEW o, NEW c, Pair(s, u, o, c),
         NEW last \in Nat, c <= last
  PROVE  /\ Closers(s, s[o].name, o + 1, last) # {}
         /\ Min(Closers(s, s[o].name, o + 1, last)) = c
<1> DEFINE name == s[o].name
           C == Closers(s, name, o + 1, last)
<1>1. /\ o \in Nat /\ c \in Nat /\ 1 <= o + 1 /\ o + 1 \in Nat /\ o <= c
      /\ o \in 0..Len(s) /\ c \in 0..Len(s) /\ c \in o + 1..last
      /\ c - 1 \in Nat /\ c - 1 <= Len(s) /\ s[c] = Close(name)
      /\ u[o] = Append(u[c], o) /\ Over(u, o, c - 1)
  BY DEF Pair
<1>2. u[o] \in Seq(Nat) /\ u[c] \in Seq(Nat)
  BY <1>1 DEF Brackets
<1>3. \A p \in o..c : /\ u[p] \in Seq(Nat) /\ Named(s, u[p], name) \in Nat
                       /\ Depth(s, name, o + 1, p) =
                            1 + Named(s, u[p], name) - Named(s, u[o], name)
  BY DepthInside
<1>4. Depth(s, name, o + 1, c) = 0
  <2>1. Named(s, u[c], name) \in Nat /\ Named(s, u[o], name) = Named(s, u[c], name) + 1
    BY <1>1, <1>2, NamedAppend
  <2>2. c \in o..c
    BY <1>1
  <2> QED BY <1>3, <2>1, <2>2
<1>5. ASSUME NEW k \in o..c - 1
      PROVE  Depth(s, name, o + 1, k) # 0
  <2>1. k \in o..c /\ o \in o..c
    BY <1>1
  <2>2. Rests(u, o, c - 1)
    <3>1. PICK b \in Nat : b = c - 1
      BY <1>1
    <3>2. b <= Len(s) /\ Over(u, o, b)
      BY <1>1, <3>1
    <3>3. Rests(u, o, b)
      BY <1>1, <3>2, Beneath
    <3> QED BY <3>1, <3>3
  <2>3. Len(u[o]) <= Len(u[k])
    <3>1. Len(u[k]) >= Len(u[o])
      BY <1>1 DEF Over
    <3>2. Len(u[k]) \in Nat /\ Len(u[o]) \in Nat
      BY <1>2, <1>3, <2>1
    <3> QED BY <3>1, <3>2
  <2>4. \A j \in 1..Len(u[o]) : u[k][j] = u[o][j]
    BY <2>2 DEF Rests
  <2>5. u[k] \in Seq(Nat) /\ u[o] \in Seq(Nat)
    BY <1>2, <1>3, <2>1
  <2>6. Named(s, u[o], name) <= Named(s, u[k], name)
    BY <2>3, <2>4, <2>5, NamedPrefix
  <2> QED BY <1>3, <2>1, <2>6
<1>6. c \in C
  BY <1>1, <1>4 DEF Closers
<1>7. C \in SUBSET Nat /\ \A k \in C : k \in o + 1..last /\ Depth(s, name, o + 1, k) = 0
  BY <1>1 DEF Closers
<1> HIDE DEF C
<1>8. Min(C) \in C /\ Min(C) <= c
  BY <1>6, <1>7, MinOf
<1>9. Min(C) \in o + 1..last /\ Min(C) \notin o..c - 1
  BY <1>5, <1>7, <1>8
<1>10. Min(C) = c
  <2> DEFINE m == Min(C)
  <2>1. m \in o + 1..last /\ m \notin o..c - 1 /\ m <= c
    BY <1>8, <1>9
  <2> HIDE DEF m
  <2>2. m = c
    BY <1>1, <2>1
  <2> QED BY <2>2 DEF m
<1> QED BY <1>6, <1>10 DEF C

\* Between the opener and the body there are attributes and one separator.
LEMMA HeadLines ==
  ASSUME NEW s, NEW name, NEW from \in Nat, NEW close \in Nat,
         from <= close, s[close] = Close(name)
  PROVE  \A p \in from..BodyStart(s, name, from, close) - 1 :
           p \in Nat /\ s[p].k \in {"attr", "blank", "sep"}
<1> DEFINE A == {i \in from..close : s[i].k # "attr"}
           stop == Min(A)
<1>1. s[close].k = "close" BY CloseIs
<1>2. A \in SUBSET Nat /\ close \in A BY <1>1
<1>3. stop \in A /\ \A k \in A : stop <= k
  <2> HIDE DEF A
  <2> QED BY <1>2, MinOf
<1>4. stop \in from..close /\ \A k \in from..close : s[k].k # "attr" => stop <= k
  <2> HIDE DEF stop
  <2> QED BY <1>3
<1>5. BodyStart(s, name, from, close) =
        IF name \in VERBATIM_BODY_DIRECTIVES THEN from
        ELSE IF s[stop].k \in {"blank", "sep"} THEN stop + 1 ELSE stop
  BY DEF BodyStart
<1> HIDE DEF A, stop
<1>6. \A p \in from..stop - 1 : p \in Nat /\ s[p].k = "attr"
  BY <1>4
<1>7. CASE name \in VERBATIM_BODY_DIRECTIVES
  BY <1>5, <1>7
<1>8. CASE name \notin VERBATIM_BODY_DIRECTIVES /\ s[stop].k \in {"blank", "sep"}
  <2>1. \A p \in from..(stop + 1) - 1 : p = stop \/ p \in from..stop - 1
    BY <1>4
  <2> QED BY <1>4, <1>5, <1>6, <1>8, <2>1
<1>9. CASE name \notin VERBATIM_BODY_DIRECTIVES /\ s[stop].k \notin {"blank", "sep"}
  BY <1>5, <1>6, <1>9
<1> QED BY <1>7, <1>8, <1>9

\* Plain lines leave the brackets alone.
LEMMA PlainStays ==
  ASSUME NEW s, Len(s) \in Nat, NEW u, Brackets(s, u), NEW a \in Nat, NEW b \in Nat,
         a <= b, b <= Len(s), \A p \in a + 1..b : s[p].k \in {"attr", "blank", "sep"}
  PROVE  u[b] = u[a]
<1> DEFINE J == {p \in Nat : u[p] = u[a]}
<1>1. a \in J
  OBVIOUS
<1>2. ASSUME NEW i \in a..b, i < b, i \in J
      PROVE  i + 1 \in J
  <2>1. i + 1 \in 1..Len(s) /\ i + 1 \in a + 1..b /\ (i + 1) - 1 = i /\ i + 1 \in Nat
    BY <1>2
  <2>2. s[i + 1].k \in {"attr", "blank", "sep"}
    BY <2>1
  <2>3. ~ Opens(s[i + 1]) /\ ~ Closes(s[i + 1])
    BY <2>2, LineShapes
  <2>4. u[i + 1] = u[i]
    BY <2>1, <2>3 DEF Brackets
  <2> QED BY <1>2, <2>1, <2>4
<1> HIDE DEF J
<1>3. \A p \in a..b : p \in J
  BY <1>1, <1>2, HandedFrom
<1>4. b \in J
  BY <1>3
<1> QED BY <1>4 DEF J

-----------------------------------------------------------------------------
(* The walk of a document that only nests                                  *)

\* The cursor of every call stands between whole blocks, blocks are matching
\* tags, and no block is left out.
Matched ==
  /\ \A f \in 1..Len(stack) :
       stack[f].clause > 0 /\ Len(Unmatched[stack[f].pos - 1]) = Len(Unmatched[stack[f].opener])
  /\ \A b \in nodes : IsBlock(b) => Pair(source, Unmatched, b.at, b.upto)
  /\ \A c \in 1..Len(source) :
       c < Here /\ Closes(source[c]) => \E b \in nodes : IsBlock(b) /\ b.upto = c
  /\ outcome.is \in {"parsing", "parsed", "refused"}
  /\ outcome.is = "parsed" => Here > Len(source)

\* A line of the running slice closes nothing, and what opens there is found to
\* close where it should.
LEMMA AtTheCursor ==
  ASSUME IInv, Hanging, Balanced, Matched, InLine
  PROVE  /\ ~ Closes(Line)
         /\ Opens(Line) => Pair(source, Unmatched, Here, CloseLine) /\ CloseLine # 0
<1> DEFINE s == source
           u == Unmatched
           t == Top.opener
<1>1. /\ s \in Seq(Shapes) /\ Len(s) \in Nat /\ Brackets(s, u) /\ Tame(s, u)
      /\ Here \in Nat /\ Top.last \in Nat /\ Here <= Top.last /\ Top.last <= Len(s)
      /\ t \in Nat /\ t + 1 <= Here /\ Here \in 1..Len(s) /\ stack[Len(stack)] = Top
      /\ Len(stack) \in Nat /\ Len(stack) >= 1 /\ Line = s[Here]
  BY TopOK, HereOK, BalancedBrackets, BalancedTame DEF IInv, Top, Line
<1>2. Len(u[Here - 1]) = Len(u[t])
  <2>1. Len(stack) \in 1..Len(stack)
    BY <1>1
  <2> QED BY <1>1, <2>1 DEF Matched, Here
<1> HIDE DEF s, u, t
<1>3. /\ Here - 1 \in 0..Len(s) /\ Here \in 0..Len(s) /\ t \in 0..Len(s)
  BY <1>1
<1>4. /\ u[Here - 1] \in Seq(Nat) /\ u[Here] \in Seq(Nat) /\ u[t] \in Seq(Nat)
  BY <1>1, <1>3 DEF Brackets
<1>5. /\ Len(u[Here - 1]) \in Nat /\ Len(u[Here]) \in Nat /\ Len(u[t]) \in Nat
  BY <1>4
<1>6. Closes(Line) => Len(u[Here]) = Len(u[t]) - 1
  <2>1. Closes(Line) => \E x \in Nat : u[Here - 1] = Append(u[Here], x)
    <3>1. Closes(Line) => ~ Opens(Line) /\ ~ Plain(Line)
      BY LineShapes
    <3> QED BY <1>1, <3>1 DEF Brackets
  <2>2. \A x \in Nat : u[Here - 1] = Append(u[Here], x) => Len(u[Here - 1]) = Len(u[Here]) + 1
    BY <1>4
  <2> QED BY <1>2, <1>5, <2>1, <2>2
<1>7. Opens(Line) => Len(u[Here]) = Len(u[t]) + 1
  <2>1. Opens(Line) => u[Here] = Append(u[Here - 1], Here)
    <3>1. Opens(Line) => ~ Closes(Line) /\ ~ Plain(Line)
      BY LineShapes
    <3> QED BY <1>1, <3>1 DEF Brackets
  <2>2. u[Here] = Append(u[Here - 1], Here) => Len(u[Here]) = Len(u[Here - 1]) + 1
    BY <1>1, <1>4
  <2> QED BY <1>2, <2>1, <2>2
<1>8. /\ ~ Closes(Line)
      /\ \A c : Opens(Line) /\ Pair(s, u, Here, c) => c <= Top.last
  <2>1. CASE Len(stack) = 1
    <3>1. t = 0 /\ Top.last = Len(s)
      BY <1>1, <2>1 DEF Hanging, s, t
    <3>2. Len(u[t]) = 0
      BY <1>1, <3>1 DEF Brackets
    <3>3. ~ Closes(Line)
      BY <1>5, <1>6, <3>2
    <3>4. \A c : Pair(s, u, Here, c) => c <= Top.last
      BY <1>1, <3>1 DEF Pair
    <3> QED BY <3>3, <3>4
  <2>2. CASE Len(stack) > 1
    <3>1. Len(stack) \in 2..Len(stack)
      BY <1>1, <2>2
    <3>2. PICK b \in nodes : NodeOf(b, Top)
      BY <1>1, <3>1 DEF Hanging
    <3>3. Pair(s, u, t, Top.last + 1)
      BY <3>2 DEF Matched, NodeOf, ClosesAt, s, u, t
    <3>4. /\ Over(u, t, Top.last) /\ u[t] = Append(u[Top.last + 1], t)
          /\ Top.last + 1 \in 0..Len(s)
      <4>1. (Top.last + 1) - 1 = Top.last
        BY <1>1
      <4>2. Top.last + 1 \in t + 1..Len(s)
        BY <3>3 DEF Pair
      <4> QED BY <1>1, <3>3, <4>1, <4>2 DEF Pair
    <3>5. Len(u[Top.last + 1]) \in Nat /\ Len(u[t]) = Len(u[Top.last + 1]) + 1
      <4>1. u[Top.last + 1] \in Seq(Nat)
        BY <1>1, <3>4 DEF Brackets
      <4> QED BY <1>1, <3>4, <4>1
    <3>6. Len(u[Here]) >= Len(u[t])
      <4>1. Here \in t..Top.last
        BY <1>1
      <4> QED BY <3>4, <4>1 DEF Over
    <3>7. ~ Closes(Line)
      BY <1>5, <1>6, <3>6
    <3>8. ASSUME Opens(Line), NEW c, Pair(s, u, Here, c), ~ (c <= Top.last)
          PROVE  FALSE
      <4>1. /\ c \in Nat /\ Top.last + 1 <= c /\ c \in 0..Len(s) /\ Here + 1 <= c
            /\ u[Here] = Append(u[c], Here) /\ Over(u, Here, c - 1)
        BY <1>1, <3>8 DEF Pair
      <4>2. u[c] \in Seq(Nat)
        BY <1>1, <4>1 DEF Brackets
      <4>3. Len(u[c]) \in Nat /\ Len(u[Here]) = Len(u[c]) + 1
        BY <1>1, <4>1, <4>2
      <4>4. CASE c = Top.last + 1
        BY <1>5, <1>7, <3>5, <3>8, <4>3, <4>4
      <4>5. CASE c # Top.last + 1
        <5>1. Top.last + 1 \in Here..c - 1
          <6>1. \A a, h, d \in Nat : h <= a /\ a + 1 <= d /\ d # a + 1 => a + 1 \in h..d - 1
            OBVIOUS
          <6> QED BY <1>1, <4>1, <4>5, <6>1
        <5>2. Len(u[Top.last + 1]) >= Len(u[Here])
          BY <4>1, <5>1 DEF Over
        <5> QED BY <1>5, <1>7, <3>5, <3>8, <5>2
      <4> QED BY <4>4, <4>5
    <3> QED BY <3>7, <3>8
  <2>3. Len(stack) = 1 \/ Len(stack) > 1
    <3>1. \A n \in Nat : n >= 1 => n = 1 \/ n > 1
      OBVIOUS
    <3> QED BY <1>1, <3>1
  <2> QED BY <2>1, <2>2, <2>3, Zenon
<1>9. ASSUME Opens(Line)
      PROVE  Pair(s, u, Here, CloseLine) /\ CloseLine # 0
  <2>1. PICK c : Pair(s, u, Here, c)
    BY <1>1, <1>9, Mates
  <2>2. c <= Top.last /\ c # 0
    <3>1. c <= Top.last
      BY <1>8, <1>9, <2>1, Zenon
    <3>2. c \in Here + 1..Len(s)
      BY <2>1, Zenon DEF Pair
    <3>3. c # 0
      BY <1>1, <3>2
    <3> QED BY <3>1, <3>3
  <2>3. /\ Closers(s, Line.name, Here + 1, Top.last) # {}
        /\ Min(Closers(s, Line.name, Here + 1, Top.last)) = c
    BY <1>1, <2>1, <2>2, MateCloses
  <2>4. CloseLine = c
    BY <2>3 DEF CloseLine, s
  <2> QED BY <2>1, <2>2, <2>4
<1> QED BY <1>8, <1>9 DEF s, u

\* The steps such a document can take.
Passes ==
  /\ InLine /\ Plain(Line) /\ Walked(Here + 1)
  /\ \E c \in Nat : c > 0 /\ stack' = Forwarded(stack, Here + 1, c)

LEMMA LineAtCursor ==
  ASSUME IInv, Balanced, InLine
  PROVE  /\ Opens(Line) \/ Closes(Line) \/ Plain(Line)
         /\ inImport => Line.name # "phase"
         /\ Here \in 1..Len(source)
<1>1. Here \in 1..Len(source) /\ source \in Seq(Shapes) /\ OnlyNests
  BY TopOK, HereOK DEF IInv, Balanced
<1>2. Opens(source[Here]) \/ Closes(source[Here]) \/ Plain(source[Here])
  BY <1>1, LineKinds
<1>3. inImport => source[Here].name # "phase"
  BY <1>1 DEF OnlyNests
<1> QED BY <1>1, <1>2, <1>3 DEF Line

LEMMA StepsOfNesting ==
  ASSUME IInv, Hanging, Balanced, Matched, Next
  PROVE  \/ Passes /\ outcome' = outcome
         \/ EnterBlock /\ Opens(Line) /\ Pair(source, Unmatched, Here, CloseLine) /\ outcome' = outcome
         \/ LeaveBlock /\ outcome' = outcome
         \/ Still /\ outcome'.is = "refused"
         \/ Finish /\ outcome'.is = "parsed"
<1>1. /\ Top.clause \in Nat /\ Top.clause > 0 /\ Here \in Nat /\ Top.last \in Nat
      /\ Here + 1 \in Nat
  <2>1. Len(stack) \in 1..Len(stack) /\ Top.clause \in Nat /\ Here \in Nat /\ Top.last \in Nat
    BY TopOK
  <2> QED BY <2>1 DEF Matched, Top
<1>2. ASSUME InLine
      PROVE  /\ \/ Opens(Line)
                \/ Line.k \in {"text", "attr", "sep", "blank"} /\ Plain(Line)
                \/ Line.k = "open" /\ Line.self /\ Line.name \notin {"on", "on-complete"} /\ Plain(Line)
             /\ Opens(Line) => /\ Line.k = "open" /\ ~ Line.self
                               /\ Line.name \in RECURSIVE_BODY_DIRECTIVES \ {"switch"}
                               /\ Pair(source, Unmatched, Here, CloseLine) /\ CloseLine # 0
             /\ inImport => Line.name # "phase"
  BY <1>2, LineAtCursor, AtTheCursor, LineShapes
<1>3. CASE Clause
  <2>1. InLine /\ ClauseOf(Line, Top.block) /\ Goes
    BY <1>3 DEF Clause
  <2>2. ~ Opens(Line)
    BY <1>2, <2>1 DEF ClauseOf, RECURSIVE_BODY_DIRECTIVES
  <2>3. Walked(Here + 1)
    BY <1>3, ClauseWalks
  <2>4. stack' = Forwarded(stack, Here + 1, Top.clause + 1)
    <3>1. Top \in FrameType /\ stack \in Seq(FrameType) /\ Len(stack) \in DOMAIN stack
      BY TopOK DEF IInv, FramesOK
    <3>2. stack' = [stack EXCEPT ![Len(stack)].pos = @ + 1, ![Len(stack)].clause = @ + 1]
      BY <1>3 DEF Clause
    <3>3. [Top EXCEPT !.pos = Here + 1, !.clause = Top.clause + 1]
            = At(Top, Here + 1, Top.clause + 1)
      BY DEF At
    <3> QED BY <3>1, <3>2, <3>3 DEF Forwarded, Top, Here
  <2>5. Top.clause + 1 \in Nat /\ Top.clause + 1 > 0
    BY <1>1
  <2> QED BY <1>2, <2>1, <2>2, <2>3, <2>4, <2>5 DEF Passes, Goes
<1>4. ~ BeforeFirstCase
  BY <1>1 DEF BeforeFirstCase
<1>5. CASE Single
  <2>1. InLine /\ MoveTo(Here + 1) /\ Goes
    BY <1>5 DEF Single, InClause
  <2>2. ~ Opens(Line)
    BY <1>2, <1>5, <2>1 DEF Single
  <2>3. Walked(Here + 1)
    BY <1>5, SingleWalks
  <2>4. stack' = Forwarded(stack, Here + 1, Top.clause)
    BY <1>1, <2>1, MoveToForwards DEF MoveTo
  <2> QED BY <1>1, <1>2, <2>1, <2>2, <2>3, <2>4 DEF Passes, Goes
<1>6. ~ CodeFence
  BY <1>2 DEF CodeFence, InClause
<1>7. ~ GraphFence /\ ~ UnclosedGraph
  BY <1>2 DEF GraphFence, UnclosedGraph, InClause
<1>8. ~ OldSyntax
  <2>1. "on" \notin RECURSIVE_BODY_DIRECTIVES
    BY DEF RECURSIVE_BODY_DIRECTIVES
  <2> QED BY <1>2, <2>1 DEF OldSyntax, InClause
<1>9. ~ MisplacedTransition
  BY <1>2 DEF MisplacedTransition, Misplaced, InClause
<1>10. ~ RejectImportedPhase
  BY <1>2 DEF RejectImportedPhase, PhaseInImport, Opening, InClause
<1>11. ~ OldEndInBlock
  <2> SUFFICES ASSUME OldEndInBlock PROVE FALSE OBVIOUS
  <2>1. OldEnds # {}
    BY DEF OldEndInBlock
  <2>2. PICK i : i \in Here + 1..(IF CloseLine = 0 THEN Top.last ELSE CloseLine) /\ source[i].k = "v1"
    BY <2>1 DEF OldEnds
  <2>3. InLine /\ Line.k = "open" /\ ~ Line.self
    BY DEF OldEndInBlock, Opening, InClause
  <2>4. CloseLine # 0 /\ Pair(source, Unmatched, Here, CloseLine)
    BY <1>2, <2>3
  <2>5. i \in 1..Len(source)
    <3>1. Len(source) \in Nat /\ CloseLine \in Here + 1..Len(source) /\ i \in Here + 1..CloseLine
      BY <2>2, <2>4 DEF Pair, IInv
    <3> QED BY <1>1, <3>1
  <2>6. source[i].k # "v1"
    <3>1. OnlyNests /\ source \in Seq(Shapes)
      BY DEF Balanced, IInv
    <3>2. Opens(source[i]) \/ Closes(source[i]) \/ Plain(source[i])
      BY <2>5, <3>1, LineKinds
    <3> QED BY <3>2, LineShapes
  <2> QED BY <2>2, <2>6
<1>12. ~ Unclosed
  BY <1>2 DEF Unclosed, Opening, InClause
<1>13. ~ UnknownBlock
  <2>1. RECURSIVE_BODY_DIRECTIVES \subseteq Registered
    BY DEF Registered
  <2> QED BY <1>2, <2>1 DEF UnknownBlock, Collected, Opening, InClause
<1>14. ~ RawBlock
  BY <1>2 DEF RawBlock, Collected, Opening, InClause
<1>15. CASE Refused
  BY <1>15 DEF Refused, Fail, Still
<1>16. CASE EnterBlock
  <2>1. InLine /\ Line.k = "open" /\ ~ Line.self /\ Goes
    BY <1>16 DEF EnterBlock, Collected, Opening, InClause
  <2> QED BY <1>2, <1>16, <2>1 DEF Goes
<1>17. CASE LeaveBlock
  BY <1>17 DEF LeaveBlock, Goes
<1>18. CASE Finish
  <2>1. outcome'.is = "parsed"
    BY <1>18, FinishParses
  <2> QED BY <1>18, <2>1
<1> QED
  BY <1>3, <1>4, <1>5, <1>6, <1>7, <1>8, <1>9, <1>10, <1>11, <1>12, <1>13, <1>14,
     <1>15, <1>16, <1>17, <1>18, Zenon DEF Next

MatchInv == Balanced => Matched

LEMMA DocumentStays ==
  ASSUME [Next]_vars
  PROVE  source' = source /\ inImport' = inImport
BY DEF Next, Clause, BeforeFirstCase, Single, CodeFence, GraphFence, UnclosedGraph,
       OldSyntax, MisplacedTransition, RejectImportedPhase, OldEndInBlock, Unclosed,
       UnknownBlock, RawBlock, Refused, EnterBlock, LeaveBlock, Finish, Fail, Goes, vars

LEMMA BalancedStays ==
  ASSUME source' = source, inImport' = inImport
  PROVE  Unmatched' = Unmatched /\ (Balanced' <=> Balanced)
<1>1. Unmatched' = Unmatched
  BY DEF Unmatched
<1>2. OnlyNests' <=> OnlyNests
  BY DEF OnlyNests
<1>3. \A p : OddInItsLike(p)' <=> OddInItsLike(p)
  BY <1>1 DEF OddInItsLike
<1> QED BY <1>1, <1>2, <1>3 DEF Balanced

LEMMA InitMatched == Init => Matched
<1> SUFFICES ASSUME Init PROVE Matched OBVIOUS
<1> DEFINE f == Frame("document", 0, 1, Len(source), HeaderAt + 1)
<1>1. f.pos = 1 /\ f.opener = 0 /\ f.clause = 1
  BY DEF Frame
<1>2. stack = <<f>> BY DEF Init
<1> HIDE DEF f
<1>3. Len(stack) = 1 /\ stack[1] = f /\ Here = 1
  BY <1>1, <1>2 DEF Here, Top
<1>4. nodes = {} /\ outcome.is = "parsing"
  BY DEF Init
<1>5. \A g \in 1..Len(stack) :
        stack[g].clause > 0 /\ Len(Unmatched[stack[g].pos - 1]) = Len(Unmatched[stack[g].opener])
  BY <1>1, <1>3
<1>6. \A c \in 1..Len(source) : ~ (c < Here)
  <2>1. Len(source) \in Nat
    BY Initially DEF IInv
  <2> QED BY <1>3, <2>1
<1> QED BY <1>4, <1>5, <1>6 DEF Matched

\* Over a plain line nothing opens or closes.
LEMMA PassesMatched ==
  ASSUME IInv, Hanging, Balanced, Matched, Passes, outcome' = outcome,
         Unmatched' = Unmatched
  PROVE  Matched'
<1>1. /\ InLine /\ Plain(Line) /\ source' = source /\ Here' = Here + 1
      /\ Here \in 1..Len(source) /\ Len(source) \in Nat /\ Here \in Nat
      /\ Len(stack) \in Nat /\ Len(stack) >= 1 /\ source \in Seq(Shapes)
      /\ outcome.is = "parsing"
  BY TopOK, HereOK DEF Passes, Walked, IInv, InLine, Running
<1>2. PICK c \in Nat : c > 0 /\ stack' = Forwarded(stack, Here + 1, c)
  BY DEF Passes
<1>3. /\ Len(stack') = Len(stack)
      /\ \A f \in 1..Len(stack) : Fixed(stack'[f]) = Fixed(stack[f])
      /\ \A f \in 1..Len(stack) - 1 : stack'[f] = stack[f]
  BY <1>2, FixedStay
<1>4. stack'[Len(stack)].pos = Here + 1 /\ stack'[Len(stack)].clause = c
  <2>1. stack \in Seq(FrameType) /\ Len(stack) \in DOMAIN stack /\ stack[Len(stack)] \in FrameType
    BY TopOK DEF IInv, FramesOK, Top
  <2>2. stack'[Len(stack)] = At(stack[Len(stack)], Here + 1, c)
    BY <1>2, <2>1 DEF Forwarded
  <2> QED BY <2>1, <2>2 DEF At, FrameType
<1>5. Unmatched[Here] = Unmatched[Here - 1]
  <2>1. ~ Opens(Line) /\ ~ Closes(Line)
    BY <1>1, AtTheCursor, LineShapes
  <2>2. Brackets(source, Unmatched)
    BY <1>1, BalancedBrackets
  <2> QED BY <1>1, <2>1, <2>2 DEF Brackets, Line
<1>6. ASSUME NEW f \in 1..Len(stack')
      PROVE  /\ stack'[f].clause > 0
             /\ Len(Unmatched[stack'[f].pos - 1]) = Len(Unmatched[stack'[f].opener])
  <2>1. CASE f = Len(stack)
    <3>1. f \in 1..Len(stack)
      BY <1>3
    <3>2. stack'[f].opener = stack[f].opener
      BY <1>3, <3>1, FixedSays
    <3>3. stack'[f].pos - 1 = Here
      BY <1>1, <1>4, <2>1
    <3>4. Len(Unmatched[Here - 1]) = Len(Unmatched[stack[f].opener])
      BY <2>1, <3>1 DEF Matched, Here, Top
    <3> QED BY <1>2, <1>4, <1>5, <2>1, <3>2, <3>3, <3>4
  <2>2. CASE f # Len(stack)
    <3>1. f \in 1..Len(stack) - 1 /\ f \in 1..Len(stack)
      BY <1>1, <1>3, <2>2
    <3> QED BY <1>3, <3>1 DEF Matched
  <2> QED BY <2>1, <2>2
<1>7. /\ nodes \subseteq nodes'
      /\ \A b \in nodes' : IsBlock(b) => b \in nodes
  <2>1. \A kind, last : Leaf(kind, last).kind = kind
    BY DEF Leaf, Node
  <2> QED BY <2>1 DEF Passes, Walked, IsBlock
<1>8. \A b \in nodes' : IsBlock(b) => Pair(source, Unmatched, b.at, b.upto)
  BY <1>7 DEF Matched
<1>9. ASSUME NEW k \in 1..Len(source), k < Here + 1, Closes(source[k])
      PROVE  \E b \in nodes' : IsBlock(b) /\ b.upto = k
  <2>1. k # Here
    BY <1>1, <1>9, AtTheCursor DEF Line
  <2>2. k < Here
    BY <1>1, <1>9, <2>1
  <2> QED BY <1>7, <1>9, <2>2 DEF Matched
<1> QED BY <1>1, <1>6, <1>8, <1>9 DEF Matched, IsBlock

LEMMA EnteredMatched ==
  ASSUME IInv, Hanging, Balanced, Matched, NEW close, NEW body, Entered(close, body),
         Opens(Line), Pair(source, Unmatched, Here, CloseLine), outcome' = outcome,
         Unmatched' = Unmatched
  PROVE  Matched'
<1> DEFINE N == Node(Line.name, Here, body, close)
           g == Frame(Line.name, Here, body, close - 1, Index(Here) + 1)
           u == Unmatched
<1>1. /\ InLine /\ Line.name \in RECURSIVE_BODY_DIRECTIVES
      /\ close = CloseLine /\ close \in Here + 1 .. Top.last /\ body \in Here + 1 .. close
      /\ body = BodyStart(source, Line.name, Here + 1, close)
      /\ source[close] = Close(Line.name)
      /\ nodes' = nodes \cup {N} /\ source' = source
      /\ Len(stack') = Len(stack) + 1
      /\ \A f \in 1..Len(stack) : Fixed(stack'[f]) = Fixed(stack[f])
      /\ \A f \in 1..Len(stack) - 1 : stack'[f] = stack[f]
      /\ stack'[Len(stack)].pos = close + 1 /\ stack'[Len(stack)].clause = Top.clause
      /\ stack'[Len(stack) + 1] = g
      /\ Here' = body
  BY DEF Entered, Opening, InClause
<1>2. /\ Here \in Nat /\ Top.last \in Nat /\ Len(stack) \in Nat /\ Len(stack) >= 1
      /\ Here <= Top.last /\ Here \in 1..Len(source) /\ Len(source) \in Nat
      /\ Top.last <= Len(source) /\ source \in Seq(Shapes) /\ stack[Len(stack)] = Top
      /\ outcome.is = "parsing"
  BY <1>1, TopOK, HereOK DEF IInv, Top, InLine, Running
<1>3. /\ N.at = Here /\ N.upto = close /\ IsBlock(N)
      /\ g.opener = Here /\ g.pos = body /\ g.clause > 0
  <2>1. Line.name # "switch"
    BY LineShapes
  <2> QED BY <1>1, <2>1 DEF Node, Frame, IsBlock
<1>4. Brackets(source, u) /\ Pair(source, u, Here, close)
  BY <1>1, <1>2, BalancedBrackets
<1> HIDE DEF N, g, u
<1>5. /\ close \in Nat /\ close - 1 \in Nat /\ Here + 1 \in Nat /\ Here + 1 <= close
      /\ body \in Nat /\ body - 1 \in Nat /\ Here <= body - 1 /\ body - 1 <= Len(source)
      /\ (close + 1) - 1 = close /\ close <= Len(source)
  BY <1>1, <1>2
<1>6. \A p \in Here + 1..body - 1 : p \in Nat /\ source[p].k \in {"attr", "blank", "sep"}
  BY <1>1, <1>5, HeadLines
<1>7. u[body - 1] = u[Here]
  <2>1. PICK b \in Nat : b = body - 1
    BY <1>5
  <2>2. /\ Here <= b /\ b <= Len(source)
        /\ \A p \in Here + 1..b : source[p].k \in {"attr", "blank", "sep"}
    BY <1>5, <1>6, <2>1
  <2>3. u[b] = u[Here]
    BY <1>2, <1>4, <2>2, PlainStays
  <2> QED BY <2>1, <2>3
<1>8. Len(u[close]) = Len(u[Top.opener])
  <2>1. u[Here] = Append(u[Here - 1], Here)
    <3>1. ~ Closes(Line) /\ ~ Plain(Line)
      BY LineShapes
    <3> QED BY <1>2, <1>4, <3>1 DEF Brackets, Line
  <2>2. u[Here] = Append(u[close], Here)
    BY <1>4 DEF Pair
  <2>3. u[Here - 1] \in Seq(Nat) /\ u[close] \in Seq(Nat)
    <3>1. Here - 1 \in 0..Len(source) /\ close \in 0..Len(source)
      BY <1>2, <1>5
    <3> QED BY <1>4, <3>1 DEF Brackets
  <2>4. Len(u[close]) = Len(u[Here - 1])
    <3>1. /\ Len(Append(u[Here - 1], Here)) = Len(u[Here - 1]) + 1
          /\ Len(Append(u[close], Here)) = Len(u[close]) + 1
      BY <2>3
    <3>2. Len(u[Here - 1]) \in Nat /\ Len(u[close]) \in Nat
      BY <2>3
    <3> QED BY <2>1, <2>2, <3>1, <3>2
  <2>5. Len(u[Here - 1]) = Len(u[Top.opener])
    <3>1. Len(stack) \in 1..Len(stack)
      BY <1>2
    <3> QED BY <1>2, <3>1 DEF Matched, Here, u
  <2> QED BY <2>4, <2>5
<1>9. ASSUME NEW f \in 1..Len(stack')
      PROVE  /\ stack'[f].clause > 0
             /\ Len(u[stack'[f].pos - 1]) = Len(u[stack'[f].opener])
  <2>1. CASE f = Len(stack) + 1
    BY <1>1, <1>3, <1>7, <2>1
  <2>2. CASE f = Len(stack)
    <3>1. f \in 1..Len(stack)
      BY <1>2, <2>2
    <3>2. stack'[f].opener = Top.opener
      BY <1>1, <1>2, <2>2, <3>1, FixedSays
    <3>3. Top.clause > 0
      BY <1>2, <2>2, <3>1 DEF Matched
    <3>4. stack'[f].pos - 1 = close
      BY <1>1, <1>5, <2>2
    <3> QED BY <1>1, <1>8, <2>2, <3>2, <3>3, <3>4
  <2>3. CASE f # Len(stack) /\ f # Len(stack) + 1
    <3>1. f \in 1..Len(stack) - 1 /\ f \in 1..Len(stack)
      BY <1>1, <1>2, <2>3
    <3> QED BY <1>1, <3>1 DEF Matched, u
  <2> QED BY <2>1, <2>2, <2>3
<1>10. \A b \in nodes' : IsBlock(b) => Pair(source, u, b.at, b.upto)
  BY <1>1, <1>3, <1>4 DEF Matched, u
<1>11. ASSUME NEW k \in 1..Len(source), k < body, Closes(source[k])
       PROVE  \E b \in nodes' : IsBlock(b) /\ b.upto = k
  <2>1. k # Here
    BY <1>11, LineShapes DEF Line
  <2>2. k \notin Here + 1..body - 1
    BY <1>6, <1>11, LineShapes
  <2>3. k < Here
    <3>1. \A j, h, b \in Nat : j < b /\ j # h /\ j \notin h + 1..b - 1 => j < h
      OBVIOUS
    <3> QED BY <1>2, <1>5, <1>11, <2>1, <2>2, <3>1
  <2> QED BY <1>1, <1>11, <2>3 DEF Matched
<1> QED BY <1>1, <1>2, <1>9, <1>10, <1>11 DEF Matched, IsBlock, u

LEMMA LeftMatched ==
  ASSUME IInv, Hanging, Balanced, Matched, LeaveBlock, outcome' = outcome,
         Unmatched' = Unmatched
  PROVE  Matched'
<1>1. /\ Len(stack) \in Nat /\ Len(stack) > 1 /\ Len(stack') = Len(stack) - 1
      /\ \A f \in 1..Len(stack) - 1 : stack'[f] = stack[f]
      /\ nodes' = nodes /\ source' = source
      /\ Here' = Here + 1 /\ ClosesAt(stack[Len(stack)]) = Here /\ Here \in Nat
      /\ outcome.is = "parsing"
  BY LeaveBlockLeaves, TopOK DEF LeaveBlock, Running
<1>2. \A f \in 1..Len(stack') : f \in 1..Len(stack) /\ stack'[f] = stack[f]
  BY <1>1
<1>3. \A f \in 1..Len(stack') :
        /\ stack'[f].clause > 0
        /\ Len(Unmatched[stack'[f].pos - 1]) = Len(Unmatched[stack'[f].opener])
  BY <1>2 DEF Matched
<1>4. ASSUME NEW k \in 1..Len(source), k < Here + 1, Closes(source[k])
      PROVE  \E b \in nodes : IsBlock(b) /\ b.upto = k
  <2>1. CASE k = Here
    <3>1. Len(stack) \in 2..Len(stack)
      BY <1>1
    <3>2. PICK b \in nodes : NodeOf(b, stack[Len(stack)])
      BY <3>1 DEF Hanging
    <3> QED BY <1>1, <2>1, <3>2 DEF NodeOf
  <2>2. CASE k # Here
    <3>1. k < Here
      BY <1>1, <1>4, <2>2
    <3> QED BY <1>4, <3>1 DEF Matched
  <2> QED BY <2>1, <2>2
<1>5. \A b \in nodes' : IsBlock(b) => Pair(source, Unmatched, b.at, b.upto)
  BY <1>1 DEF Matched
<1> QED BY <1>1, <1>3, <1>4, <1>5 DEF Matched, IsBlock

\* A step that changes nothing but the outcome.
LEMMA StillMatched ==
  ASSUME Matched, Still, Unmatched' = Unmatched,
         outcome'.is \in {"parsing", "parsed", "refused"},
         outcome'.is = "parsed" => Here > Len(source)
  PROVE  Matched'
<1>1. stack' = stack /\ nodes' = nodes /\ source' = source
  BY DEF Still
<1>2. Here' = Here
  BY <1>1 DEF Here, Top
<1> QED BY <1>1, <1>2 DEF Matched, IsBlock

LEMMA StepMatched == IInv /\ Hanging /\ MatchInv /\ [Next]_vars => MatchInv'
<1> SUFFICES ASSUME IInv, Hanging, MatchInv, [Next]_vars, Balanced'
             PROVE  Matched'
  BY DEF MatchInv
<1>1. Unmatched' = Unmatched /\ Balanced
  BY DocumentStays, BalancedStays
<1>2. Matched
  BY <1>1 DEF MatchInv
<1>3. CASE UNCHANGED vars
  <2>1. Still /\ outcome' = outcome
    BY <1>3 DEF vars, Still
  <2> QED BY <1>1, <1>2, <2>1, StillMatched DEF Matched
<1>4. CASE Next
  <2>1. CASE Passes /\ outcome' = outcome
    BY <1>1, <1>2, <2>1, PassesMatched
  <2>2. CASE EnterBlock /\ Opens(Line) /\ Pair(source, Unmatched, Here, CloseLine) /\ outcome' = outcome
    BY <1>1, <1>2, <2>2, EnterBlockEnters, EnteredMatched
  <2>3. CASE LeaveBlock /\ outcome' = outcome
    BY <1>1, <1>2, <2>3, LeftMatched
  <2>4. CASE Still /\ outcome'.is = "refused"
    BY <1>1, <1>2, <2>4, StillMatched
  <2>5. CASE Finish /\ outcome'.is = "parsed"
    <3>1. Still
      BY <2>5 DEF Finish, Still
    <3>2. Here > Len(source)
      BY <2>5 DEF Finish, Hanging, Top, Here
    <3> QED BY <1>1, <1>2, <2>5, <3>1, <3>2, StillMatched
  <2> QED BY <1>1, <1>2, <1>4, <2>1, <2>2, <2>3, <2>4, <2>5, StepsOfNesting
<1> QED BY <1>3, <1>4

LEMMA MatchedCounts == IInv /\ MatchInv => CountingFindsTheMatch
<1> SUFFICES ASSUME IInv, MatchInv, Balanced PROVE
      /\ outcome.is \in {"parsing", "parsed", "refused"}
      /\ outcome.is = "parsed" => {<<b.at, b.upto>> : b \in {n \in nodes : IsBlock(n)}} = Pairs
  BY DEF CountingFindsTheMatch, Balanced
<1>1. Matched /\ Brackets(source, Unmatched) /\ Len(source) \in Nat /\ Here \in Nat
      /\ DOMAIN source = 1..Len(source)
  BY BalancedBrackets, TopOK DEF MatchInv, IInv
<1>2. ASSUME NEW o, NEW c, Pair(source, Unmatched, o, c)
      PROVE  /\ c \in DOMAIN source /\ source[c].k = "close"
             /\ Unmatched[c - 1][Len(Unmatched[c - 1])] = o
  <2>1. /\ o \in 1..Len(source) /\ c \in o + 1..Len(source) /\ source[c] = Close(source[o].name)
        /\ Unmatched[c - 1] = Append(Unmatched[c], o)
    BY <1>2 DEF Pair
  <2>2. c \in 1..Len(source) /\ c \in 0..Len(source) /\ o \in Nat
    BY <1>1, <2>1
  <2>3. Unmatched[c] \in Seq(Nat)
    BY <1>1, <2>2 DEF Brackets
  <2> QED BY <1>1, <2>1, <2>2, <2>3, CloseIs
<1>3. ASSUME outcome.is = "parsed", NEW c \in DOMAIN source, source[c].k = "close"
      PROVE  \E b \in nodes : IsBlock(b) /\ b.upto = c
                              /\ b.at = Unmatched[c - 1][Len(Unmatched[c - 1])]
  <2>1. Closes(source[c])
    <3>1. OnlyNests /\ source \in Seq(Shapes)
      BY DEF Balanced, IInv
    <3>2. Opens(source[c]) \/ Closes(source[c]) \/ Plain(source[c])
      BY <1>1, <3>1, LineKinds
    <3> QED BY <1>3, <3>2, LineShapes
  <2>2. c < Here
    BY <1>1, <1>3 DEF Matched
  <2>3. PICK b \in nodes : IsBlock(b) /\ b.upto = c
    BY <1>1, <2>1, <2>2 DEF Matched
  <2>4. Pair(source, Unmatched, b.at, c)
    BY <1>1, <2>3 DEF Matched
  <2> QED BY <1>2, <2>3, <2>4
<1>4. ASSUME outcome.is = "parsed"
      PROVE  {<<b.at, b.upto>> : b \in {n \in nodes : IsBlock(n)}} = Pairs
  <2> DEFINE B == {<<b.at, b.upto>> : b \in {n \in nodes : IsBlock(n)}}
             last(c) == Unmatched[c - 1][Len(Unmatched[c - 1])]
  <2>1. Pairs = {<<last(c), c>> : c \in {k \in DOMAIN source : source[k].k = "close"}}
    BY DEF Pairs
  <2>2. ASSUME NEW b \in nodes, IsBlock(b)
        PROVE  b.upto \in DOMAIN source /\ source[b.upto].k = "close" /\ last(b.upto) = b.at
    <3>1. Pair(source, Unmatched, b.at, b.upto)
      BY <1>1, <2>2 DEF Matched
    <3> QED BY <1>2, <3>1
  <2>3. \A c \in DOMAIN source : source[c].k = "close" =>
          \E b \in nodes : IsBlock(b) /\ b.upto = c /\ b.at = last(c)
    BY <1>3, <1>4
  <2> HIDE DEF last
  <2>4. B \subseteq Pairs
    BY <2>1, <2>2
  <2>5. Pairs \subseteq B
    BY <2>1, <2>3
  <2> QED BY <2>4, <2>5
<1> QED BY <1>1, <1>4 DEF Matched

\* For all documents: what a block holds is between its tags and hangs under it,
\* a block within one of the same name finds its close tag, and where tags match
\* as brackets do, counting those of one name finds the matching ones
\* (parser.ts:249-290, 352-444).
THEOREM TreesAreNested == Spec => []BlocksNest
<1> DEFINE Inv == IInv /\ Hanging /\ AllSearched /\ SameNameCloses /\ MatchInv
<1>1. Init => Inv
  <2>1. Init => SameNameCloses
    BY DEF Init, SameNameCloses
  <2> QED BY <2>1, Initially, InitHanging, InitSearched, InitMatched DEF MatchInv
<1>2. Inv /\ [Next]_vars => Inv'
  BY EveryStep, Stutter, StepHanging, StepSearched, StepSameName, StepMatched DEF Advanced
<1>3. Inv => BlocksNest
  BY MatchedCounts DEF BlocksNest, Hanging
<1> QED BY <1>1, <1>2, <1>3, PTL DEF Spec

-----------------------------------------------------------------------------
(* Migration: a second run changes nothing.  The first run is followed pass   *)
(* by pass, and the second over what it has written: where the first is at    *)
(* st, the second is at Again(st), and the pass that took the first on takes  *)
(* the second on by the lines that pass has written.                          *)

\* The loop's states.
Passing ==
    [i : Nat \ {0}, out : Seq(Lines), open : Seq(Vocabulary), fence : Vocabulary \cup {"none"},
     changes : Nat]

Begins(p, s) == Len(p) <= Len(s) /\ \A k \in 1..Len(p) : s[k] = p[k]

\* What a pass does to a state: n lines are read, those of seg are written.
Grown(st, n, seg, o, f, c) ==
    [i |-> st.i + n, out |-> st.out \o seg, open |-> o, fence |-> f, changes |-> st.changes + c]

\* The state of a second run, over what the first has written, where the first is st.
Again(st) ==
    [i |-> Len(st.out) + 1, out |-> st.out, open |-> st.open, fence |-> st.fence, changes |-> 0]

LEMMA PassingIs ==
    ASSUME NEW st \in Passing
    PROVE  st = [i |-> st.i, out |-> st.out, open |-> st.open, fence |-> st.fence,
                 changes |-> st.changes]
BY DEF Passing

LEMMA CopyIs ==
    ASSUME NEW st \in Passing, NEW l \in Lines
    PROVE  /\ Copy(st, l) \in Passing /\ Change(st, l) \in Passing
           /\ Copy(st, l) = Grown(st, 1, <<l>>, st.open, st.fence, 0)
           /\ Change(st, l) = Grown(st, 1, <<l>>, st.open, st.fence, 1)
<1> DEFINE o == Append(st.out, l)
           r == [st EXCEPT !.i = @ + 1, !.out = o]
           s == [r EXCEPT !.changes = @ + 1]
<1>1. st.out \in Seq(Lines) /\ st.i + 1 \in Nat \ {0} /\ st.changes \in Nat
  BY DEF Passing
<1>2. o = st.out \o <<l>> /\ o \in Seq(Lines)
  BY <1>1, AppendIsConcat, AppendProperties
<1> HIDE DEF o
<1>3. r \in Passing /\ r.i = st.i + 1 /\ r.out = o /\ r.open = st.open /\ r.fence = st.fence
      /\ r.changes = st.changes
  BY <1>1, <1>2 DEF Passing
<1>4. Copy(st, l) = r
  BY DEF Copy, o
<1> HIDE DEF r
<1>5. s \in Passing /\ s.i = r.i /\ s.out = r.out /\ s.open = r.open /\ s.fence = r.fence
      /\ s.changes = r.changes + 1
  BY <1>3 DEF Passing
<1>6. Change(st, l) = s
  BY <1>4 DEF Change
<1> HIDE DEF s
<1>7. st.changes + 0 = st.changes
  BY <1>1
<1>8. r = Grown(st, 1, <<l>>, st.open, st.fence, 0)
  <2>1. r = [i |-> r.i, out |-> r.out, open |-> r.open, fence |-> r.fence, changes |-> r.changes]
    BY <1>3, PassingIs
  <2> QED BY <1>2, <1>3, <1>7, <2>1 DEF Grown
<1>9. s = Grown(st, 1, <<l>>, st.open, st.fence, 1)
  <2>1. s = [i |-> s.i, out |-> s.out, open |-> s.open, fence |-> s.fence, changes |-> s.changes]
    BY <1>5, PassingIs
  <2> QED BY <1>2, <1>3, <1>5, <2>1 DEF Grown
<1> QED BY <1>3, <1>4, <1>5, <1>6, <1>8, <1>9

\* A pass of the second run does what the first did.
LEMMA AgainGrows ==
    ASSUME NEW st \in Passing, NEW n, NEW seg \in Seq(Lines), NEW o, NEW f, NEW c
    PROVE  Again(Grown(st, n, seg, o, f, c)) = Grown(Again(st), Len(seg), seg, o, f, 0)
<1>1. st.out \in Seq(Lines)
  BY DEF Passing
<1>2. Len(st.out \o seg) + 1 = (Len(st.out) + 1) + Len(seg)
  <2>1. Len(st.out \o seg) = Len(st.out) + Len(seg)
    BY <1>1, ConcatProperties
  <2>2. Len(st.out) \in Nat /\ Len(seg) \in Nat
    BY <1>1, LenProperties
  <2> QED BY <2>1, <2>2
<1>3. Again(Grown(st, n, seg, o, f, c)) =
        [i |-> Len(st.out \o seg) + 1, out |-> st.out \o seg, open |-> o, fence |-> f, changes |-> 0]
  BY DEF Again, Grown
<1>4. Grown(Again(st), Len(seg), seg, o, f, 0) =
        [i |-> (Len(st.out) + 1) + Len(seg), out |-> st.out \o seg, open |-> o, fence |-> f,
         changes |-> 0 + 0]
  BY DEF Again, Grown
<1>5. 0 + 0 = 0
  OBVIOUS
<1> QED BY <1>2, <1>3, <1>4, <1>5, Zenon

LEMMA AgainIs ==
    ASSUME NEW st \in Passing
    PROVE  Again(st) \in Passing
<1>1. Len(st.out) + 1 \in Nat \ {0}
  BY LenProperties DEF Passing
<1> QED BY <1>1 DEF Passing, Again

\* What is written is a line.
LEMMA LinesAre ==
    ASSUME NEW l \in Lines
    PROVE  /\ l.kind \in Kinds /\ l.name \in Vocabulary /\ l.indent \in Nat
           /\ l.args \in Seq(Vocabulary) /\ l.slash \in BOOLEAN /\ (l.slash => l.kind = "dir")
           /\ l = [kind |-> l.kind, name |-> l.name, indent |-> l.indent, args |-> l.args,
                   slash |-> l.slash]
BY DEF Lines

LEMMA WrittenAre ==
    ASSUME NEW n \in Vocabulary, NEW i \in Nat, NEW a \in Seq(Vocabulary), NEW b \in BOOLEAN
    PROVE  /\ Directive(n, i, a, b) \in Lines /\ Directive(n, i, a, b).kind = "dir"
           /\ Directive(n, i, a, b).name = n /\ Directive(n, i, a, b).indent = i
           /\ Directive(n, i, a, b).slash = b
           /\ CloseTag(n, i) \in Lines /\ CloseTag(n, i).kind = "close" /\ CloseTag(n, i).name = n
           /\ TextLine(i, n) \in Lines /\ TextLine(i, n).kind = "text" /\ TextLine(i, n).indent = i
<1>1. <<>> \in Seq(Vocabulary)
  BY EmptySeq
<1>2. Directive(n, i, a, b) = [kind |-> "dir", name |-> n, indent |-> i, args |-> a, slash |-> b]
  <2> DEFINE e == <<>>
             r == [kind |-> "dir", name |-> n, indent |-> i, args |-> e, slash |-> FALSE]
  <2>1. Directive(n, i, a, b) = [r EXCEPT !.args = a, !.slash = b]
    BY DEF Directive, NewLine
  <2> HIDE DEF e
  <2> QED BY <2>1
<1>3. CloseTag(n, i) = [kind |-> "close", name |-> n, indent |-> i, args |-> <<>>, slash |-> FALSE]
  BY DEF CloseTag, NewLine
<1>4. TextLine(i, n) = [kind |-> "text", name |-> n, indent |-> i, args |-> <<>>, slash |-> FALSE]
  BY DEF TextLine, NewLine
<1>5. Directive(n, i, a, b) \in Lines
  BY <1>2 DEF Lines, Kinds
<1>6. CloseTag(n, i) \in Lines
  BY <1>1, <1>3 DEF Lines, Kinds
<1>7. TextLine(i, n) \in Lines
  BY <1>1, <1>4 DEF Lines, Kinds
<1> QED BY <1>2, <1>3, <1>4, <1>5, <1>6, <1>7

LEMMA TagsAre ==
    ASSUME NEW n \in Vocabulary, NEW i \in Nat
    PROVE  /\ CloseTag(n, i) \in Lines /\ CloseTag(n, i).kind = "close" /\ CloseTag(n, i).name = n
           /\ TextLine(i, n) \in Lines /\ TextLine(i, n).kind = "text" /\ TextLine(i, n).indent = i
<1> DEFINE e == <<>>
           b == FALSE
<1>1. e \in Seq(Vocabulary) /\ b \in BOOLEAN
  BY EmptySeq
<1> HIDE DEF e, b
<1> QED BY <1>1, WrittenAre

\* The lines that continue line i: all up to the first that does not.
LEMMA ContinuationsAre ==
    ASSUME NEW ls \in Seq(Lines), NEW i \in 1..Len(ls)
    PROVE  LET c == Continuations(ls, i)
           IN /\ c \in Seq(Lines) /\ i + Len(c) <= Len(ls)
              /\ \A k \in 1..Len(c) : c[k] = ls[i + k] /\ Continues(ls[i + k], ls[i].indent)
              /\ i + Len(c) < Len(ls) => ~ Continues(ls[i + Len(c) + 1], ls[i].indent)
              /\ c = SubSeq(ls, i + 1, i + Len(c))
<1> DEFINE N == Len(ls)
           stops == { j \in (i + 1)..N : ~ Continues(ls[j], ls[i].indent) }
           cands == {N + 1} \cup stops
           m == Min(cands)
           c == SubSeq(ls, i + 1, m - 1)
<1>1. N \in Nat /\ i \in 1..N
  BY LenProperties
<1>2. cands \in SUBSET Nat /\ cands # {}
  BY <1>1
<1>3. m \in cands /\ \A k \in cands : m <= k
  <2> HIDE DEF cands
  <2> QED BY <1>2, MinOf
<1>4. Continuations(ls, i) = c
  BY DEF Continuations
<1>5. m \in (i + 1)..(N + 1)
  BY <1>1, <1>3
<1>6. \A j \in (i + 1)..(m - 1) : Continues(ls[j], ls[i].indent)
  <2>1. TAKE j \in (i + 1)..(m - 1)
  <2>2. j \in (i + 1)..N /\ ~ (m <= j)
    BY <1>1, <1>5
  <2>3. j \notin stops
    BY <1>3, <2>2
  <2> QED BY <2>2, <2>3
<1>7. m <= N => ~ Continues(ls[m], ls[i].indent)
  BY <1>1, <1>3
<1> HIDE DEF m
<1>8. c \in Seq(Lines) /\ Len(c) = m - 1 - i /\ \A k \in 1..(m - 1 - i) : c[k] = ls[i + k]
  <2>1. \A j \in (i + 1)..(m - 1) : ls[j] \in Lines
    BY <1>1, <1>5, ElementOfSeq
  <2> DEFINE a == i + 1
             b == m - 1
  <2>2. a \in Nat /\ b \in Nat /\ 1 <= a /\ b <= N /\ a <= b + 1
    BY <1>1, <1>5
  <2>3. b + 1 - a = m - 1 - i /\ \A k \in 1..(m - 1 - i) : a + k - 1 = i + k
    BY <1>1, <1>5
  <2> HIDE DEF a, b
  <2>4. /\ SubSeq(ls, a, b) \in Seq(Lines)
        /\ Len(SubSeq(ls, a, b)) = IF a <= b THEN b - a + 1 ELSE 0
        /\ \A k \in 1..(b - a + 1) : SubSeq(ls, a, b)[k] = ls[a + k - 1]
    BY <1>1, <2>2, SubSeqProperties
  <2>5. Len(SubSeq(ls, a, b)) = b + 1 - a
    BY <2>2, <2>4
  <2>6. c = SubSeq(ls, a, b)
    BY DEF a, b
  <2> HIDE DEF c
  <2>7. \A k \in 1..(m - 1 - i) : k \in 1..(b - a + 1)
    BY <1>1, <1>5, <2>2, <2>3
  <2> QED BY <2>3, <2>4, <2>5, <2>6, <2>7
<1> HIDE DEF c
<1>9. i + Len(c) = m - 1 /\ i + Len(c) <= N
  BY <1>1, <1>5, <1>8
<1>10. \A k \in 1..Len(c) : c[k] = ls[i + k] /\ Continues(ls[i + k], ls[i].indent)
  <2>1. TAKE k \in 1..Len(c)
  <2>2. k \in 1..(m - 1 - i) /\ i + k \in (i + 1)..(m - 1)
    BY <1>1, <1>5, <1>8
  <2> QED BY <1>6, <1>8, <2>2
<1>11. i + Len(c) < N => ~ Continues(ls[i + Len(c) + 1], ls[i].indent)
  <2>1. i + Len(c) + 1 = m
    BY <1>1, <1>5, <1>9
  <2> QED BY <1>1, <1>5, <1>7, <1>9, <2>1
<1>12. c = SubSeq(ls, i + 1, i + Len(c))
  BY <1>9 DEF c
<1> QED BY <1>4, <1>8, <1>9, <1>10, <1>11, <1>12

\* They are as many as n if the next n lines continue line i and no more.
LEMMA ContinuationsTo ==
    ASSUME NEW ls \in Seq(Lines), NEW i \in 1..Len(ls), NEW n \in Nat, i + n < Len(ls),
           \A k \in 1..n : Continues(ls[i + k], ls[i].indent),
           ~ Continues(ls[i + n + 1], ls[i].indent)
    PROVE  Len(Continuations(ls, i)) = n
<1> DEFINE m == Len(Continuations(ls, i))
<1>1. /\ m \in Nat /\ i + m <= Len(ls)
      /\ \A k \in 1..m : Continues(ls[i + k], ls[i].indent)
      /\ i + m < Len(ls) => ~ Continues(ls[i + m + 1], ls[i].indent)
  BY ContinuationsAre, LenProperties
<1> HIDE DEF m
<1>2. i \in Nat /\ Len(ls) \in Nat
  BY LenProperties
<1>3. ~ (m < n)
  <2>1. SUFFICES ASSUME m < n PROVE FALSE
    OBVIOUS
  <2>2. m + 1 \in 1..n /\ i + m < Len(ls) /\ i + (m + 1) = i + m + 1
    BY <1>1, <1>2, <2>1
  <2> QED BY <1>1, <2>2
<1>4. ~ (n < m)
  <2>1. SUFFICES ASSUME n < m PROVE FALSE
    OBVIOUS
  <2>2. n + 1 \in 1..m /\ i + (n + 1) = i + n + 1
    BY <1>1, <1>2, <2>1
  <2> QED BY <1>1, <2>2
<1> QED BY <1>1, <1>3, <1>4 DEF m

\* A close tag for the innermost block does what `@end` did.
LEMMA WithoutIs ==
    ASSUME NEW os \in Seq(Vocabulary)
    PROVE  /\ \A n \in Vocabulary : Without(os, n) \in Seq(Vocabulary)
           /\ os # <<>> => /\ Last(os) \in Vocabulary /\ Front(os) \in Seq(Vocabulary)
                             /\ Without(os, Last(os)) = Front(os)
<1> DEFINE N == Len(os)
           at(n) == { s \in 1..N : os[s] = n }
<1>1. N \in Nat /\ DOMAIN os = 1..N /\ \A k \in 1..N : os[k] \in Vocabulary
  BY LenProperties, ElementOfSeq
<1>2. ASSUME NEW n
      PROVE  Without(os, n) = IF at(n) = {} THEN os ELSE RemoveAt(os, Max(at(n)))
  BY <1>1 DEF Without
<1>3. ASSUME NEW n, at(n) # {}
      PROVE  Max(at(n)) \in at(n) /\ \A k \in at(n) : k <= Max(at(n))
  <2>1. at(n) \in SUBSET (0..N)
    BY <1>1
  <2> HIDE DEF at
  <2> QED BY <1>1, <1>3, <2>1, MaxOf
<1> HIDE DEF at
<1>4. ASSUME NEW a \in 1..N, NEW b \in 0..N
      PROVE  SubSeq(os, a, b) \in Seq(Vocabulary)
  BY <1>1, SubSeqProperties
<1>5. ASSUME NEW k \in 1..N
      PROVE  RemoveAt(os, k) \in Seq(Vocabulary)
  <2>1. SubSeq(os, 1, k - 1) \in Seq(Vocabulary)
    BY <1>1, SubSeqProperties
  <2>2. SubSeq(os, k + 1, N) \in Seq(Vocabulary)
    BY <1>1, SubSeqProperties
  <2> QED BY <2>1, <2>2, ConcatProperties DEF RemoveAt
<1>6. \A n \in Vocabulary : Without(os, n) \in Seq(Vocabulary)
  <2>1. \A n : at(n) # {} => Max(at(n)) \in 1..N
    BY <1>3 DEF at
  <2> QED BY <1>2, <1>5, <2>1
<1>7. ASSUME os # <<>>
      PROVE  /\ Last(os) \in Vocabulary /\ Front(os) \in Seq(Vocabulary)
             /\ Without(os, Last(os)) = Front(os)
  <2>1. N \in 1..N /\ N # 0
    BY <1>1, <1>7, EmptySeq
  <2>2. Last(os) = os[N] /\ Front(os) = SubSeq(os, 1, N - 1)
    BY DEF Last, Front
  <2>3. N \in at(Last(os))
    BY <2>1, <2>2 DEF at
  <2>4. Max(at(Last(os))) = N
    <3>1. Max(at(Last(os))) \in 1..N /\ N <= Max(at(Last(os)))
      BY <1>3, <2>3 DEF at
    <3> QED BY <1>1, <3>1
  <2>5. Front(os) \in Seq(Vocabulary)
    BY <1>1, <2>1, <2>2, SubSeqProperties
  <2>6. SubSeq(os, N + 1, N) = <<>>
    BY <1>1, SubSeqProperties
  <2>7. Without(os, Last(os)) = Front(os) \o <<>>
    <3>1. Without(os, Last(os)) = RemoveAt(os, N)
      BY <1>2, <2>3, <2>4
    <3> QED BY <2>2, <2>6, <3>1 DEF RemoveAt
  <2>8. Front(os) \o <<>> = Front(os)
    BY <2>5
  <2> QED BY <1>1, <2>1, <2>2, <2>5, <2>7, <2>8
<1> QED BY <1>6, <1>7
\* The arguments of Grown are of their types.
Typed(n, seg, o, f, c) ==
    /\ n \in Nat \ {0} /\ seg \in Seq(Lines) /\ seg # <<>>
    /\ o \in Seq(Vocabulary) /\ f \in Vocabulary \cup {"none"} /\ c \in Nat

LEMMA GrownIs ==
    ASSUME NEW st \in Passing, NEW n, NEW seg, NEW o, NEW f, NEW c, Typed(n, seg, o, f, c)
    PROVE  /\ Grown(st, n, seg, o, f, c) \in Passing
           /\ \A q \in Seq(Vocabulary) :
                 [Grown(st, n, seg, o, f, c) EXCEPT !.open = q] = Grown(st, n, seg, q, f, c)
           /\ \A q \in Vocabulary \cup {"none"} :
                 [Grown(st, n, seg, o, f, c) EXCEPT !.fence = q] = Grown(st, n, seg, o, q, c)
<1>1. st.i + n \in Nat \ {0} /\ st.out \o seg \in Seq(Lines) /\ st.changes + c \in Nat
  <2>1. st.i \in Nat \ {0} /\ st.out \in Seq(Lines) /\ st.changes \in Nat
    BY DEF Passing
  <2>2. st.out \o seg \in Seq(Lines)
    BY <2>1, ConcatProperties DEF Typed
  <2> QED BY <2>1, <2>2 DEF Typed
<1> DEFINE i2 == st.i + n
           out2 == st.out \o seg
           c2 == st.changes + c
           g == [i |-> i2, out |-> out2, open |-> o, fence |-> f, changes |-> c2]
<1>2. Grown(st, n, seg, o, f, c) = g
  BY DEF Grown
<1>3. \A q : Grown(st, n, seg, q, f, c) = [i |-> i2, out |-> out2, open |-> q, fence |-> f, changes |-> c2]
  BY DEF Grown
<1>4. \A q : Grown(st, n, seg, o, q, c) = [i |-> i2, out |-> out2, open |-> o, fence |-> q, changes |-> c2]
  BY DEF Grown
<1>5. i2 \in Nat \ {0} /\ out2 \in Seq(Lines) /\ c2 \in Nat
  BY <1>1
<1> HIDE DEF i2, out2, c2
<1>6. g \in Passing /\ g.i = i2 /\ g.out = out2 /\ g.open = o /\ g.fence = f /\ g.changes = c2
  BY <1>5 DEF Passing, Typed
<1> HIDE DEF g
<1>7. ASSUME NEW q \in Seq(Vocabulary)
      PROVE  [g EXCEPT !.open = q] = [i |-> i2, out |-> out2, open |-> q, fence |-> f, changes |-> c2]
  <2> DEFINE r == [g EXCEPT !.open = q]
  <2>1. r \in Passing /\ r.i = i2 /\ r.out = out2 /\ r.open = q /\ r.fence = f /\ r.changes = c2
    BY <1>6 DEF Passing
  <2> HIDE DEF r
  <2>2. r = [i |-> r.i, out |-> r.out, open |-> r.open, fence |-> r.fence, changes |-> r.changes]
    BY <2>1, PassingIs
  <2> QED BY <2>1, <2>2 DEF r
<1>8. ASSUME NEW q \in Vocabulary \cup {"none"}
      PROVE  [g EXCEPT !.fence = q] = [i |-> i2, out |-> out2, open |-> o, fence |-> q, changes |-> c2]
  <2> DEFINE r == [g EXCEPT !.fence = q]
  <2>1. r \in Passing /\ r.i = i2 /\ r.out = out2 /\ r.open = o /\ r.fence = q /\ r.changes = c2
    BY <1>6 DEF Passing
  <2> HIDE DEF r
  <2>2. r = [i |-> r.i, out |-> r.out, open |-> r.open, fence |-> r.fence, changes |-> r.changes]
    BY <2>1, PassingIs
  <2> QED BY <2>1, <2>2 DEF r
<1>9. \A q \in Seq(Vocabulary) : [Grown(st, n, seg, o, f, c) EXCEPT !.open = q] = Grown(st, n, seg, q, f, c)
  BY <1>2, <1>3, <1>7
<1>10. \A q \in Vocabulary \cup {"none"} :
          [Grown(st, n, seg, o, f, c) EXCEPT !.fence = q] = Grown(st, n, seg, o, q, c)
  BY <1>2, <1>4, <1>8
<1> QED BY <1>2, <1>6, <1>9, <1>10

\* A line copied or changed, with what becomes of the open blocks and the fence.
LEMMA OneLineIs ==
    ASSUME NEW st \in Passing, NEW l \in Lines
    PROVE  /\ \A q \in Seq(Vocabulary) :
                 /\ [Copy(st, l) EXCEPT !.open = q] = Grown(st, 1, <<l>>, q, st.fence, 0)
                 /\ [Change(st, l) EXCEPT !.open = q] = Grown(st, 1, <<l>>, q, st.fence, 1)
           /\ \A q \in Vocabulary \cup {"none"} :
                 [Copy(st, l) EXCEPT !.fence = q] = Grown(st, 1, <<l>>, st.open, q, 0)
<1>1. st.open \in Seq(Vocabulary) /\ st.fence \in Vocabulary \cup {"none"}
  BY DEF Passing
<1>2. <<l>> \in Seq(Lines) /\ <<l>> # <<>>
  OBVIOUS
<1>3. Typed(1, <<l>>, st.open, st.fence, 0) /\ Typed(1, <<l>>, st.open, st.fence, 1)
  BY <1>1, <1>2 DEF Typed
<1>4. /\ Copy(st, l) = Grown(st, 1, <<l>>, st.open, st.fence, 0)
      /\ Change(st, l) = Grown(st, 1, <<l>>, st.open, st.fence, 1)
  BY CopyIs
<1> DEFINE u == <<l>>
<1> HIDE DEF u
<1>5. ASSUME NEW q \in Seq(Vocabulary), NEW c \in {0, 1}
      PROVE  [Grown(st, 1, u, st.open, st.fence, c) EXCEPT !.open = q] = Grown(st, 1, u, q, st.fence, c)
  <2>1. Typed(1, u, st.open, st.fence, c)
    BY <1>3 DEF u
  <2>2. \A p \in Seq(Vocabulary) :
           [Grown(st, 1, u, st.open, st.fence, c) EXCEPT !.open = p] = Grown(st, 1, u, p, st.fence, c)
    BY ONLY <2>1, st \in Passing, GrownIs
  <2> QED BY <2>2, Zenon
<1>7. \A q \in Vocabulary \cup {"none"} :
         [Grown(st, 1, <<l>>, st.open, st.fence, 0) EXCEPT !.fence = q] = Grown(st, 1, <<l>>, st.open, q, 0)
  BY <1>3, GrownIs
<1> QED BY <1>4, <1>5, <1>7 DEF u

\* What a pass does, by the kind of the line it is at.
PerKind(s, ls, l, r) ==
    /\ l.kind = "fence" => r = Grown(s, 1, <<l>>, s.open, Fence(s.fence, l.name), 0)
    /\ (l.kind # "fence" /\ s.fence # "none") => r = Grown(s, 1, <<l>>, s.open, s.fence, 0)
    /\ s.fence = "none" =>
       /\ l.kind = "arrow" =>
             r = Grown(s, 1, <<Directive("on-complete", l.indent, l.args, TRUE)>>, s.open, s.fence, 1)
       /\ (l.kind = "end" /\ s.open = <<>>) => r = Grown(s, 1, <<l>>, s.open, s.fence, 0)
       /\ (l.kind = "end" /\ s.open # <<>>) =>
             r = Grown(s, 1, <<CloseTag(Last(s.open), l.indent)>>, Front(s.open), s.fence, 1)
       /\ l.kind = "endif" =>
             r = Grown(s, 1, <<CloseTag("if", l.indent)>>, Without(s.open, "if"), s.fence, 1)
       /\ l.kind = "endswitch" =>
             r = Grown(s, 1, <<CloseTag("switch", l.indent)>>, Without(s.open, "switch"), s.fence, 1)
       /\ l.kind = "close" => r = Grown(s, 1, <<l>>, Without(s.open, l.name), s.fence, 0)
       /\ (l.kind = "dir" /\ l.name \in BLOCK_OPENERS) =>
             r = Grown(s, 1, <<l>>, Append(s.open, l.name), s.fence, 0)
       /\ (l.kind = "dir" /\ l.name \notin BLOCK_OPENERS /\ l.name \in INLINE_DIRECTIVES /\ ~ l.slash) =>
             r = Inline(s, ls, l)
       /\ (l.kind = "dir" /\ l.name \notin BLOCK_OPENERS /\ (l.name \notin INLINE_DIRECTIVES \/ l.slash)) =>
             r = Grown(s, 1, <<l>>, s.open, s.fence, 0)
       /\ l.kind \in {"text", "blank", "rule", "on"} => r = Grown(s, 1, <<l>>, s.open, s.fence, 0)

LEMMA OpenersAreNotInline == \A n \in BLOCK_OPENERS : n \notin INLINE_DIRECTIVES
BY DEF BLOCK_OPENERS, INLINE_DIRECTIVES

LEMMA StepIs ==
    ASSUME NEW s \in Passing, NEW ls \in Seq(Lines), s.i \in 1..Len(ls)
    PROVE  PerKind(s, ls, ls[s.i], Step(s, ls))
<1> DEFINE l == ls[s.i]
           r == Step(s, ls)
<1>1. l \in Lines
  BY ElementOfSeq
<1>2. s.open \in Seq(Vocabulary) /\ s.fence \in Vocabulary \cup {"none"}
  BY DEF Passing
<1>3. /\ l.kind \in Kinds /\ l.name \in Vocabulary /\ l.indent \in Nat
      /\ l.args \in Seq(Vocabulary) /\ l.slash \in BOOLEAN
  BY <1>1, LinesAre
<1>4. "if" \in Vocabulary /\ "switch" \in Vocabulary /\ "on-complete" \in Vocabulary
  BY VocabularyAssumption DEF BLOCK_OPENERS, INLINE_DIRECTIVES
<1>5. Copy(s, l) = Grown(s, 1, <<l>>, s.open, s.fence, 0)
  BY <1>1, CopyIs
<1> HIDE DEF l, r
<1>6. ls[s.i] = l /\ r = Step(s, ls)
  BY DEF l, r
<1>7. ASSUME l.kind = "fence"
      PROVE  r = Grown(s, 1, <<l>>, s.open, Fence(s.fence, l.name), 0)
  <2>1. r = InOrOutOfFence(s, l)
    BY <1>6, <1>7 DEF Step
  <2>2. Fence(s.fence, l.name) \in Vocabulary \cup {"none"}
    BY <1>2, <1>3 DEF Fence
  <2>3. Copy(s, l).fence = s.fence
    BY <1>5 DEF Grown
  <2>4. InOrOutOfFence(s, l) = [Copy(s, l) EXCEPT !.fence = Fence(s.fence, l.name)]
    BY <2>3 DEF InOrOutOfFence
  <2> QED BY <1>1, <2>1, <2>2, <2>4, OneLineIs
<1>8. ASSUME l.kind # "fence", s.fence # "none"
      PROVE  r = Grown(s, 1, <<l>>, s.open, s.fence, 0)
  <2>1. r = Copy(s, l)
    BY <1>6, <1>8 DEF Step
  <2> QED BY <1>5, <2>1
<1>9. ASSUME s.fence = "none"
      PROVE  /\ l.kind = "arrow" => r = Transition(s, l)
             /\ l.kind = "end" => r = BareEnd(s, l)
             /\ l.kind = "endif" => r = NamedEnd(s, l, "if")
             /\ l.kind = "endswitch" => r = NamedEnd(s, l, "switch")
             /\ l.kind = "close" => r = BlockCloses(s, l)
             /\ (l.kind = "dir" /\ l.name \in BLOCK_OPENERS) => r = BlockOpens(s, l)
             /\ (l.kind = "dir" /\ l.name \notin BLOCK_OPENERS /\ l.name \in INLINE_DIRECTIVES
                 /\ ~ l.slash) => r = Inline(s, ls, l)
             /\ (l.kind = "dir" /\ l.name \notin BLOCK_OPENERS
                 /\ (l.name \notin INLINE_DIRECTIVES \/ l.slash)) => r = Copy(s, l)
             /\ l.kind = "text" => r = Copy(s, l)
             /\ l.kind = "blank" => r = Copy(s, l)
             /\ l.kind = "rule" => r = Copy(s, l)
             /\ l.kind = "on" => r = Copy(s, l)
  <2>1. l.kind = "arrow" => r = Transition(s, l)
    BY <1>6, <1>9, Zenon DEF Step
  <2>2. l.kind = "end" => r = BareEnd(s, l)
    BY <1>6, <1>9, Zenon DEF Step
  <2>3. l.kind = "endif" => r = NamedEnd(s, l, "if")
    BY <1>6, <1>9, Zenon DEF Step
  <2>4. l.kind = "endswitch" => r = NamedEnd(s, l, "switch")
    BY <1>6, <1>9, Zenon DEF Step
  <2>5. l.kind = "close" => r = BlockCloses(s, l)
    BY <1>6, <1>9, Zenon DEF Step
  <2>6. (l.kind = "dir" /\ l.name \in BLOCK_OPENERS) => r = BlockOpens(s, l)
    <3>1. l.name \in BLOCK_OPENERS => l.name \notin INLINE_DIRECTIVES
      BY OpenersAreNotInline
    <3> QED BY <1>6, <1>9, <3>1, Zenon DEF Step
  <2>7. (l.kind = "dir" /\ l.name \notin BLOCK_OPENERS /\ l.name \in INLINE_DIRECTIVES
         /\ ~ l.slash) => r = Inline(s, ls, l)
    BY <1>6, <1>9, Zenon DEF Step
  <2>8. (l.kind = "dir" /\ l.name \notin BLOCK_OPENERS
         /\ (l.name \notin INLINE_DIRECTIVES \/ l.slash)) => r = Copy(s, l)
    BY <1>6, <1>9, Zenon DEF Step
  <2>9. l.kind = "text" => r = Copy(s, l)
    BY <1>6, <1>9, Zenon DEF Step
  <2>10. l.kind = "blank" => r = Copy(s, l)
    BY <1>6, <1>9, Zenon DEF Step
  <2>11. l.kind = "rule" => r = Copy(s, l)
    BY <1>6, <1>9, Zenon DEF Step
  <2>12. l.kind = "on" => r = Copy(s, l)
    BY <1>6, <1>9, Zenon DEF Step
  <2> QED BY <2>1, <2>2, <2>3, <2>4, <2>5, <2>6, <2>7, <2>8, <2>9, <2>10, <2>11, <2>12
<1>10. Transition(s, l) =
         Grown(s, 1, <<Directive("on-complete", l.indent, l.args, TRUE)>>, s.open, s.fence, 1)
  <2>1. Directive("on-complete", l.indent, l.args, TRUE) \in Lines
    BY <1>3, <1>4, WrittenAre
  <2> QED BY <2>1, CopyIs DEF Transition
<1>11. s.open = <<>> => BareEnd(s, l) = Grown(s, 1, <<l>>, s.open, s.fence, 0)
  BY <1>5 DEF BareEnd
<1>12. ASSUME NEW n \in Vocabulary, NEW q \in Seq(Vocabulary)
       PROVE  /\ CloseTag(n, l.indent) \in Lines
              /\ Change(s, CloseTag(n, l.indent)).open = s.open
              /\ [Change(s, CloseTag(n, l.indent)) EXCEPT !.open = q] =
                    Grown(s, 1, <<CloseTag(n, l.indent)>>, q, s.fence, 1)
  <2>1. <<>> \in Seq(Vocabulary)
    BY EmptySeq
  <2>2. CloseTag(n, l.indent) \in Lines
    BY <1>3, <2>1, WrittenAre
  <2> DEFINE t == CloseTag(n, l.indent)
  <2> HIDE DEF t
  <2>3. t \in Lines
    BY <2>2 DEF t
  <2>4. Change(s, t) = Grown(s, 1, <<t>>, s.open, s.fence, 1)
    BY <2>3, CopyIs
  <2>5. Change(s, t).open = s.open
    BY <2>4 DEF Grown
  <2>6. [Change(s, t) EXCEPT !.open = q] = Grown(s, 1, <<t>>, q, s.fence, 1)
    BY <2>3, OneLineIs
  <2> QED BY <2>3, <2>5, <2>6 DEF t
<1>13. s.open # <<>> =>
         BareEnd(s, l) = Grown(s, 1, <<CloseTag(Last(s.open), l.indent)>>, Front(s.open), s.fence, 1)
  <2>1. SUFFICES ASSUME s.open # <<>>
                 PROVE  BareEnd(s, l) =
                          Grown(s, 1, <<CloseTag(Last(s.open), l.indent)>>, Front(s.open), s.fence, 1)
    OBVIOUS
  <2> DEFINE n == Last(s.open)
             q == Front(s.open)
             t == CloseTag(n, l.indent)
  <2>2. n \in Vocabulary /\ q \in Seq(Vocabulary)
    BY <1>2, <2>1, WithoutIs
  <2>3. BareEnd(s, l) = [Change(s, t) EXCEPT !.open = Front(@)]
    BY <2>1 DEF BareEnd
  <2>4. Change(s, t).open = s.open /\ [Change(s, t) EXCEPT !.open = q] = Grown(s, 1, <<t>>, q, s.fence, 1)
    BY <1>12, <2>2
  <2>5. [Change(s, t) EXCEPT !.open = Front(@)] = [Change(s, t) EXCEPT !.open = q]
    BY <2>4
  <2> QED BY <2>3, <2>4, <2>5
<1>14. ASSUME NEW n \in Vocabulary
       PROVE  NamedEnd(s, l, n) =
                 Grown(s, 1, <<CloseTag(n, l.indent)>>, Without(s.open, n), s.fence, 1)
  <2> DEFINE q == Without(s.open, n)
             t == CloseTag(n, l.indent)
  <2>1. q \in Seq(Vocabulary)
    BY <1>2, WithoutIs
  <2>2. Change(s, t).open = s.open /\ [Change(s, t) EXCEPT !.open = q] = Grown(s, 1, <<t>>, q, s.fence, 1)
    BY <1>12, <2>1
  <2>3. NamedEnd(s, l, n) = [Change(s, t) EXCEPT !.open = Without(@, n)]
    BY DEF NamedEnd
  <2>4. [Change(s, t) EXCEPT !.open = Without(@, n)] = [Change(s, t) EXCEPT !.open = q]
    BY <2>2
  <2> QED BY <2>2, <2>3, <2>4
<1>15. ASSUME NEW q \in Seq(Vocabulary)
       PROVE  /\ Copy(s, l).open = s.open
              /\ [Copy(s, l) EXCEPT !.open = q] = Grown(s, 1, <<l>>, q, s.fence, 0)
  <2>1. Copy(s, l).open = s.open
    BY <1>5 DEF Grown
  <2>2. \A p \in Seq(Vocabulary) : [Copy(s, l) EXCEPT !.open = p] = Grown(s, 1, <<l>>, p, s.fence, 0)
    BY ONLY <1>1, s \in Passing, OneLineIs
  <2> QED BY <2>1, <2>2, Zenon
<1>16. BlockCloses(s, l) = Grown(s, 1, <<l>>, Without(s.open, l.name), s.fence, 0)
  <2> DEFINE q == Without(s.open, l.name)
  <2>1. q \in Seq(Vocabulary)
    BY <1>2, <1>3, WithoutIs
  <2>2. Copy(s, l).open = s.open /\ [Copy(s, l) EXCEPT !.open = q] = Grown(s, 1, <<l>>, q, s.fence, 0)
    BY <1>15, <2>1
  <2>3. BlockCloses(s, l) = [Copy(s, l) EXCEPT !.open = q]
    BY <2>2 DEF BlockCloses
  <2> QED BY <2>2, <2>3
<1>17. BlockOpens(s, l) = Grown(s, 1, <<l>>, Append(s.open, l.name), s.fence, 0)
  <2> DEFINE q == Append(s.open, l.name)
  <2>1. q \in Seq(Vocabulary)
    BY <1>2, <1>3, AppendProperties
  <2>2. Copy(s, l).open = s.open /\ [Copy(s, l) EXCEPT !.open = q] = Grown(s, 1, <<l>>, q, s.fence, 0)
    BY <1>15, <2>1
  <2>3. BlockOpens(s, l) = [Copy(s, l) EXCEPT !.open = q]
    BY <2>2 DEF BlockOpens
  <2> QED BY <2>2, <2>3
<1>18. PerKind(s, ls, l, r)
  BY <1>4, <1>5, <1>7, <1>8, <1>9, <1>10, <1>11, <1>13, <1>14, <1>16, <1>17 DEF PerKind
<1> QED BY <1>6, <1>18
\* What is written stays where it is.
LEMMA PrefixIs ==
    ASSUME NEW a \in Seq(Lines), NEW b \in Seq(Lines), NEW t \in Seq(Lines), Begins(a \o b, t)
    PROVE  /\ Len(a) + Len(b) <= Len(t) /\ Begins(a, t)
           /\ \A k \in 1..Len(b) : t[Len(a) + k] = b[k]
<1>1. /\ Len(a \o b) = Len(a) + Len(b)
      /\ \A i \in 1..(Len(a) + Len(b)) : (a \o b)[i] = IF i <= Len(a) THEN a[i] ELSE b[i - Len(a)]
  BY ConcatProperties
<1>2. Len(a) \in Nat /\ Len(b) \in Nat /\ Len(t) \in Nat
  BY LenProperties
<1>3. Len(a) + Len(b) <= Len(t) /\ \A i \in 1..(Len(a) + Len(b)) : t[i] = (a \o b)[i]
  BY <1>1 DEF Begins
<1>4. \A k \in 1..Len(b) : t[Len(a) + k] = b[k]
  <2>1. TAKE k \in 1..Len(b)
  <2> DEFINE i == Len(a) + k
  <2>2. i \in 1..(Len(a) + Len(b)) /\ ~ (i <= Len(a)) /\ i - Len(a) = k
    BY <1>2
  <2> HIDE DEF i
  <2>3. t[i] = b[k]
    BY <1>1, <1>3, <2>2
  <2> QED BY <2>3 DEF i
<1>5. Begins(a, t)
  <2>1. ASSUME NEW k \in 1..Len(a)
        PROVE  t[k] = a[k]
    <3>1. k \in 1..(Len(a) + Len(b)) /\ k <= Len(a)
      BY <1>2
    <3> QED BY <1>1, <1>3, <3>1
  <2>2. Len(a) <= Len(t)
    BY <1>2, <1>3
  <2> QED BY <2>1, <2>2 DEF Begins
<1> QED BY <1>3, <1>4, <1>5

\* A directive with lines of its own and its close tag.
Closed(seg) ==
    /\ Len(seg) >= 3
    /\ seg[1].kind = "dir" /\ seg[1].name \in INLINE_DIRECTIVES /\ ~ seg[1].slash
    /\ \A k \in 2..(Len(seg) - 1) : Continues(seg[k], seg[1].indent)
    /\ seg[Len(seg)].kind = "close" /\ seg[Len(seg)].name = seg[1].name

\* The two ways in which Inline writes more than a line.
LEMMA SkipIs ==
    ASSUME NEW st \in Passing, NEW n \in Nat, NEW seg \in Seq(Lines), n # 0
    PROVE  /\ [st EXCEPT !.i = st.i + n, !.out = @ \o seg] = Grown(st, n, seg, st.open, st.fence, 0)
           /\ [st EXCEPT !.i = st.i + n, !.changes = @ + 1, !.out = @ \o seg]
                 = Grown(st, n, seg, st.open, st.fence, 1)
<1> DEFINE i2 == st.i + n
           o2 == st.out \o seg
           c2 == st.changes + 1
<1>1. st.i \in Nat \ {0} /\ st.out \in Seq(Lines) /\ st.changes \in Nat
  BY DEF Passing
<1>2. i2 \in Nat \ {0} /\ c2 \in Nat /\ o2 \in Seq(Lines) /\ st.changes + 0 = st.changes
  BY <1>1, ConcatProperties
<1> HIDE DEF i2, o2, c2
<1> DEFINE r == [st EXCEPT !.i = i2, !.out = o2]
           s == [st EXCEPT !.i = i2, !.changes = c2, !.out = o2]
<1>3. r \in Passing /\ r.i = i2 /\ r.out = o2 /\ r.open = st.open /\ r.fence = st.fence
      /\ r.changes = st.changes
  BY <1>2 DEF Passing
<1>4. s \in Passing /\ s.i = i2 /\ s.out = o2 /\ s.open = st.open /\ s.fence = st.fence
      /\ s.changes = c2
  BY <1>2 DEF Passing
<1> HIDE DEF r, s
<1>5. r = [i |-> r.i, out |-> r.out, open |-> r.open, fence |-> r.fence, changes |-> r.changes]
  BY <1>3, PassingIs
<1>6. s = [i |-> s.i, out |-> s.out, open |-> s.open, fence |-> s.fence, changes |-> s.changes]
  BY <1>4, PassingIs
<1>7. r = Grown(st, n, seg, st.open, st.fence, 0)
  BY <1>2, <1>3, <1>5 DEF Grown, i2, o2
<1>8. s = Grown(st, n, seg, st.open, st.fence, 1)
  BY <1>2, <1>4, <1>6 DEF Grown, i2, o2, c2
<1> QED BY <1>7, <1>8 DEF r, s, i2, o2, c2

\* The second run takes a directive that the first has closed as it is.
LEMMA ClosedAgain ==
    ASSUME NEW st \in Passing, NEW once \in Seq(Lines), NEW seg \in Seq(Lines), Closed(seg),
           st.fence = "none", Begins(st.out \o seg, once)
    PROVE  Step(Again(st), once) = Grown(Again(st), Len(seg), seg, st.open, st.fence, 0)
<1> DEFINE s == Again(st)
           m == Len(st.out)
           p == m + 1
           n == Len(seg) - 2
           l == once[p]
           conts == Continuations(once, p)
           next == p + n + 1
<1>1. st.out \in Seq(Lines)
  BY DEF Passing
<1>2. /\ m \in Nat /\ Len(seg) \in Nat /\ Len(once) \in Nat
      /\ m + Len(seg) <= Len(once)
      /\ \A k \in 1..Len(seg) : once[m + k] = seg[k]
  BY <1>1, PrefixIs, LenProperties
<1>3. s \in Passing /\ s.i = p /\ s.out = st.out /\ s.open = st.open /\ s.fence = "none"
  BY AgainIs DEF Again
<1>4. conts = Continuations(once, s.i) /\ l = once[s.i]
  BY <1>3
<1>5. l = once[p] /\ p = m + 1 /\ n = Len(seg) - 2 /\ next = p + n + 1
  OBVIOUS
<1>6. /\ Len(seg) >= 3
      /\ seg[1].kind = "dir" /\ seg[1].name \in INLINE_DIRECTIVES /\ ~ seg[1].slash
      /\ \A k \in 2..(Len(seg) - 1) : Continues(seg[k], seg[1].indent)
      /\ seg[Len(seg)].kind = "close" /\ seg[Len(seg)].name = seg[1].name
  BY DEF Closed
<1> HIDE DEF s, m, p, n, l, next
<1>7. /\ p \in 1..Len(once) /\ n \in Nat /\ n # 0 /\ p + n < Len(once)
      /\ 1 \in 1..Len(seg) /\ next = m + Len(seg) /\ next <= Len(once)
  <2>1. n \in Nat /\ n # 0 /\ 1 \in 1..Len(seg)
    BY <1>2, <1>5, <1>6
  <2>2. next = m + Len(seg) /\ p + n < next
    BY <1>2, <1>5, <1>6, <2>1
  <2>3. next <= Len(once) /\ p \in 1..Len(once) /\ p + n < Len(once)
    BY <1>2, <1>5, <2>1, <2>2
  <2> QED BY <2>1, <2>2, <2>3
<1>8. l = seg[1] /\ l \in Lines
  BY <1>2, <1>5, <1>7, ElementOfSeq
<1>9. \A k \in 1..n : Continues(once[p + k], l.indent)
  <2>1. TAKE k \in 1..n
  <2>2. k + 1 \in 1..Len(seg) /\ k + 1 \in 2..(Len(seg) - 1) /\ m + (k + 1) = p + k
    BY <1>2, <1>5, <1>6
  <2>3. once[p + k] = seg[k + 1]
    BY <1>2, <2>2
  <2> QED BY <1>6, <1>8, <2>2, <2>3
<1>10. once[next].kind = "close" /\ once[next].name = l.name
  <2>1. Len(seg) \in 1..Len(seg)
    BY <1>2, <1>6
  <2> QED BY <1>2, <1>6, <1>7, <1>8, <2>1
<1>11. ~ Continues(once[next], l.indent)
  BY <1>10 DEF Continues
<1>12. Len(conts) = n
  <2>1. \A k \in 1..n : Continues(once[p + k], once[p].indent)
    BY <1>5, <1>9
  <2>2. ~ Continues(once[p + n + 1], once[p].indent)
    BY <1>5, <1>11
  <2> QED BY <1>7, <2>1, <2>2, ContinuationsTo
<1> HIDE DEF conts
<1>13. conts # <<>>
  BY <1>7, <1>12, EmptySeq
<1>14. Step(s, once) = Inline(s, once, l)
  <2>1. s.i \in 1..Len(once)
    BY <1>3, <1>7
  <2>2. PerKind(s, once, l, Step(s, once))
    BY <1>3, <1>4, <2>1, StepIs
  <2>3. l.kind = "dir" /\ l.name \in INLINE_DIRECTIVES /\ ~ l.slash
    BY <1>6, <1>8
  <2>4. l.name \notin BLOCK_OPENERS
    BY <2>3, OpenersAreNotInline
  <2> QED BY <1>3, <2>2, <2>3, <2>4 DEF PerKind
<1>15. SubSeq(once, p, next) = seg
  <2>1. p \in Nat /\ next \in Nat /\ next - p + 1 = Len(seg) /\ p <= next /\ next <= Len(once)
    BY <1>2, <1>5, <1>6, <1>7
  <2>2. \A i \in p..next : once[i] \in Lines
    <3>1. \A i \in p..next : i \in 1..Len(once)
      BY <1>2, <1>7, <2>1
    <3> QED BY <3>1, ElementOfSeq
  <2>3. /\ SubSeq(once, p, next) \in Seq(Lines)
        /\ Len(SubSeq(once, p, next)) = IF p <= next THEN next - p + 1 ELSE 0
        /\ \A i \in 1..(next - p + 1) : SubSeq(once, p, next)[i] = once[p + i - 1]
    BY <1>7, <2>1, <2>2, SubSeqProperties
  <2>4. \A i \in 1..Len(seg) : SubSeq(once, p, next)[i] = seg[i]
    <3>1. TAKE i \in 1..Len(seg)
    <3>2. p + i - 1 = m + i
      BY <1>2, <1>5
    <3> QED BY <1>2, <2>1, <2>3, <3>2
  <2> QED BY <2>1, <2>3, <2>4, SeqEqual
<1>16. s.i + Len(conts) + 1 = next /\ next + 1 = s.i + Len(seg)
  BY <1>2, <1>3, <1>5, <1>6, <1>7, <1>12
<1>17. Inline(s, once, l) = [s EXCEPT !.i = next + 1, !.out = @ \o SubSeq(once, s.i, next)]
  BY <1>4, <1>7, <1>10, <1>13, <1>16 DEF Inline
<1>18. Inline(s, once, l) = [s EXCEPT !.i = s.i + Len(seg), !.out = @ \o seg]
  BY <1>3, <1>15, <1>16, <1>17
<1>19. [s EXCEPT !.i = s.i + Len(seg), !.out = @ \o seg] = Grown(s, Len(seg), seg, s.open, s.fence, 0)
  <2>1. Len(seg) \in Nat /\ Len(seg) # 0
    BY <1>2, <1>6
  <2> QED BY ONLY <1>3, <2>1, seg \in Seq(Lines), SkipIs
<1>20. Step(s, once) = Grown(s, Len(seg), seg, st.open, st.fence, 0)
  BY <1>3, <1>14, <1>18, <1>19
<1> QED BY <1>20 DEF s

LEMMA LengthIs ==
    ASSUME NEW S, NEW n \in Nat, NEW f \in [1..n -> S]
    PROVE  f \in Seq(S) /\ Len(f) = n
<1>1. f \in Seq(S)
  BY SeqDef
<1>2. DOMAIN f = 1..n /\ DOMAIN f = 1..Len(f) /\ Len(f) \in Nat
  BY <1>1, LenProperties
<1> DEFINE m == Len(f)
<1> HIDE DEF m
<1>3. 1..n = 1..m /\ m \in Nat
  BY <1>2 DEF m
<1>4. ~ (m < n)
  BY <1>3
<1>5. ~ (n < m)
  BY <1>3
<1> QED BY <1>1, <1>3, <1>4, <1>5 DEF m

\* A directive with its lines, written out.
LEMMA ConcatClosed ==
    ASSUME NEW d \in Lines, NEW ws \in Seq(Lines), NEW cs \in Seq(Lines), NEW t \in Lines,
           d.kind = "dir", d.name \in INLINE_DIRECTIVES, ~ d.slash, cs # <<>>,
           \A k \in 1..Len(ws) : Continues(ws[k], d.indent),
           \A k \in 1..Len(cs) : Continues(cs[k], d.indent),
           t.kind = "close", t.name = d.name
    PROVE  /\ Closed(<<d>> \o ws \o cs \o <<t>>)
           /\ <<d>> \o ws \o cs \o <<t>> \in Seq(Lines)
           /\ (<<d>> \o ws \o cs \o <<t>>)[1] = d
<1> DEFINE one == <<d>>
           end == <<t>>
           a == one \o ws
           b == a \o cs
           seg == b \o end
<1>1. one \in Seq(Lines) /\ Len(one) = 1 /\ one[1] = d
  OBVIOUS
<1>2. end \in Seq(Lines) /\ Len(end) = 1 /\ end[1] = t
  OBVIOUS
<1>3. Len(ws) \in Nat /\ Len(cs) \in Nat /\ Len(cs) # 0
  BY LenProperties, EmptySeq
<1> HIDE DEF one, end
<1>4. /\ a \in Seq(Lines) /\ Len(a) = 1 + Len(ws)
      /\ \A k \in 1..(1 + Len(ws)) : a[k] = IF k <= 1 THEN one[k] ELSE ws[k - 1]
  <2>1. /\ a \in Seq(Lines) /\ Len(a) = Len(one) + Len(ws)
        /\ \A k \in 1..(Len(one) + Len(ws)) :
              a[k] = IF k <= Len(one) THEN one[k] ELSE ws[k - Len(one)]
    BY <1>1, ConcatProperties
  <2> HIDE DEF a
  <2> QED BY <1>1, <2>1
<1> HIDE DEF a
<1>5. /\ b \in Seq(Lines) /\ Len(b) = 1 + Len(ws) + Len(cs)
      /\ \A k \in 1..(1 + Len(ws) + Len(cs)) :
            b[k] = IF k <= 1 + Len(ws) THEN a[k] ELSE cs[k - (1 + Len(ws))]
  <2>1. /\ b \in Seq(Lines) /\ Len(b) = Len(a) + Len(cs)
        /\ \A k \in 1..(Len(a) + Len(cs)) :
              b[k] = IF k <= Len(a) THEN a[k] ELSE cs[k - Len(a)]
    BY <1>4, ConcatProperties
  <2> HIDE DEF b
  <2> QED BY <1>4, <2>1
<1> HIDE DEF b
<1>6. /\ seg \in Seq(Lines) /\ Len(seg) = 1 + Len(ws) + Len(cs) + 1
      /\ \A k \in 1..(1 + Len(ws) + Len(cs) + 1) :
            seg[k] = IF k <= 1 + Len(ws) + Len(cs) THEN b[k] ELSE end[k - (1 + Len(ws) + Len(cs))]
  <2>1. /\ seg \in Seq(Lines) /\ Len(seg) = Len(b) + Len(end)
        /\ \A k \in 1..(Len(b) + Len(end)) :
              seg[k] = IF k <= Len(b) THEN b[k] ELSE end[k - Len(b)]
    BY <1>2, <1>5, ConcatProperties
  <2> HIDE DEF seg
  <2> QED BY <1>2, <1>5, <2>1
<1> HIDE DEF seg
<1>7. seg[1] = d
  BY <1>1, <1>3, <1>4, <1>5, <1>6
<1>8. seg[Len(seg)] = t
  <2>1. PICK m \in Nat : m = 1 + Len(ws) + Len(cs)
    BY <1>3
  <2>2. Len(seg) = m + 1 /\ \A k \in 1..m + 1 : seg[k] = IF k <= m THEN b[k] ELSE end[k - m]
    BY <1>6, <2>1
  <2>3. seg[m + 1] = end[1]
    BY <2>1, <2>2
  <2> QED BY <1>2, <2>2, <2>3
<1>9. ASSUME NEW k \in 2..(Len(seg) - 1)
      PROVE  Continues(seg[k], d.indent)
  <2>1. seg[k] = b[k] /\ k \in 1..(1 + Len(ws) + Len(cs)) /\ ~ (k <= 1)
    BY <1>3, <1>6
  <2>2. CASE k <= 1 + Len(ws)
    <3>1. b[k] = ws[k - 1] /\ k - 1 \in 1..Len(ws)
      BY <1>3, <1>4, <1>5, <2>1, <2>2
    <3> QED BY <2>1, <3>1
  <2>3. CASE ~ (k <= 1 + Len(ws))
    <3>1. b[k] = cs[k - (1 + Len(ws))] /\ k - (1 + Len(ws)) \in 1..Len(cs)
      BY <1>3, <1>5, <2>1, <2>3
    <3> QED BY <2>1, <3>1
  <2> QED BY <2>2, <2>3
<1>10. Len(seg) >= 3
  BY <1>3, <1>6
<1>11. Closed(seg)
  BY <1>7, <1>8, <1>9, <1>10 DEF Closed
<1> QED BY <1>6, <1>7, <1>11 DEF seg, b, a, one, end

\* A directive on one line comes out self-closed, or with its lines and a close tag.
LEMMA InlineIs ==
    ASSUME NEW st \in Passing, NEW ls \in Seq(Lines), st.i \in 1..Len(ls),
           ls[st.i].kind = "dir", ls[st.i].name \in INLINE_DIRECTIVES, ~ ls[st.i].slash
    PROVE  \E n, seg, c :
              /\ Typed(n, seg, st.open, st.fence, c)
              /\ Inline(st, ls, ls[st.i]) = Grown(st, n, seg, st.open, st.fence, c)
              /\ seg[1].kind = "dir"
              /\ \/ \E l \in Lines : seg = <<l>> /\ l.kind = "dir" /\ l.name = ls[st.i].name /\ l.slash
                 \/ Closed(seg)
<1> DEFINE l == ls[st.i]
           i == st.i
           conts == Continuations(ls, i)
           next == i + Len(conts) + 1
           words == [k \in DOMAIN l.args |-> TextLine(conts[1].indent, l.args[k])]
<1>1. l \in Lines /\ i \in Nat /\ i \in 1..Len(ls) /\ Len(ls) \in Nat /\ i # 0
  BY ElementOfSeq, LenProperties
<1>2. /\ l.name \in Vocabulary /\ l.indent \in Nat /\ l.args \in Seq(Vocabulary)
      /\ l.kind = "dir" /\ l.name \in INLINE_DIRECTIVES /\ ~ l.slash
  BY <1>1, LinesAre
<1>3. /\ conts \in Seq(Lines) /\ i + Len(conts) <= Len(ls)
      /\ \A k \in 1..Len(conts) : conts[k] = ls[i + k] /\ Continues(conts[k], l.indent)
  <2> HIDE DEF i
  <2>1. /\ conts \in Seq(Lines) /\ i + Len(conts) <= Len(ls)
        /\ \A k \in 1..Len(conts) : conts[k] = ls[i + k] /\ Continues(ls[i + k], ls[i].indent)
    BY <1>1, ContinuationsAre
  <2> HIDE DEF conts
  <2>2. l = ls[i]
    BY DEF i
  <2> HIDE DEF l
  <2> QED BY <2>1, <2>2
<1>4. st.open \in Seq(Vocabulary) /\ st.fence \in Vocabulary \cup {"none"}
  BY DEF Passing
<1>5. Len(conts) \in Nat /\ (conts # <<>> => Len(conts) # 0)
  BY <1>3, LenProperties, EmptySeq
<1> DEFINE Way(n, seg, c) ==
              /\ Typed(n, seg, st.open, st.fence, c)
              /\ Inline(st, ls, l) = Grown(st, n, seg, st.open, st.fence, c)
              /\ seg[1].kind = "dir"
              /\ \/ \E q \in Lines : seg = <<q>> /\ q.kind = "dir" /\ q.name = l.name /\ q.slash
                 \/ Closed(seg)
<1>6. Inline(st, ls, l) =
        IF conts = <<>> THEN Change(st, [l EXCEPT !.slash = TRUE])
        ELSE IF next <= Len(ls) /\ ls[next].kind = "close" /\ ls[next].name = l.name
        THEN [st EXCEPT !.i = next + 1, !.out = @ \o SubSeq(ls, i, next)]
        ELSE [st EXCEPT !.i = next, !.changes = @ + 1,
                        !.out = @ \o (<<Directive(l.name, l.indent, <<>>, FALSE)>>
                                        \o words \o conts \o <<CloseTag(l.name, l.indent)>>)]
  BY DEF Inline
<1> HIDE DEF conts, words
<1>7. CASE conts = <<>>
  <2> DEFINE q == [l EXCEPT !.slash = TRUE]
  <2>1. q \in Lines /\ q.kind = "dir" /\ q.name = l.name /\ q.slash
    BY <1>1, <1>2 DEF Lines
  <2>2. Inline(st, ls, l) = Change(st, q)
    BY <1>6, <1>7
  <2> HIDE DEF q, l
  <2>3. Change(st, q) = Grown(st, 1, <<q>>, st.open, st.fence, 1)
    BY <2>1, CopyIs
  <2>4. <<q>> \in Seq(Lines) /\ <<q>> # <<>> /\ <<q>>[1] = q
    BY <2>1
  <2>5. Way(1, <<q>>, 1)
    BY <1>4, <2>1, <2>2, <2>3, <2>4 DEF Typed
  <2> HIDE DEF Way
  <2>6. \E n, seg, c : Way(n, seg, c)
    BY <2>5
  <2> QED BY <2>6 DEF Way, l
<1>8. CASE conts # <<>> /\ next <= Len(ls) /\ ls[next].kind = "close" /\ ls[next].name = l.name
  <2> DEFINE seg == SubSeq(ls, i, next)
  <2> HIDE DEF l, i
  <2>1. next \in Nat /\ i <= next /\ next - i + 1 = Len(conts) + 2 /\ next = i + Len(conts) + 1
    BY <1>1, <1>5
  <2> HIDE DEF next
  <2>2. \A k \in i..next : ls[k] \in Lines
    <3>1. \A k \in i..next : k \in 1..Len(ls)
      BY <1>1, <1>8, <2>1
    <3> QED BY <3>1, ElementOfSeq
  <2>3. /\ seg \in Seq(Lines) /\ Len(seg) = Len(conts) + 2
        /\ \A k \in 1..(Len(conts) + 2) : seg[k] = ls[i + k - 1]
    <3>1. /\ SubSeq(ls, i, next) \in Seq(Lines)
          /\ Len(SubSeq(ls, i, next)) = IF i <= next THEN next - i + 1 ELSE 0
          /\ \A k \in 1..(next - i + 1) : SubSeq(ls, i, next)[k] = ls[i + k - 1]
      BY <1>1, <1>8, <2>1, <2>2, SubSeqProperties
    <3> QED BY <2>1, <3>1
  <2> HIDE DEF seg
  <2>4. seg[1] = l
    <3>1. 1 \in 1..(Len(conts) + 2) /\ i + 1 - 1 = i
      BY <1>1, <1>5
    <3> QED BY <2>3, <3>1 DEF l, i
  <2>5. seg[Len(seg)] = ls[next]
    <3>1. Len(seg) \in 1..(Len(conts) + 2) /\ i + Len(seg) - 1 = next
      BY <1>1, <1>5, <2>1, <2>3
    <3> QED BY <2>3, <3>1
  <2>6. \A k \in 2..(Len(seg) - 1) : Continues(seg[k], l.indent)
    <3>1. TAKE k \in 2..(Len(seg) - 1)
    <3>2. k - 1 \in 1..Len(conts) /\ k \in 1..(Len(conts) + 2) /\ i + k - 1 = i + (k - 1)
      BY <1>1, <1>5, <2>3
    <3> QED BY <1>3, <2>3, <3>2
  <2>7. Closed(seg)
    <3>1. Len(seg) >= 3
      BY <1>5, <1>8, <2>3
    <3> QED BY <1>2, <1>8, <2>4, <2>5, <2>6, <3>1 DEF Closed
  <2> DEFINE n == Len(conts) + 2
  <2>8. Inline(st, ls, l) = [st EXCEPT !.i = st.i + n, !.out = @ \o seg]
    <3>1. next + 1 = st.i + n
      BY <1>1, <1>5, <2>1 DEF i
    <3> QED BY <1>6, <1>8, <3>1 DEF seg
  <2>9. n \in Nat /\ n # 0 /\ seg # <<>>
    BY <1>5, <2>3, EmptySeq
  <2> HIDE DEF n
  <2>10. [st EXCEPT !.i = st.i + n, !.out = @ \o seg] = Grown(st, n, seg, st.open, st.fence, 0)
    BY ONLY <2>3, <2>9, st \in Passing, SkipIs
  <2>11. Way(n, seg, 0)
    BY <1>2, <1>4, <2>3, <2>4, <2>7, <2>8, <2>9, <2>10 DEF Typed
  <2> HIDE DEF Way
  <2>12. \E a, b, c : Way(a, b, c)
    BY <2>11
  <2> QED BY <2>12 DEF Way, l
<1>9. CASE conts # <<>> /\ ~ (next <= Len(ls) /\ ls[next].kind = "close" /\ ls[next].name = l.name)
  <2> DEFINE d == Directive(l.name, l.indent, <<>>, FALSE)
             t == CloseTag(l.name, l.indent)
             seg == <<d>> \o words \o conts \o <<t>>
             n == Len(conts) + 1
  <2> HIDE DEF l
  <2>1. /\ d \in Lines /\ d.kind = "dir" /\ d.name = l.name /\ d.indent = l.indent /\ d.slash = FALSE
        /\ t \in Lines /\ t.kind = "close" /\ t.name = l.name
    <3> DEFINE e == <<>>
               w == l.name
               j == l.indent
               b == FALSE
    <3>1. e \in Seq(Vocabulary) /\ w \in Vocabulary /\ j \in Nat /\ b \in BOOLEAN
      BY <1>2, EmptySeq
    <3> HIDE DEF e, w, j, b
    <3>2. /\ Directive(w, j, e, b) \in Lines /\ Directive(w, j, e, b).kind = "dir"
          /\ Directive(w, j, e, b).name = w /\ Directive(w, j, e, b).indent = j
          /\ Directive(w, j, e, b).slash = b
          /\ CloseTag(w, j) \in Lines /\ CloseTag(w, j).kind = "close" /\ CloseTag(w, j).name = w
      BY <3>1, WrittenAre, TagsAre
    <3> QED BY <3>2 DEF e, w, j, b
  <2>2. 1 \in 1..Len(conts) /\ conts[1] \in Lines
    BY <1>3, <1>5, <1>9, ElementOfSeq
  <2>3. conts[1].indent \in Nat /\ conts[1].indent > l.indent
    BY <1>3, <2>2, LinesAre DEF Continues
  <2>4. /\ words \in Seq(Lines)
        /\ \A k \in 1..Len(words) : Continues(words[k], l.indent)
    <3> DEFINE as == l.args
               j == conts[1].indent
    <3>1. as \in Seq(Vocabulary) /\ Len(as) \in Nat /\ DOMAIN as = 1..Len(as)
      BY <1>2, LenProperties
    <3>2. words = [k \in 1..Len(as) |-> TextLine(j, as[k])]
      BY <3>1 DEF words
    <3>3. j \in Nat /\ j > l.indent
      BY <2>3
    <3> HIDE DEF as, j
    <3>4. ASSUME NEW k \in 1..Len(as)
          PROVE  TextLine(j, as[k]) \in Lines /\ Continues(TextLine(j, as[k]), l.indent)
      <4> DEFINE w == as[k]
      <4>1. w \in Vocabulary
        BY <3>1, ElementOfSeq
      <4> HIDE DEF w
      <4>2. /\ TextLine(j, w) \in Lines /\ TextLine(j, w).kind = "text"
            /\ TextLine(j, w).indent = j
        BY <3>3, <4>1, TagsAre
      <4>3. Continues(TextLine(j, w), l.indent)
        BY <3>3, <4>2 DEF Continues
      <4> QED BY <4>2, <4>3 DEF w
    <3>5. words \in [1..Len(as) -> Lines]
      BY <3>2, <3>4
    <3> HIDE DEF words
    <3>6. words \in Seq(Lines) /\ Len(words) = Len(as)
      BY <3>1, <3>5, LengthIs
    <3> QED BY <3>2, <3>4, <3>6
  <2> HIDE DEF d, t
  <2>5. Closed(seg) /\ seg \in Seq(Lines) /\ seg[1] = d
    <3>1. \A k \in 1..Len(words) : Continues(words[k], d.indent)
      BY <2>1, <2>4
    <3>2. \A k \in 1..Len(conts) : Continues(conts[k], d.indent)
      BY <1>3, <2>1
    <3>3. d.name \in INLINE_DIRECTIVES /\ ~ d.slash /\ t.name = d.name
      BY <1>2, <2>1
    <3>4. conts # <<>>
      BY <1>9
    <3> HIDE DEF seg, l
    <3>5. /\ Closed(<<d>> \o words \o conts \o <<t>>)
          /\ <<d>> \o words \o conts \o <<t>> \in Seq(Lines)
          /\ (<<d>> \o words \o conts \o <<t>>)[1] = d
      BY ONLY <1>3, <2>1, <2>4, <3>1, <3>2, <3>3, <3>4, ConcatClosed
    <3> QED BY <3>5 DEF seg
  <2>6. Inline(st, ls, l) = [st EXCEPT !.i = st.i + n, !.changes = @ + 1, !.out = @ \o seg]
    <3>1. next = st.i + n
      BY <1>1, <1>5
    <3> QED BY <1>6, <1>9, <3>1 DEF d, t
  <2>7. n \in Nat /\ n # 0 /\ seg # <<>>
    BY <1>5, <2>5, EmptySeq DEF Closed
  <2> HIDE DEF n, seg
  <2>8. [st EXCEPT !.i = st.i + n, !.changes = @ + 1, !.out = @ \o seg]
           = Grown(st, n, seg, st.open, st.fence, 1)
    BY ONLY <2>5, <2>7, st \in Passing, SkipIs
  <2>9. Way(n, seg, 1)
    BY <1>4, <2>1, <2>5, <2>6, <2>7, <2>8 DEF Typed
  <2> HIDE DEF Way
  <2>10. \E a, b, c : Way(a, b, c)
    BY <2>9
  <2> QED BY <2>10 DEF Way, l
<1> QED BY <1>7, <1>8, <1>9

\* What the first run does in a pass, the second does again over what it wrote.
Way(st, ls, n, seg, o, f, c) ==
    /\ Typed(n, seg, o, f, c)
    /\ Step(st, ls) = Grown(st, n, seg, o, f, c)
    /\ ls[st.i].kind # "rule" => seg[1].kind # "rule"
    /\ \A once \in Seq(Lines) :
          Begins(st.out \o seg, once) => Step(Again(st), once) = Grown(Again(st), Len(seg), seg, o, f, 0)

Twice(st, ls) == \E n, seg, o, f, c : Way(st, ls, n, seg, o, f, c)

LEMMA SeesAgain ==
    ASSUME NEW st \in Passing, NEW once \in Seq(Lines), NEW q \in Lines, Begins(st.out \o <<q>>, once)
    PROVE  PerKind(Again(st), once, q, Step(Again(st), once))
<1> DEFINE one == <<q>>
           m == Len(st.out)
           s == Again(st)
<1>1. one \in Seq(Lines) /\ Len(one) = 1 /\ one[1] = q
  OBVIOUS
<1>2. st.out \in Seq(Lines) /\ m \in Nat /\ Len(once) \in Nat
  BY LenProperties DEF Passing
<1>3. Begins(st.out \o one, once)
  OBVIOUS
<1> HIDE DEF one
<1>4. m + Len(one) <= Len(once) /\ \A k \in 1..Len(one) : once[m + k] = one[k]
  BY <1>1, <1>2, <1>3, PrefixIs
<1>5. s \in Passing /\ s.i = m + 1
  BY AgainIs DEF Again
<1> HIDE DEF m, s
<1>6. s.i \in 1..Len(once) /\ once[s.i] = q
  BY <1>1, <1>2, <1>4, <1>5
<1>7. PerKind(s, once, once[s.i], Step(s, once))
  BY <1>5, <1>6, StepIs
<1> QED BY <1>6, <1>7 DEF s

LEMMA OneLineTwice ==
    ASSUME NEW st \in Passing, NEW ls, NEW q \in Lines, NEW o \in Seq(Vocabulary),
           NEW f \in Vocabulary \cup {"none"}, NEW c \in Nat,
           Step(st, ls) = Grown(st, 1, <<q>>, o, f, c),
           ls[st.i].kind # "rule" => q.kind # "rule",
           \A once \in Seq(Lines) : \A r : PerKind(Again(st), once, q, r) => r = Grown(Again(st), 1, <<q>>, o, f, 0)
    PROVE  Twice(st, ls)
<1> DEFINE one == <<q>>
<1>1. one \in Seq(Lines) /\ Len(one) = 1 /\ one[1] = q /\ one # <<>>
  OBVIOUS
<1>2. ASSUME NEW once \in Seq(Lines), Begins(st.out \o one, once)
      PROVE  Step(Again(st), once) = Grown(Again(st), Len(one), one, o, f, 0)
  <2>1. PerKind(Again(st), once, q, Step(Again(st), once))
    BY <1>2, SeesAgain
  <2>2. Step(Again(st), once) = Grown(Again(st), 1, one, o, f, 0)
    BY <2>1, Zenon
  <2> QED BY <1>1, <2>2
<1> HIDE DEF one
<1>3. Typed(1, one, o, f, c)
  BY <1>1 DEF Typed
<1>4. Step(st, ls) = Grown(st, 1, one, o, f, c)
  BY DEF one
<1>5. Way(st, ls, 1, one, o, f, c)
  BY <1>1, <1>2, <1>3, <1>4, Zenon DEF Way
<1> QED BY <1>5, Zenon DEF Twice

LEMMA StepsTwice ==
    ASSUME NEW st \in Passing, NEW ls \in Seq(Lines), st.i \in 1..Len(ls)
    PROVE  Twice(st, ls)
<1> DEFINE l == ls[st.i]
           s == Again(st)
<1>1. l \in Lines
  BY ElementOfSeq
<1>2. st.open \in Seq(Vocabulary) /\ st.fence \in Vocabulary \cup {"none"}
  BY DEF Passing
<1>3. /\ l.kind \in Kinds /\ l.name \in Vocabulary /\ l.indent \in Nat
      /\ l.args \in Seq(Vocabulary) /\ l.slash \in BOOLEAN
  BY <1>1, LinesAre
<1>4. s.open = st.open /\ s.fence = st.fence
  BY DEF Again
<1>5. PerKind(st, ls, l, Step(st, ls))
  BY StepIs
<1>6. "if" \in Vocabulary /\ "switch" \in Vocabulary /\ "on-complete" \in Vocabulary
      /\ "on-complete" \in INLINE_DIRECTIVES
  BY VocabularyAssumption DEF BLOCK_OPENERS, INLINE_DIRECTIVES
<1>7. /\ 0 \in Nat /\ 1 \in Nat
      /\ \A n \in Vocabulary : Without(st.open, n) \in Seq(Vocabulary) /\ Append(st.open, n) \in Seq(Vocabulary)
      /\ st.open # <<>> => /\ Last(st.open) \in Vocabulary /\ Front(st.open) \in Seq(Vocabulary)
                           /\ Without(st.open, Last(st.open)) = Front(st.open)
      /\ Fence(st.fence, l.name) \in Vocabulary \cup {"none"}
  <2>1. Fence(st.fence, l.name) \in Vocabulary \cup {"none"}
    BY <1>2, <1>3 DEF Fence
  <2> QED BY <1>2, <2>1, WithoutIs, AppendProperties
<1>8. l = ls[st.i]
  OBVIOUS
<1> HIDE DEF l, s
<1> DEFINE Same(q, o, f) == \A once, r : PerKind(s, once, q, r) => r = Grown(s, 1, <<q>>, o, f, 0)
<1>9. ASSUME NEW q \in Lines, NEW o \in Seq(Vocabulary), NEW f \in Vocabulary \cup {"none"}, NEW c \in Nat,
             Step(st, ls) = Grown(st, 1, <<q>>, o, f, c), l.kind # "rule" => q.kind # "rule",
             Same(q, o, f)
      PROVE  Twice(st, ls)
  <2>1. \A once \in Seq(Lines) : \A r : PerKind(Again(st), once, q, r) => r = Grown(Again(st), 1, <<q>>, o, f, 0)
    BY <1>9, Zenon DEF s
  <2>2. ls[st.i].kind # "rule" => q.kind # "rule"
    BY <1>8, <1>9
  <2> QED BY <1>9, <2>1, <2>2, OneLineTwice
<1>10. CASE l.kind = "fence"
  <2>1. Step(st, ls) = Grown(st, 1, <<l>>, st.open, Fence(st.fence, l.name), 0)
    BY <1>5, <1>10, Zenon DEF PerKind
  <2>2. Same(l, st.open, Fence(st.fence, l.name))
    BY <1>4, <1>10 DEF PerKind
  <2> QED BY <1>1, <1>2, <1>7, <1>9, <2>1, <2>2
<1>11. CASE l.kind # "fence" /\ st.fence # "none"
  <2>1. Step(st, ls) = Grown(st, 1, <<l>>, st.open, st.fence, 0)
    BY <1>5, <1>11, Zenon DEF PerKind
  <2>2. Same(l, st.open, st.fence)
    BY <1>4, <1>11 DEF PerKind
  <2> QED BY <1>1, <1>2, <1>7, <1>9, <2>1, <2>2
<1>12. CASE l.kind = "arrow" /\ st.fence = "none"
  <2> DEFINE q == Directive("on-complete", l.indent, l.args, TRUE)
  <2>1. Step(st, ls) = Grown(st, 1, <<q>>, st.open, st.fence, 1)
    BY <1>5, <1>12, Zenon DEF PerKind
  <2>2. q \in Lines /\ q.kind = "dir" /\ q.name = "on-complete" /\ q.slash
    <3> DEFINE n == "on-complete"
               b == TRUE
    <3>1. n \in Vocabulary /\ b \in BOOLEAN
      BY <1>6
    <3> HIDE DEF n, b
    <3>2. /\ Directive(n, l.indent, l.args, b) \in Lines /\ Directive(n, l.indent, l.args, b).kind = "dir"
          /\ Directive(n, l.indent, l.args, b).name = n /\ Directive(n, l.indent, l.args, b).slash = b
      BY <1>3, <3>1, WrittenAre
    <3> QED BY <3>2 DEF n, b
  <2> HIDE DEF q
  <2>3. q.name \notin BLOCK_OPENERS
    BY <1>6, <2>2, OpenersAreNotInline
  <2>4. Same(q, st.open, st.fence)
    BY <1>4, <1>12, <2>2, <2>3 DEF PerKind
  <2> QED BY <1>1, <1>2, <1>7, <1>9, <2>1, <2>2, <2>4
<1>13. CASE l.kind = "end" /\ st.fence = "none"
  <2>1. CASE st.open = <<>>
    <3>1. Step(st, ls) = Grown(st, 1, <<l>>, st.open, st.fence, 0)
      BY <1>5, <1>13, <2>1, Zenon DEF PerKind
    <3>2. Same(l, st.open, st.fence)
      BY <1>4, <1>13, <2>1 DEF PerKind
    <3> QED BY <1>1, <1>2, <1>7, <1>9, <3>1, <3>2
  <2>2. CASE st.open # <<>>
    <3> DEFINE q == CloseTag(Last(st.open), l.indent)
    <3>1. Step(st, ls) = Grown(st, 1, <<q>>, Front(st.open), st.fence, 1)
      BY <1>5, <1>13, <2>2, Zenon DEF PerKind
    <3>2. q \in Lines /\ q.kind = "close" /\ q.name = Last(st.open)
      BY <1>3, <1>7, <2>2, TagsAre
    <3> HIDE DEF q
    <3>3. Same(q, Front(st.open), st.fence)
      BY <1>4, <1>7, <1>13, <2>2, <3>2 DEF PerKind
    <3> QED BY <1>1, <1>2, <1>7, <1>9, <2>2, <3>1, <3>2, <3>3
  <2> QED BY <2>1, <2>2
<1>14. ASSUME NEW n \in {"if", "switch"}, st.fence = "none",
              Step(st, ls) = Grown(st, 1, <<CloseTag(n, l.indent)>>, Without(st.open, n), st.fence, 1)
       PROVE  Twice(st, ls)
  <2> DEFINE q == CloseTag(n, l.indent)
  <2>1. n \in Vocabulary
    BY <1>6
  <2>2. q \in Lines /\ q.kind = "close" /\ q.name = n
    BY <1>3, <2>1, TagsAre
  <2>3. Step(st, ls) = Grown(st, 1, <<q>>, Without(st.open, n), st.fence, 1)
    BY <1>14
  <2> HIDE DEF q
  <2>4. Same(q, Without(st.open, n), st.fence)
    BY <1>4, <1>14, <2>2 DEF PerKind
  <2> QED BY <1>2, <1>7, <1>9, <2>1, <2>2, <2>3, <2>4
<1>15. CASE l.kind = "endif" /\ st.fence = "none"
  <2>1. Step(st, ls) = Grown(st, 1, <<CloseTag("if", l.indent)>>, Without(st.open, "if"), st.fence, 1)
    BY <1>5, <1>15, Zenon DEF PerKind
  <2> QED BY <1>14, <1>15, <2>1
<1>16. CASE l.kind = "endswitch" /\ st.fence = "none"
  <2>1. Step(st, ls) = Grown(st, 1, <<CloseTag("switch", l.indent)>>, Without(st.open, "switch"), st.fence, 1)
    BY <1>5, <1>16, Zenon DEF PerKind
  <2> QED BY <1>14, <1>16, <2>1
<1>17. CASE l.kind = "close" /\ st.fence = "none"
  <2>1. Step(st, ls) = Grown(st, 1, <<l>>, Without(st.open, l.name), st.fence, 0)
    BY <1>5, <1>17, Zenon DEF PerKind
  <2>2. Same(l, Without(st.open, l.name), st.fence)
    BY <1>4, <1>17 DEF PerKind
  <2> QED BY <1>1, <1>2, <1>3, <1>7, <1>9, <2>1, <2>2
<1>18. CASE l.kind = "dir" /\ l.name \in BLOCK_OPENERS /\ st.fence = "none"
  <2>1. Step(st, ls) = Grown(st, 1, <<l>>, Append(st.open, l.name), st.fence, 0)
    BY <1>5, <1>18, Zenon DEF PerKind
  <2>2. Same(l, Append(st.open, l.name), st.fence)
    BY <1>4, <1>18 DEF PerKind
  <2> QED BY <1>1, <1>2, <1>3, <1>7, <1>9, <2>1, <2>2
<1>19. CASE l.kind = "dir" /\ l.name \notin BLOCK_OPENERS /\ (l.name \notin INLINE_DIRECTIVES \/ l.slash)
            /\ st.fence = "none"
  <2>1. Step(st, ls) = Grown(st, 1, <<l>>, st.open, st.fence, 0)
    BY <1>5, <1>19, Zenon DEF PerKind
  <2>2. Same(l, st.open, st.fence)
    BY <1>4, <1>19 DEF PerKind
  <2> QED BY <1>1, <1>2, <1>7, <1>9, <2>1, <2>2
<1>20. CASE l.kind \in {"text", "blank", "rule", "on"} /\ st.fence = "none"
  <2>1. Step(st, ls) = Grown(st, 1, <<l>>, st.open, st.fence, 0)
    BY <1>5, <1>20, Zenon DEF PerKind
  <2>2. Same(l, st.open, st.fence)
    BY <1>4, <1>20 DEF PerKind
  <2> QED BY <1>1, <1>2, <1>7, <1>9, <2>1, <2>2
<1>21. CASE l.kind = "dir" /\ l.name \in INLINE_DIRECTIVES /\ ~ l.slash /\ st.fence = "none"
  <2>1. l.name \notin BLOCK_OPENERS
    BY <1>21, OpenersAreNotInline
  <2>2. Step(st, ls) = Inline(st, ls, l)
    BY <1>5, <1>21, <2>1, Zenon DEF PerKind
  <2>3. PICK n, seg, c :
              /\ Typed(n, seg, st.open, st.fence, c)
              /\ Inline(st, ls, l) = Grown(st, n, seg, st.open, st.fence, c)
              /\ seg[1].kind = "dir"
              /\ \/ \E q \in Lines : seg = <<q>> /\ q.kind = "dir" /\ q.name = l.name /\ q.slash
                 \/ Closed(seg)
    <3>1. ls[st.i].kind = "dir" /\ ls[st.i].name \in INLINE_DIRECTIVES /\ ~ ls[st.i].slash
      BY <1>8, <1>21
    <3> QED BY <3>1, InlineIs DEF l
  <2>4. Step(st, ls) = Grown(st, n, seg, st.open, st.fence, c) /\ seg \in Seq(Lines)
    BY <2>2, <2>3 DEF Typed
  <2>5. ASSUME NEW once \in Seq(Lines), Begins(st.out \o seg, once)
        PROVE  Step(Again(st), once) = Grown(Again(st), Len(seg), seg, st.open, st.fence, 0)
    <3>1. CASE Closed(seg)
      BY <1>21, <2>4, <2>5, <3>1, ClosedAgain
    <3>2. ASSUME NEW q \in Lines, seg = <<q>>, q.kind = "dir", q.name = l.name, q.slash
          PROVE  Step(Again(st), once) = Grown(Again(st), Len(seg), seg, st.open, st.fence, 0)
      <4>1. PerKind(s, once, q, Step(s, once))
        BY <2>5, <3>2, SeesAgain DEF s
      <4>2. Step(s, once) = Grown(s, 1, <<q>>, s.open, s.fence, 0)
        BY <1>4, <1>21, <2>1, <3>2, <4>1 DEF PerKind
      <4>3. Len(seg) = 1
        BY <3>2
      <4> QED BY <1>4, <3>2, <4>2, <4>3 DEF s
    <3> QED BY <2>3, <3>1, <3>2
  <2>6. Way(st, ls, n, seg, st.open, st.fence, c)
    BY <2>3, <2>4, <2>5 DEF Way
  <2> QED BY <2>6 DEF Twice
<1>22. l.kind \in {"text", "blank", "fence", "rule", "arrow", "on", "end", "endif", "endswitch", "close", "dir"}
  BY <1>3 DEF Kinds
<1> QED BY <1>10, <1>11, <1>12, <1>13, <1>15, <1>16, <1>17, <1>18, <1>19, <1>20, <1>21, <1>22

\* A pass reads a line at least, and what it writes comes behind what was written.
LEMMA PassIs ==
    ASSUME NEW st \in Passing, NEW ls \in Seq(Lines)
    PROVE  /\ Pass(st, ls) \in Passing
           /\ st.i > Len(ls) => Pass(st, ls) = st
           /\ st.i <= Len(ls) => Twice(st, ls) /\ Pass(st, ls) = Step(st, ls)
           /\ st.i <= Len(ls) => Pass(st, ls).i > st.i
           /\ Begins(st.out, Pass(st, ls).out)
<1>1. st.i \in Nat \ {0} /\ Len(ls) \in Nat /\ st.out \in Seq(Lines)
  BY LenProperties DEF Passing
<1>2. CASE st.i > Len(ls)
  <2>1. Pass(st, ls) = st
    BY <1>2 DEF Pass
  <2>2. Begins(st.out, st.out)
    BY <1>1, LenProperties DEF Begins
  <2> QED BY <1>1, <1>2, <2>1, <2>2
<1>3. CASE st.i <= Len(ls)
  <2>1. Pass(st, ls) = Step(st, ls) /\ Twice(st, ls)
    <3>1. st.i \in 1..Len(ls) /\ ~ (st.i > Len(ls))
      BY <1>1, <1>3
    <3> QED BY <3>1, StepsTwice DEF Pass
  <2>2. PICK n, seg, o, f, c : Typed(n, seg, o, f, c) /\ Step(st, ls) = Grown(st, n, seg, o, f, c)
    BY <2>1 DEF Twice, Way
  <2>3. Grown(st, n, seg, o, f, c) \in Passing
    BY <2>2, GrownIs
  <2>4. /\ Grown(st, n, seg, o, f, c).i = st.i + n /\ Grown(st, n, seg, o, f, c).out = st.out \o seg
        /\ n \in Nat \ {0} /\ seg \in Seq(Lines)
    BY <2>2 DEF Grown, Typed
  <2>5. Begins(st.out, st.out \o seg)
    <3>1. st.out \o seg \in Seq(Lines)
      BY <1>1, <2>4, ConcatProperties
    <3>2. Begins(st.out \o seg, st.out \o seg)
      BY <3>1, LenProperties DEF Begins
    <3> QED BY <1>1, <2>4, <3>1, <3>2, PrefixIs
  <2>6. st.i + n > st.i
    BY <1>1, <2>4
  <2> QED BY <1>1, <1>3, <2>1, <2>2, <2>3, <2>4, <2>5, <2>6
<1> QED BY <1>1, <1>2, <1>3

\* The states of a run, one per pass.
Going(f, s, ls) ==
    f \in [Nat -> Passing] /\ f[0] = s /\ \A n \in Nat : f[n + 1] = Pass(f[n], ls)

Iterated(f, t, g) == f[0] = t /\ \A n \in Nat : f[n + 1] = g[f[n]]

LEMMA LoopIs ==
    ASSUME NEW s \in Passing, NEW ls \in Seq(Lines)
    PROVE  \E f : Going(f, s, ls) /\ Loop(s, ls) = f[Len(ls)]
<1> DEFINE next == [t \in Passing |-> Pass(t, ls)]
<1>1. next \in [Passing -> Passing]
  BY PassIs
<1>2. \A t \in Passing : next[t] = Pass(t, ls)
  OBVIOUS
<1> HIDE DEF next
<1>3. PICK f \in [Nat -> Passing] : f[0] = s /\ \A n \in Nat : f[n + 1] = next[f[n]]
  <2>1. \A S : \A t \in S, g \in [S -> S] : \E f \in [Nat -> S] : Iterated(f, t, g)
    BY Iterates DEF Iterated
  <2>2. \E f \in [Nat -> Passing] : Iterated(f, s, next)
    BY <1>1, <2>1, Zenon
  <2> QED BY <2>2 DEF Iterated
<1>4. f[0] = s
  BY <1>3
<1>5. \A n \in Nat : f[n + 1] = Pass(f[n], ls)
  BY <1>2, <1>3
<1>7. f = [n \in Nat |-> IF n = 0 THEN s ELSE Pass(f[n - 1], ls)]
  <2>1. ASSUME NEW n \in Nat
        PROVE  f[n] = IF n = 0 THEN s ELSE Pass(f[n - 1], ls)
    <3>1. CASE n = 0
      BY <1>4, <3>1
    <3>2. CASE n # 0
      <4>1. n - 1 \in Nat /\ (n - 1) + 1 = n
        BY <3>2
      <4> QED BY <1>5, <3>2, <4>1
    <3> QED BY <3>1, <3>2
  <2>2. f = [n \in Nat |-> f[n]]
    BY <1>3
  <2> QED BY <2>1, <2>2, Zenon
<1> DEFINE k == CHOOSE a : a = [n \in Nat |-> IF n = 0 THEN s ELSE Pass(a[n - 1], ls)]
<1>8. k = [n \in Nat |-> IF n = 0 THEN s ELSE Pass(k[n - 1], ls)]
  BY <1>7
<1>9. Loop(s, ls) = k[Len(ls)]
  BY DEF Loop
<1> HIDE DEF k
<1>10. \A n \in Nat : k[n] = f[n]
  <2> DEFINE E == { n \in Nat : k[n] = f[n] }
  <2>1. k[0] = s /\ \A n \in Nat : k[n + 1] = Pass(k[n], ls)
    <3>1. k[0] = s
      BY <1>8
    <3>2. ASSUME NEW n \in Nat PROVE k[n + 1] = Pass(k[n], ls)
      <4>1. n + 1 \in Nat /\ n + 1 # 0 /\ (n + 1) - 1 = n
        OBVIOUS
      <4> QED BY <1>8, <4>1
    <3> QED BY <3>1, <3>2
  <2>2. ASSUME NEW m \in Nat
        PROVE  \A n \in 0..m : n \in E
    <3>1. 0 \in E
      BY <1>4, <2>1
    <3>2. ASSUME NEW n \in 0..m, n < m, n \in E
          PROVE  n + 1 \in E
      <4>1. n \in Nat /\ n + 1 \in Nat /\ k[n] = f[n]
        BY <3>2
      <4>2. k[n + 1] = Pass(k[n], ls)
        BY <2>1, <4>1
      <4>3. f[n + 1] = Pass(f[n], ls)
        BY <1>5, <4>1
      <4>4. k[n + 1] = f[n + 1]
        BY <4>1, <4>2, <4>3, Zenon
      <4> QED BY <4>1, <4>4
    <3> HIDE DEF E
    <3> QED BY <3>1, <3>2, HandedFrom
  <2>3. \A n \in Nat : n \in 0..n
    OBVIOUS
  <2> QED BY <2>2, <2>3
<1>11. Loop(s, ls) = f[Len(ls)]
  BY <1>9, <1>10, LenProperties
<1> QED BY <1>3, <1>4, <1>5, <1>11 DEF Going

\* A run has read all there is after as many passes as there are lines, and then stays.
LEMMA GoingIs ==
    ASSUME NEW s \in Passing, NEW ls \in Seq(Lines), NEW f, Going(f, s, ls)
    PROVE  /\ \A n \in Nat : f[n] \in Passing /\ (f[n].i > n \/ f[n].i > Len(ls))
           /\ \A n \in Nat : f[n].i > Len(ls) => \A m \in Nat : n <= m => f[m] = f[n]
           /\ \A n, m \in Nat : n <= m => Begins(f[n].out, f[m].out)
<1>1. /\ \A n \in Nat : f[n] \in Passing /\ f[n].i \in Nat \ {0} /\ f[n].out \in Seq(Lines)
      /\ f[0] = s /\ \A n \in Nat : f[n + 1] = Pass(f[n], ls)
      /\ Len(ls) \in Nat
  BY LenProperties DEF Going, Passing
<1>2. ASSUME NEW n \in Nat
      PROVE  /\ f[n].i > Len(ls) => f[n + 1] = f[n]
             /\ f[n].i <= Len(ls) => f[n + 1].i > f[n].i
             /\ Begins(f[n].out, f[n + 1].out)
  BY <1>1, PassIs
<1>3. ASSUME NEW n \in Nat, f[n].i > Len(ls), NEW m \in Nat, n <= m
      PROVE  f[m] = f[n]
  <2> DEFINE E == { k \in Nat : f[k] = f[n] }
  <2>1. n \in E
    OBVIOUS
  <2>2. ASSUME NEW k \in n..m, k < m, k \in E
        PROVE  k + 1 \in E
    <3>1. k \in Nat /\ k + 1 \in Nat /\ f[k] = f[n]
      BY <2>2
    <3>2. f[k + 1] = f[k]
      BY <1>2, <1>3, <3>1
    <3> QED BY <3>1, <3>2
  <2> HIDE DEF E
  <2>3. \A k \in n..m : k \in E
    BY <2>1, <2>2, HandedFrom
  <2>4. m \in n..m
    BY <1>3
  <2> QED BY <2>3, <2>4 DEF E
<1>4. ASSUME NEW n \in Nat, NEW m \in Nat, n <= m
      PROVE  Begins(f[n].out, f[m].out)
  <2> DEFINE E == { k \in Nat : Begins(f[n].out, f[k].out) }
  <2>1. n \in E
    BY <1>1, LenProperties DEF Begins
  <2>2. ASSUME NEW k \in n..m, k < m, k \in E
        PROVE  k + 1 \in E
    <3> DEFINE a == f[n].out
               b == f[k].out
               c == f[k + 1].out
    <3>1. k \in Nat /\ k + 1 \in Nat /\ Begins(a, b)
      BY <2>2
    <3>2. Begins(b, c)
      BY <1>2, <3>1
    <3>3. a \in Seq(Lines) /\ b \in Seq(Lines) /\ c \in Seq(Lines)
      BY <1>1, <3>1
    <3> HIDE DEF a, b, c
    <3>4. Len(a) \in Nat /\ Len(b) \in Nat /\ Len(c) \in Nat
      BY <3>3, LenProperties
    <3>5. Begins(a, c)
      BY <3>1, <3>2, <3>4 DEF Begins
    <3> QED BY <3>1, <3>5 DEF a, c
  <2> HIDE DEF E
  <2>3. \A k \in n..m : k \in E
    BY <2>1, <2>2, HandedFrom
  <2>4. m \in n..m
    BY <1>4
  <2> QED BY <2>3, <2>4 DEF E
<1>5. ASSUME NEW m \in Nat
      PROVE  f[m].i > m \/ f[m].i > Len(ls)
  <2> DEFINE E == { k \in Nat : f[k].i > k \/ f[k].i > Len(ls) }
  <2>1. 0 \in E
    <3>1. f[0].i \in Nat \ {0}
      BY <1>1
    <3>2. f[0].i > 0
      BY ONLY <3>1
    <3> QED BY ONLY <3>2 DEF E
  <2>2. ASSUME NEW k \in 0..m, k < m, k \in E
        PROVE  k + 1 \in E
    <3> DEFINE a == f[k].i
               b == f[k + 1].i
    <3>1. k \in Nat /\ k + 1 \in Nat /\ (a > k \/ a > Len(ls))
      BY <2>2
    <3>2. a \in Nat /\ b \in Nat
      BY <1>1, <3>1
    <3>3. (a > Len(ls) => b = a) /\ (a <= Len(ls) => b > a)
      <4>1. (f[k].i > Len(ls) => f[k + 1] = f[k]) /\ (f[k].i <= Len(ls) => f[k + 1].i > f[k].i)
        BY <1>2, <3>1, Zenon
      <4> QED BY <4>1, Zenon
    <3> HIDE DEF a, b
    <3>4. b > k + 1 \/ b > Len(ls)
      <4>1. Len(ls) \in Nat
        BY <1>1
      <4>2. CASE a > Len(ls)
        BY <3>3, <4>2
      <4>3. CASE ~ (a > Len(ls))
        BY <3>1, <3>2, <3>3, <4>1, <4>3
      <4> QED BY <4>2, <4>3
    <3> QED BY <3>1, <3>4 DEF b
  <2> HIDE DEF E
  <2>3. \A k \in 0..m : k \in E
    BY <2>1, <2>2, HandedFrom
  <2> QED BY <2>3 DEF E
<1> QED BY <1>1, <1>3, <1>4, <1>5

\* Where the frontmatter of ls may end, and whether it has one.
FrontEnds(ls) == { j \in 2..Len(ls) : ls[j].kind = "rule" }

Fronted(ls) == ls # <<>> /\ ls[1].kind = "rule"

LEMMA StateIs ==
    ASSUME NEW i, NEW p
    PROVE  State(i, p).i = i /\ State(i, p).out = p
BY DEF State

LEMMA StartIs ==
    ASSUME NEW ls \in Seq(Lines)
    PROVE  /\ Start(ls, TRUE) \in Passing /\ Again(Start(ls, TRUE)) = Start(ls, TRUE)
           /\ Start(ls, TRUE).changes = 0
           /\ ~ Fronted(ls) => Start(ls, TRUE) = State(1, <<>>)
           /\ Fronted(ls) =>
                 \E last \in 1..Len(ls) :
                    /\ Start(ls, TRUE) = State(last + 1, SubSeq(ls, 1, last))
                    /\ Len(SubSeq(ls, 1, last)) = last
                    /\ \A k \in 1..last : SubSeq(ls, 1, last)[k] = ls[k]
                    /\ last = Len(ls) \/ last \in FrontEnds(ls)
                    /\ \A k \in FrontEnds(ls) : last <= k
<1>1. Len(ls) \in Nat /\ (ls # <<>> => Len(ls) # 0)
  BY LenProperties, EmptySeq
<1>2. \A i \in Nat \ {0}, p \in Seq(Lines) : State(i, p) \in Passing
  <2>1. TAKE i \in Nat \ {0}, p \in Seq(Lines)
  <2>2. <<>> \in Seq(Vocabulary)
    BY EmptySeq
  <2> QED BY <2>2 DEF State, Passing
<1>3. ASSUME NEW i, NEW p, i = Len(p) + 1
      PROVE  Again(State(i, p)) = State(i, p) /\ State(i, p).changes = 0
  BY <1>3 DEF Again, State
<1>4. CASE ~ Fronted(ls)
  <2> DEFINE e == <<>>
  <2>1. Start(ls, TRUE) = State(1, e)
    BY <1>4 DEF Start, Fronted
  <2>2. e \in Seq(Lines) /\ 1 = Len(e) + 1
    BY EmptySeq
  <2> HIDE DEF e
  <2>3. State(1, e) \in Passing /\ Again(State(1, e)) = State(1, e) /\ State(1, e).changes = 0
    BY <1>2, <1>3, <2>2
  <2> QED BY <1>4, <2>1, <2>3 DEF e
<1>5. CASE Fronted(ls)
  <2> DEFINE cands == {Len(ls)} \cup FrontEnds(ls)
             last == Min(cands)
             p == SubSeq(ls, 1, last)
  <2>1. Start(ls, TRUE) = State(last + 1, p)
    BY <1>5 DEF Start, Fronted, FrontEnds
  <2>2. cands \in SUBSET Nat /\ cands # {}
    BY <1>1 DEF FrontEnds
  <2>3. last \in cands /\ \A k \in cands : last <= k
    <3> HIDE DEF cands
    <3> QED BY <2>2, MinOf
  <2> HIDE DEF last
  <2>4. last \in 1..Len(ls) /\ last \in Nat
    BY <1>1, <1>5, <2>3 DEF FrontEnds, Fronted
  <2>5. /\ p \in Seq(Lines) /\ Len(p) = last /\ \A k \in 1..last : p[k] = ls[k]
    <3>1. \A i \in 1..last : ls[i] \in Lines
      BY <1>1, <2>4, ElementOfSeq
    <3>2. /\ SubSeq(ls, 1, last) \in Seq(Lines)
          /\ Len(SubSeq(ls, 1, last)) = IF 1 <= last THEN last - 1 + 1 ELSE 0
          /\ \A k \in 1..(last - 1 + 1) : SubSeq(ls, 1, last)[k] = ls[1 + k - 1]
      BY <1>1, <2>4, <3>1, SubSeqProperties
    <3>3. last - 1 + 1 = last /\ 1 <= last /\ \A k \in 1..last : 1 + k - 1 = k
      BY <2>4
    <3> QED BY <3>2, <3>3
  <2> HIDE DEF p
  <2>6. State(last + 1, p) \in Passing /\ Again(State(last + 1, p)) = State(last + 1, p)
        /\ State(last + 1, p).changes = 0
    BY <1>2, <1>3, <2>4, <2>5
  <2>7. (last = Len(ls) \/ last \in FrontEnds(ls)) /\ \A k \in FrontEnds(ls) : last <= k
    BY <2>3
  <2> QED BY <1>5, <2>1, <2>4, <2>5, <2>6, <2>7 DEF p
<1> QED BY <1>4, <1>5

\* The frontmatter is found again, and none where there was none.
LEMMA StartAgain ==
    ASSUME NEW ls \in Seq(Lines), NEW once \in Seq(Lines),
           Begins(Start(ls, TRUE).out, once),
           Start(ls, TRUE).i > Len(ls) => once = Start(ls, TRUE).out,
           ~ Fronted(ls) => ~ Fronted(once)
    PROVE  Start(once, TRUE) = Start(ls, TRUE)
<1>1. CASE ~ Fronted(ls)
  BY <1>1, StartIs
<1>2. CASE Fronted(ls)
  <2>1. PICK last \in 1..Len(ls) :
                    /\ Start(ls, TRUE) = State(last + 1, SubSeq(ls, 1, last))
                    /\ Len(SubSeq(ls, 1, last)) = last
                    /\ \A k \in 1..last : SubSeq(ls, 1, last)[k] = ls[k]
                    /\ last = Len(ls) \/ last \in FrontEnds(ls)
                    /\ \A k \in FrontEnds(ls) : last <= k
    BY <1>2, StartIs
  <2> DEFINE p == SubSeq(ls, 1, last)
  <2>2. Start(ls, TRUE).out = p /\ Start(ls, TRUE).i = last + 1
    <3>1. State(last + 1, p).i = last + 1 /\ State(last + 1, p).out = p
      BY StateIs
    <3>2. Start(ls, TRUE) = State(last + 1, p)
      BY <2>1
    <3> QED BY <3>1, <3>2, Zenon
  <2>3. Len(p) = last /\ \A k \in 1..last : p[k] = ls[k]
    BY <2>1
  <2> HIDE DEF p
  <2>4. Len(ls) \in Nat /\ Len(once) \in Nat /\ last \in Nat /\ last # 0
    BY LenProperties
  <2>5. CASE last = Len(ls)
    <3>1. once = p
      <4>1. last + 1 > Len(ls)
        BY <2>4, <2>5
      <4> QED BY <2>2, <4>1
    <3>2. p = ls
      <4>1. Len(once) = Len(ls) /\ \A k \in 1..Len(once) : once[k] = ls[k]
        BY <2>3, <2>5, <3>1
      <4>2. once = ls
        BY <4>1, SeqEqual
      <4> QED BY <3>1, <4>2
    <3> QED BY <3>1, <3>2
  <2>6. CASE last # Len(ls)
    <3>1. last \in FrontEnds(ls) /\ last <= Len(once) /\ \A k \in 1..last : once[k] = ls[k]
      <4>1. Begins(p, once)
        BY <2>2
      <4> QED BY <2>1, <2>3, <2>6, <4>1 DEF Begins
    <3>2. once[1] = ls[1] /\ Len(once) # 0
      BY <2>4, <3>1
    <3>3. Fronted(once)
      BY <1>2, <3>2, EmptySeq DEF Fronted
    <3>4. PICK end \in 1..Len(once) :
                    /\ Start(once, TRUE) = State(end + 1, SubSeq(once, 1, end))
                    /\ Len(SubSeq(once, 1, end)) = end
                    /\ \A k \in 1..end : SubSeq(once, 1, end)[k] = once[k]
                    /\ end = Len(once) \/ end \in FrontEnds(once)
                    /\ \A k \in FrontEnds(once) : end <= k
      BY <3>3, StartIs
    <3>5. last \in FrontEnds(once)
      BY <2>4, <3>1 DEF FrontEnds
    <3>6. end <= last
      BY <3>4, <3>5
    <3>7. ~ (end < last)
      <4>1. SUFFICES ASSUME end < last PROVE FALSE
        OBVIOUS
      <4>2. end \in FrontEnds(once)
        BY <2>4, <3>1, <3>4, <4>1
      <4>3. end \in FrontEnds(ls)
        BY <2>4, <3>1, <4>1, <4>2 DEF FrontEnds
      <4> QED BY <2>1, <2>4, <3>4, <4>1, <4>3
    <3>8. end = last
      BY <2>4, <3>6, <3>7
    <3>9. SubSeq(once, 1, end) = p
      <4> DEFINE a == SubSeq(once, 1, end)
      <4>1. Len(a) = last /\ \A k \in 1..last : a[k] = once[k]
        BY <3>4, <3>8
      <4>2. a \in Seq(Lines) /\ p \in Seq(Lines)
        <5>1. Start(once, TRUE) \in Passing /\ Start(ls, TRUE) \in Passing
          BY StartIs
        <5>2. Start(once, TRUE).out = a
          <6>1. State(end + 1, a).out = a
            BY StateIs
          <6>2. Start(once, TRUE) = State(end + 1, a)
            BY <3>4
          <6> QED BY <6>1, <6>2, Zenon
        <5> QED BY <2>2, <5>1, <5>2 DEF Passing
      <4> HIDE DEF a
      <4>3. \A k \in 1..Len(a) : a[k] = p[k]
        BY <2>3, <3>1, <4>1
      <4>4. Len(a) = Len(p)
        BY <2>3, <4>1
      <4>5. a = p
        BY ONLY <4>2, <4>3, <4>4, SeqEqual
      <4> QED BY <4>5 DEF a
    <3> QED BY <2>1, <3>4, <3>8, <3>9 DEF p
  <2> QED BY <2>5, <2>6
<1> QED BY <1>1, <1>2

\* What the run of a text writes is a text that a run leaves as it is.
LEMMA RewriteIs ==
    ASSUME NEW ls, NEW f, Loop(Start(ls, TRUE), ls) = f
    PROVE  /\ Rewrite(ls, TRUE).lines = f.out
           /\ f.changes = 0 => Rewrite(ls, TRUE) = [lines |-> f.out, changed |-> FALSE]
<1>1. Rewrite(ls, TRUE) = [lines |-> f.out, changed |-> f.changes > 0]
  BY DEF Rewrite
<1>2. Rewrite(ls, TRUE).lines = f.out
  <2> DEFINE c == f.changes > 0
             r == [lines |-> f.out, changed |-> c]
  <2>1. r.lines = f.out
    OBVIOUS
  <2> HIDE DEF r
  <2>2. Rewrite(ls, TRUE) = r
    BY <1>1 DEF r
  <2> QED BY <2>1, <2>2, Zenon
<1>3. ASSUME f.changes = 0
      PROVE  Rewrite(ls, TRUE) = [lines |-> f.out, changed |-> FALSE]
  <2>1. (f.changes > 0) = FALSE
    BY <1>3
  <2> QED BY <1>1, <2>1, Zenon
<1> QED BY <1>2, <1>3

LEMMA RewriteStays ==
    ASSUME NEW ls \in Seq(Lines)
    PROVE  /\ Rewrite(ls, TRUE).lines \in Seq(Lines)
           /\ Rewrite(Rewrite(ls, TRUE).lines, TRUE) = [lines |-> Rewrite(ls, TRUE).lines, changed |-> FALSE]
<1> DEFINE s == Start(ls, TRUE)
           N == Len(ls)
<1>1. s \in Passing /\ Again(s) = s /\ N \in Nat
  BY StartIs, LenProperties
<1>2. s = Start(ls, TRUE)
  OBVIOUS
<1> HIDE DEF s
<1>3. PICK f : Going(f, s, ls) /\ Loop(s, ls) = f[N]
  BY <1>1, LoopIs
<1>4. f[0] = s /\ \A n \in Nat : f[n + 1] = Pass(f[n], ls)
  BY <1>3 DEF Going
<1>5. /\ \A n \in Nat : f[n] \in Passing /\ (f[n].i > n \/ f[n].i > N)
      /\ \A n \in Nat : f[n].i > N => \A m \in Nat : n <= m => f[m] = f[n]
      /\ \A n, m \in Nat : n <= m => Begins(f[n].out, f[m].out)
  BY <1>1, <1>3, GoingIs
<1> DEFINE once == f[N].out
           M == Len(once)
<1>6. once \in Seq(Lines) /\ M \in Nat /\ f[N].i > N
  BY <1>1, <1>5, LenProperties DEF Passing
<1>7. Rewrite(ls, TRUE).lines = once
  BY <1>2, <1>3, RewriteIs
<1>8. ASSUME NEW n \in Nat
      PROVE  /\ f[n] \in Passing /\ f[n].i \in Nat \ {0} /\ f[n].out \in Seq(Lines)
             /\ Begins(f[n].out, once)
             /\ f[n].i > N => f[n].out = once
  <2>1. f[n] \in Passing /\ f[n].i \in Nat \ {0} /\ f[n].out \in Seq(Lines)
    BY <1>5 DEF Passing
  <2>2. CASE n <= N
    BY <1>1, <1>5, <2>1, <2>2
  <2>3. CASE N <= n
    <3>1. f[n] = f[N]
      BY <1>1, <1>5, <1>6, <2>3
    <3> QED BY <1>1, <1>5, <2>1, <3>1
  <2> QED BY <1>1, <2>2, <2>3
<1> HIDE DEF once, N
<1>9. ASSUME NEW n \in Nat, f[n].i <= N
      PROVE  \E seg : /\ seg \in Seq(Lines) /\ seg # <<>>
                      /\ ls[f[n].i].kind # "rule" => seg[1].kind # "rule"
                      /\ f[n + 1].out = f[n].out \o seg
                      /\ Step(Again(f[n]), once) = Again(f[n + 1])
  <2>1. Twice(f[n], ls) /\ f[n + 1] = Step(f[n], ls)
    BY <1>4, <1>8, <1>9, PassIs DEF N
  <2>2. PICK k, seg, o, p, c : Way(f[n], ls, k, seg, o, p, c)
    BY <2>1 DEF Twice
  <2>3. /\ seg \in Seq(Lines) /\ seg # <<>>
        /\ f[n + 1] = Grown(f[n], k, seg, o, p, c)
        /\ ls[f[n].i].kind # "rule" => seg[1].kind # "rule"
        /\ Begins(f[n].out \o seg, once) =>
              Step(Again(f[n]), once) = Grown(Again(f[n]), Len(seg), seg, o, p, 0)
    BY <1>6, <2>1, <2>2, Zenon DEF Way, Typed
  <2>4. f[n + 1].out = f[n].out \o seg
    BY <2>3 DEF Grown
  <2>5. Begins(f[n].out \o seg, once)
    <3>1. n + 1 \in Nat
      OBVIOUS
    <3>2. Begins(f[n + 1].out, once)
      BY <1>8, <3>1
    <3> QED BY <2>4, <3>2
  <2>6. Again(f[n + 1]) = Grown(Again(f[n]), Len(seg), seg, o, p, 0)
    <3>1. f[n] \in Passing
      BY <1>8
    <3>2. Again(Grown(f[n], k, seg, o, p, c)) = Grown(Again(f[n]), Len(seg), seg, o, p, 0)
      BY <2>3, <3>1, AgainGrows
    <3> QED BY <2>3, <3>2
  <2>7. Step(Again(f[n]), once) = Again(f[n + 1])
    BY <2>3, <2>5, <2>6
  <2> QED BY <2>3, <2>4, <2>7
<1>10. ~ Fronted(ls) => ~ Fronted(once)
  <2>1. SUFFICES ASSUME ~ Fronted(ls) PROVE ~ Fronted(once)
    OBVIOUS
  <2>2. s = State(1, <<>>)
    BY <1>2, <2>1, StartIs
  <2>3. f[0].i = 1 /\ f[0].out = <<>>
    BY <1>4, <2>2, StateIs
  <2>4. CASE N = 0
    <3>1. once = <<>>
      BY <2>3, <2>4 DEF once
    <3> QED BY <3>1 DEF Fronted
  <2>5. CASE N # 0
    <3>1. 0 \in Nat /\ f[0].i <= N /\ 0 + 1 = 1
      BY <1>1, <2>3, <2>5
    <3>2. PICK seg : /\ seg \in Seq(Lines) /\ seg # <<>>
                     /\ ls[f[0].i].kind # "rule" => seg[1].kind # "rule"
                     /\ f[1].out = f[0].out \o seg
      BY <1>9, <3>1
    <3>3. ls[1].kind # "rule"
      <4>1. ls # <<>>
        BY <2>5, EmptySeq DEF N
      <4> QED BY <2>1, <4>1 DEF Fronted
    <3>4. seg[1].kind # "rule"
      BY <2>3, <3>2, <3>3
    <3>5. Begins(<<>> \o seg, once)
      BY <1>8, <2>3, <3>2
    <3>6. \A k \in 1..Len(seg) : once[0 + k] = seg[k]
      <4> DEFINE e == <<>>
      <4>1. e \in Seq(Lines) /\ Len(e) = 0
        BY EmptySeq
      <4>2. Begins(e \o seg, once)
        BY <3>5
      <4> HIDE DEF e
      <4>3. \A k \in 1..Len(seg) : once[Len(e) + k] = seg[k]
        BY <1>6, <3>2, <4>1, <4>2, PrefixIs
      <4> QED BY <4>1, <4>3
    <3>7. 1 \in 1..Len(seg) /\ 0 + 1 = 1
      BY <3>2, EmptySeq, LenProperties
    <3>8. once[1] = seg[1]
      BY <3>6, <3>7
    <3> QED BY <3>4, <3>8 DEF Fronted
  <2> QED BY <2>4, <2>5
<1>11. Start(once, TRUE) = s
  <2>1. Begins(s.out, once) /\ (s.i > N => once = s.out)
    BY <1>4, <1>8
  <2>2. Begins(Start(ls, TRUE).out, once) /\ (Start(ls, TRUE).i > Len(ls) => once = Start(ls, TRUE).out)
    BY <1>2, <2>1, Zenon DEF N
  <2>3. Start(once, TRUE) = Start(ls, TRUE)
    BY <1>6, <1>10, <2>2, StartAgain
  <2> QED BY <1>2, <2>3, Zenon
<1>12. PICK g : Going(g, s, once) /\ Loop(s, once) = g[M]
  BY <1>1, <1>6, LoopIs
<1>13. g[0] = s /\ \A n \in Nat : g[n + 1] = Pass(g[n], once)
  BY <1>12 DEF Going
<1> DEFINE E == { n \in Nat : g[n] = Again(f[n]) }
<1>14. 0 \in E
  BY <1>1, <1>4, <1>13
<1>15. ASSUME NEW n \in Nat, n \in E
       PROVE  n + 1 \in E
  <2>1. g[n + 1] = Pass(Again(f[n]), once) /\ n + 1 \in Nat
    BY <1>13, <1>15
  <2>2. Again(f[n]).i = Len(f[n].out) + 1
    BY DEF Again
  <2>3. CASE f[n].i > N
    <3>1. f[n].out = once
      BY <1>8, <2>3
    <3>2. Again(f[n]).i > M
      BY <1>6, <2>2, <3>1
    <3>3. Pass(Again(f[n]), once) = Again(f[n])
      BY <3>2 DEF Pass
    <3>4. f[n + 1] = f[n]
      <4>1. n <= n + 1
        OBVIOUS
      <4> QED BY <1>5, <2>1, <2>3, <4>1 DEF N
    <3> QED BY <2>1, <3>3, <3>4
  <2>4. CASE f[n].i <= N
    <3>1. PICK seg : /\ seg \in Seq(Lines) /\ seg # <<>>
                     /\ f[n + 1].out = f[n].out \o seg
                     /\ Step(Again(f[n]), once) = Again(f[n + 1])
      BY <1>9, <2>4
    <3>2. Begins(f[n].out \o seg, once) /\ f[n].out \in Seq(Lines)
      <4>1. Begins(f[n + 1].out, once)
        BY <1>8, <2>1
      <4> QED BY <1>8, <3>1, <4>1
    <3>3. Len(f[n].out) + Len(seg) <= M
      BY <1>6, <3>1, <3>2, PrefixIs
    <3>4. Len(f[n].out) \in Nat /\ Len(seg) \in Nat /\ Len(seg) # 0
      BY <3>1, <3>2, LenProperties, EmptySeq
    <3>5. ~ (Again(f[n]).i > M)
      BY <1>6, <2>2, <3>3, <3>4
    <3>6. Pass(Again(f[n]), once) = Step(Again(f[n]), once)
      BY <3>5 DEF Pass
    <3> QED BY <2>1, <3>1, <3>6
  <2>5. f[n].i \in Nat /\ N \in Nat
    BY <1>1, <1>8
  <2> QED BY <2>3, <2>4, <2>5
<1>16. M \in E
  <2> HIDE DEF E
  <2>1. \A n \in 0..M : n < M /\ n \in E => n + 1 \in E
    BY <1>6, <1>15
  <2>2. \A n \in 0..M : n \in E
    BY <1>6, <1>14, <2>1, HandedFrom
  <2> QED BY <1>6, <2>2
<1>17. Loop(s, once) = Again(f[M])
  BY <1>12, <1>16
<1>18. f[M].out = once
  <2> DEFINE a == f[M].out
  <2>1. Again(f[M]).i > M
    <3>1. g[M].i > M
      BY <1>1, <1>6, <1>12, GoingIs
    <3> QED BY <1>16, <3>1
  <2>2. Len(a) + 1 > M
    BY <2>1 DEF Again
  <2>3. Begins(a, once) /\ a \in Seq(Lines)
    BY <1>6, <1>8
  <2> HIDE DEF a
  <2>4. Len(a) = M /\ \A k \in 1..Len(a) : once[k] = a[k]
    BY <1>6, <2>2, <2>3, LenProperties DEF Begins
  <2>5. a = once
    BY <1>6, <2>3, <2>4, SeqEqual
  <2> QED BY <2>5 DEF a
<1>19. Rewrite(once, TRUE) = [lines |-> once, changed |-> FALSE]
  <2> DEFINE h == Again(f[M])
  <2>1. h.out = once /\ h.changes = 0
    BY <1>18 DEF Again
  <2>2. Loop(Start(once, TRUE), once) = h
    BY <1>11, <1>17, Zenon
  <2> HIDE DEF h
  <2>3. Rewrite(once, TRUE) = [lines |-> h.out, changed |-> FALSE]
    BY <2>1, <2>2, RewriteIs
  <2> QED BY <2>1, <2>3, Zenon
<1> QED BY <1>6, <1>7, <1>19, Zenon

\* What authors write and the script writes is lines.
TextIsLines == text \in Seq(Lines)

LEMMA TextStaysLines == TextIsLines /\ [MigrationNext]_migrationVars => TextIsLines'
<1>1. SUFFICES ASSUME TextIsLines, [MigrationNext]_migrationVars
               PROVE  text' \in Seq(Lines)
  BY DEF TextIsLines
<1>2. ASSUME NEW c \in Constructs, NEW lines \in {c.v1, c.v2}, Write(c, lines)
      PROVE  text' \in Seq(Lines)
  <2>1. lines \in Seq(Lines)
    BY <1>2, ScriptsAssumption
  <2> QED BY <1>1, <1>2, <2>1, ConcatProperties DEF TextIsLines, Write
<1>3. ASSUME NEW line \in Strays, WriteStray(line)
      PROVE  text' \in Seq(Lines)
  <2>1. line \in Lines
    BY ScriptsAssumption
  <2> QED BY <1>1, <1>3, <2>1, AppendProperties DEF TextIsLines, WriteStray
<1>4. CASE MigrateFile
  BY <1>1, <1>4, RewriteStays DEF TextIsLines, MigrateFile
<1>5. CASE UNCHANGED text
  BY <1>1, <1>5 DEF TextIsLines
<1>6. \A c \in Chars : Type(c) => UNCHANGED text
  BY DEF Type
<1> QED BY <1>1, <1>2, <1>3, <1>4, <1>5, <1>6 DEF MigrationNext, migrationVars

\* A second run of the migration leaves every document as the first has written it,
\* whatever its lines, whole or not (migrate-v1-to-v2.mjs:5 and 130-335).
THEOREM SecondRunChangesNothing == MigrationSpec => []OwnOutputStays
<1>1. MigrationInit => TextIsLines
  BY EmptySeq DEF MigrationInit, TextIsLines
<1>2. TextIsLines => OwnOutputStays
  BY RewriteStays DEF TextIsLines, OwnOutputStays
<1> QED BY <1>1, <1>2, TextStaysLines, PTL DEF MigrationSpec
=============================================================================
