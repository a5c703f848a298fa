-------------------------- MODULE EngineWalkProofs --------------------------
(***************************************************************************)
(* EngineWalk proved for all documents, files and values: the types, that  *)
(* no file is walked inside itself, and that a walk that ends leaves       *)
(* nothing of its own behind, on the callstack or among the connections;   *)
(* and what one step may never do: write a table from inside a template    *)
(* that a context outside it refers to, or give the caller advice from     *)
(* inside a file the document includes or renders.                         *)
(***************************************************************************)
EXTENDS EngineWalk, SequenceTheorems, FiniteSetTheorems, WellFoundedInduction, TLAPS

-----------------------------------------------------------------------------
(* The smallest position *)

\* The first of some positions is one of them.
LEMMA FirstIn ==
    ASSUME NEW n \in Nat, NEW S \in SUBSET (1..n), S # {}
    PROVE  First(S) \in S
<1> DEFINE Less == OpToRel(<, Nat)
<1>1. IsWellFoundedOn(Less, Nat)
  BY NatLessThanWellFounded
<1>2. \A x, y \in Nat : <<y, x>> \in Less <=> y < x
  BY DEF OpToRel
<1> HIDE DEF Less
<1>3. S \subseteq Nat
  OBVIOUS
<1>4. PICK x \in S : \A y \in S : ~ (<<y, x>> \in Less)
  BY <1>1, <1>3, WFMin
<1>5. ASSUME NEW y \in S
      PROVE  x <= y
  <2>1. x \in Nat /\ y \in Nat
    BY <1>3
  <2>2. ~ (y < x)
    BY <1>2, <1>4, <2>1
  <2>3. QED
    BY <2>1, <2>2
<1>6. QED
  BY <1>5 DEF First

-----------------------------------------------------------------------------
(* The store *)

StoreType(st) ==
    /\ DOMAIN st = Tables
    /\ \A t \in Tables : st[t] \in Seq(Kind(t))

SameSizes(st) == \A t \in Tables : Len(st[t]) = Len(store[t])

\* A table of kind t stays one when its entry x becomes v.
Fits(t, x, v) == \A f \in Kind(t) : [f EXCEPT ![x] = v] \in Kind(t)

\* Writing an entry of a table keeps the types and the number of tables.
LEMMA PutType ==
    ASSUME NEW st, StoreType(st), NEW t \in Tables, NEW i \in 1..Len(st[t]),
           NEW x, NEW v, Fits(t, x, v), NEW put, put = [st EXCEPT ![t][i][x] = v]
    PROVE  /\ StoreType(put)
           /\ \A u \in Tables : Len(put[u]) = Len(st[u])
<1>1. DOMAIN put = Tables
  BY DEF StoreType
<1>2. put[t] = [st[t] EXCEPT ![i] = [st[t][i] EXCEPT ![x] = v]]
  BY DEF StoreType
<1>3. st[t][i] \in Kind(t)
  BY DEF StoreType
<1>4. [st[t][i] EXCEPT ![x] = v] \in Kind(t)
  BY <1>3 DEF Fits
<1>5. st[t] \in Seq(Kind(t))
  BY DEF StoreType
<1> DEFINE new == [st[t][i] EXCEPT ![x] = v]
<1>6. put[t] \in Seq(Kind(t)) /\ Len(put[t]) = Len(st[t])
  <2>1. new \in Kind(t) /\ put[t] = [st[t] EXCEPT ![i] = new]
    BY <1>2, <1>4
  <2> HIDE DEF new
  <2>2. QED
    BY <1>5, <2>1, ExceptSeq
<1>7. \A u \in Tables \ {t} : put[u] = st[u]
  BY DEF StoreType
<1>8. QED
  BY <1>1, <1>6, <1>7 DEF StoreType

\* What may be written into a table of each kind.
LEMMA KindVars ==
    ASSUME NEW t \in {"env", "data"}, NEW x, NEW v \in Values \cup {Unset}
    PROVE  Fits(t, x, v)
BY DEF Fits, Kind

\* A macro table holds bodies.
LEMMA KindMacros ==
    ASSUME NEW x, NEW v \in Seq(Nodes)
    PROVE  Fits("macros", x, v)
<1>1. Kind("macros") = [Macros -> {NoBody} \cup Seq(Nodes)]
  BY DEF Kind
<1> DEFINE B == {NoBody} \cup Seq(Nodes)
<1>2. v \in B
  OBVIOUS
<1> HIDE DEF B
<1>3. \A f \in [Macros -> B] : [f EXCEPT ![x] = v] \in [Macros -> B]
  BY <1>2
<1>4. QED
  BY <1>1, <1>3 DEF B, Fits

\* A connection table holds who registered a connection and how.
LEMMA KindConns ==
    ASSUME NEW x, NEW f \in Files, NEW l \in BOOLEAN
    PROVE  Fits("conns", x, [by |-> f, local |-> l])
<1> DEFINE B == [by : Files, local : BOOLEAN] \cup {Unset}
<1>1. Kind("conns") = [Conns -> B]
  BY DEF Kind
<1>2. [by |-> f, local |-> l] \in B
  OBVIOUS
<1> HIDE DEF B
<1>3. QED
  BY <1>1, <1>2 DEF Fits

\* A table of local names holds flags.
LEMMA KindLocals ==
    ASSUME NEW x, NEW b \in BOOLEAN
    PROVE  Fits("locals", x, b)
BY DEF Kind, Fits

-----------------------------------------------------------------------------
(* The inductive invariant *)

StackType(stk, st) ==
    /\ stk \in Seq(Activation)
    /\ \A i \in 1..Len(stk), t \in Tables : stk[i].ctx[t] \in 1..Len(st[t])

RestType ==
    /\ source \in [Files -> Content]
    /\ callstack \in Seq(Nodes)
    /\ resolving \subseteq Files /\ completed \subseteq Files
    /\ fallbacks \in [EnvNames -> Values \cup {Unset}]
    /\ chosen \in Phases \cup {NoPhase}
    /\ thrown \in {Nothing, AnError} \cup
                  { Fatal(why, f) : why \in {"blocked", "cycle"}, f \in Files }

\* The document is the outermost activation and the only one of its kind.
Rooted == \A i \in 1..Len(stack) : stack[i].node.type = "document" <=> i = 1

\* An inner context refers to the tables of an outer one or to younger tables.
Nested ==
    \A i, j \in 1..Len(stack), t \in Tables :
        i <= j => stack[i].ctx[t] <= stack[j].ctx[t]

\* Everything in a template refers to younger tables than everything outside.
Separate ==
    \A i, j \in 1..Len(stack), t \in Tables :
        (i < j /\ stack[j].node.type = "template")
        => stack[i].ctx[t] < stack[j].ctx[t]

\* No phase is active in an included file or in a template.
Quiet ==
    \A i, j \in 1..Len(stack) :
        (i <= j /\ stack[i].node.type \in {"include", "template"})
        => stack[j].phase = NoPhase

\* The files that are being walked are marked as in progress.
InProgress ==
    \A i \in 1..Len(stack) : Opens(stack[i]) => stack[i].node.file \in resolving

IInv ==
    /\ TypeOK /\ Rooted /\ Nested /\ Separate /\ Quiet /\ InProgress /\ NoReentry

\* The type invariant, part by part, in this state and in the next.
LEMMA TypeParts ==
    /\ TypeOK <=> StackType(stack, store) /\ StoreType(store) /\ RestType
    /\ TypeOK' <=> StackType(stack', store') /\ StoreType(store') /\ RestType'
BY DEF TypeOK, StackType, StoreType, RestType

-----------------------------------------------------------------------------
(* Frames *)

SameFrame(a, b) ==
    a.node = b.node /\ a.file = b.file /\ a.ctx = b.ctx /\ a.phase = b.phase

\* A sequence without its last element.
LEMMA FrontFacts ==
    ASSUME NEW S, NEW s \in Seq(S)
    PROVE  /\ SubSeq(s, 1, Len(s) - 1) \in Seq(S)
           /\ s # <<>> => /\ Len(SubSeq(s, 1, Len(s) - 1)) = Len(s) - 1
                          /\ \A i \in 1..(Len(s) - 1) :
                                SubSeq(s, 1, Len(s) - 1)[i] = s[i]
<1> DEFINE n == Len(s) - 1
<1>1. n \in Int /\ 1 \in Int
  OBVIOUS
<1>2. \A i \in 1..n : s[i] \in S
  OBVIOUS
<1>3. /\ SubSeq(s, 1, n) \in Seq(S)
      /\ Len(SubSeq(s, 1, n)) = IF 1 <= n THEN n - 1 + 1 ELSE 0
      /\ \A i \in 1..(n - 1 + 1) : SubSeq(s, 1, n)[i] = s[1 + i - 1]
  BY <1>1, <1>2, SubSeqProperties
<1>4. s # <<>> => n \in Nat
  OBVIOUS
<1>5. n - 1 + 1 = n /\ \A i \in 1..n : 1 + i - 1 = i
  BY <1>1
<1>6. QED
  BY <1>3, <1>4, <1>5

\* What TypeOK says of the stack, without the kinds of tables.
LEMMA StackFacts ==
    ASSUME TypeOK
    PROVE  /\ stack \in Seq(Activation)
           /\ \A i \in 1..Len(stack) : stack[i] \in Activation
           /\ \A i \in 1..Len(stack), t \in Tables :
                 stack[i].ctx[t] \in 1..Len(store[t])
           /\ \A t \in Tables : Len(store[t]) \in Nat
<1>1. \A t \in Tables : Len(store[t]) \in Nat
  BY DEF TypeOK
<1>2. stack \in Seq(Activation)
  BY DEF TypeOK
<1>3. \A i \in 1..Len(stack) : stack[i] \in Activation
  BY <1>2
<1>4. QED
  BY <1>1, <1>2, <1>3 DEF TypeOK

\* The innermost activation.
LEMMA TopFacts ==
    ASSUME TypeOK, stack # <<>>
    PROVE  /\ Len(stack) \in Nat \ {0}
           /\ Top = stack[Len(stack)]
           /\ Top \in Activation
           /\ \A t \in Tables : Top.ctx[t] \in 1..Len(store[t])
BY StackFacts DEF Top

\* The node that is walked next, and the stack once it has been taken.
LEMMA TakenFacts ==
    ASSUME TypeOK, stack # <<>>, Top.todo # <<>>
    PROVE  /\ Node \in Nodes
           /\ Taken \in Seq(Activation)
           /\ Len(Taken) = Len(stack)
           /\ \A i \in 1..Len(stack) : SameFrame(Taken[i], stack[i])
<1>1. Top.todo \in Seq(Nodes)
  BY TopFacts DEF Activation
<1>2. Node \in Nodes /\ Tail(Top.todo) \in Seq(Nodes)
  BY <1>1, HeadTailProperties DEF Node
<1> DEFINE fr == [Top EXCEPT !.todo = Tail(@)]
<1>3. fr \in Activation /\ SameFrame(fr, Top)
  BY <1>2, TopFacts DEF Activation, SameFrame
<1>4. Taken = [stack EXCEPT ![Len(stack)] = fr]
  BY DEF Taken, Top
<1> HIDE DEF fr
<1>5. stack \in Seq(Activation) /\ Len(stack) \in 1..Len(stack)
  BY TopFacts DEF TypeOK
<1>6. /\ Taken \in Seq(Activation)
      /\ Len(Taken) = Len(stack)
      /\ \A i \in 1..Len(stack) : Taken[i] = IF i = Len(stack) THEN fr ELSE stack[i]
  BY <1>3, <1>4, <1>5, ExceptSeq
<1>7. QED
  BY <1>2, <1>3, <1>6, TopFacts DEF SameFrame

\* The stack without its innermost activation.
LEMMA PoppedFacts ==
    ASSUME TypeOK, stack # <<>>
    PROVE  /\ Popped \in Seq(Activation)
           /\ Len(Popped) = Len(stack) - 1
           /\ \A i \in 1..(Len(stack) - 1) : Popped[i] = stack[i]
BY StackFacts, FrontFacts DEF Popped

\* Taking a node leaves every activation with its tables.
LEMMA TakenType ==
    ASSUME TypeOK, stack # <<>>, Top.todo # <<>>, NEW st, SameSizes(st)
    PROVE  StackType(Taken, st)
BY TakenFacts, StackFacts DEF StackType, SameFrame, SameSizes

\* So does leaving an activation, when no table goes away.
LEMMA PoppedType ==
    ASSUME TypeOK, stack # <<>>, NEW st, SameSizes(st)
    PROVE  StackType(Popped, st)
<1>1. Len(stack) \in Nat
  BY TopFacts
<1>2. \A i \in 1..(Len(stack) - 1) : i \in 1..Len(stack) /\ Popped[i] = stack[i]
  BY <1>1, PoppedFacts
<1>3. QED
  BY <1>2, PoppedFacts, StackFacts DEF StackType, SameSizes

\* Entering an activation, in the same tables or in new ones.
LEMMA PushedType ==
    ASSUME TypeOK, stack # <<>>, Top.todo # <<>>, NEW fr \in Activation, NEW st,
           \A t \in Tables : /\ Len(st[t]) \in Nat /\ Len(st[t]) >= Len(store[t])
                             /\ fr.ctx[t] \in 1..Len(st[t])
    PROVE  /\ StackType(Append(Taken, fr), st)
           /\ Len(Append(Taken, fr)) = Len(stack) + 1
           /\ \A i \in 1..Len(stack) : SameFrame(Append(Taken, fr)[i], stack[i])
           /\ Append(Taken, fr)[Len(stack) + 1] = fr
<1>1. /\ Append(Taken, fr) \in Seq(Activation)
      /\ Len(Append(Taken, fr)) = Len(stack) + 1
      /\ \A i \in 1..Len(stack) : Append(Taken, fr)[i] = Taken[i]
      /\ Append(Taken, fr)[Len(stack) + 1] = fr
  BY TakenFacts, AppendProperties
<1>2. \A i \in 1..Len(stack) : SameFrame(Append(Taken, fr)[i], stack[i])
  BY <1>1, TakenFacts
<1>3. ASSUME NEW i \in 1..(Len(stack) + 1), NEW t \in Tables
      PROVE  Append(Taken, fr)[i].ctx[t] \in 1..Len(st[t])
  <2>1. CASE i = Len(stack) + 1
    BY <1>1, <2>1
  <2>2. CASE i # Len(stack) + 1
    <3>1. i \in 1..Len(stack)
      BY <2>2, TopFacts
    <3>2. stack[i].ctx[t] \in 1..Len(store[t])
      BY <3>1, StackFacts
    <3>3. Append(Taken, fr)[i].ctx = stack[i].ctx
      BY <1>2, <3>1 DEF SameFrame
    <3>4. Len(store[t]) \in Nat
      BY StackFacts
    <3>5. QED
      BY <3>2, <3>3, <3>4
  <2>3. QED
    BY <2>1, <2>2
<1>4. QED
  BY <1>1, <1>2, <1>3 DEF StackType

\* A body with its arguments written into it is a body.
LEMMA SubstitutedType ==
    ASSUME NEW body \in Seq(Nodes), NEW args \in Bindings
    PROVE  Substituted(body, args) \in Seq(Nodes)
<1>1. \A i \in 1..Len(body) : Substitute(body[i], args) \in Nodes
  BY SubstituteAssumption
<1>2. QED
  BY <1>1 DEF Substituted

\* So is the body of a loop for one item.
LEMMA UnrolledType ==
    ASSUME NEW n, n.body \in Seq(Nodes), n.var \in Vars, NEW item \in Values
    PROVE  Unrolled(n, item) \in Seq(Nodes)
<1>1. [v \in {n.var} |-> item] \in Bindings
  <2>1. [v \in {n.var} |-> item] \in [{n.var} -> Values] /\ {n.var} \in SUBSET Vars
    OBVIOUS
  <2>2. QED
    BY <2>1 DEF Bindings
<1>2. QED
  BY <1>1, SubstitutedType DEF Unrolled

\* Walking a body in the same context.
LEMMA InnerType ==
    ASSUME TypeOK, stack # <<>>, Top.todo # <<>>, NEW body \in Seq(Nodes)
    PROVE  Inner(body) \in Activation
BY TopFacts, TakenFacts DEF Inner, Frame, Activation

-----------------------------------------------------------------------------
(* What the operations on the store return *)

\* Writing an entry of one of the current context's tables.
LEMMA WithType ==
    ASSUME TypeOK, stack # <<>>, NEW t \in Tables, NEW x, NEW v, Fits(t, x, v)
    PROVE  StoreType(With(t, x, v)) /\ SameSizes(With(t, x, v))
<1>1. StoreType(store) /\ Top.ctx[t] \in 1..Len(store[t])
  BY TypeParts, TopFacts
<1>2. QED
  BY <1>1, PutType DEF With, SameSizes

\* Writing a variable of the current context.
LEMMA VarType ==
    ASSUME TypeOK, stack # <<>>, NEW v, NEW value \in Values \cup {Unset}
    PROVE  StoreType(With("env", v, value)) /\ SameSizes(With("env", v, value))
BY WithType, KindVars DEF Tables

\* Two writes into tables of the current context.
LEMMA BothType ==
    ASSUME TypeOK, stack # <<>>, NEW st, StoreType(st), SameSizes(st),
           NEW t \in Tables, NEW x, NEW v, Fits(t, x, v)
    PROVE  /\ StoreType([st EXCEPT ![t][Top.ctx[t]][x] = v])
           /\ SameSizes([st EXCEPT ![t][Top.ctx[t]][x] = v])
<1>1. Top.ctx[t] \in 1..Len(st[t])
  BY TopFacts DEF SameSizes
<1>2. QED
  BY <1>1, PutType DEF SameSizes

\* A table of the current context.
LEMMA TableType ==
    ASSUME TypeOK, stack # <<>>, NEW t \in Tables
    PROVE  Table(t) \in Kind(t)
BY TypeParts, TopFacts DEF StoreType, Table

\* What an expression sees is a value, or nothing.
LEMMA SeenType ==
    ASSUME TypeOK, stack # <<>>, NEW v \in Vars
    PROVE  Seen(v) \in Values \cup {Unset}
<1>1. Table("env") \in Kind("env") /\ Table("data") \in Kind("data")
  BY TableType DEF Tables
<1>2. QED
  BY <1>1 DEF Seen, Kind

\* New tables for a context: typed, and one more of each kind that is copied.
LEMMA ForkedType ==
    ASSUME TypeOK, stack # <<>>, NEW ts \in SUBSET Tables
    PROVE  /\ StoreType(Forked(ts))
           /\ \A t \in Tables \ ts : /\ Len(Forked(ts)[t]) = Len(store[t])
                                     /\ ForkedCtx(ts)[t] = Top.ctx[t]
           /\ \A t \in ts : /\ Len(Forked(ts)[t]) = Len(store[t]) + 1
                            /\ ForkedCtx(ts)[t] = Len(store[t]) + 1
           /\ ForkedCtx(ts) \in [Tables -> Nat]
<1>1. Blank("locals") \in Kind("locals")
  BY DEF Blank, Kind
<1>2. ASSUME NEW t \in Tables
      PROVE  (IF t = "locals" THEN Blank(t) ELSE Table(t)) \in Kind(t)
  BY <1>1, TableType
<1>3. ASSUME NEW t \in ts
      PROVE  /\ Forked(ts)[t] \in Seq(Kind(t))
             /\ Len(Forked(ts)[t]) = Len(store[t]) + 1
  <2> DEFINE new == IF t = "locals" THEN Blank(t) ELSE Table(t)
  <2>1. t \in Tables /\ store[t] \in Seq(Kind(t)) /\ new \in Kind(t)
    BY <1>2, TypeParts DEF StoreType
  <2>2. Forked(ts)[t] = Append(store[t], new)
    BY <2>1 DEF Forked
  <2> HIDE DEF new
  <2>3. QED
    BY <2>1, <2>2, AppendProperties
<1>4. ASSUME NEW t \in Tables \ ts
      PROVE  Forked(ts)[t] = store[t] /\ store[t] \in Seq(Kind(t))
  BY TypeParts DEF Forked, StoreType
<1>5. StoreType(Forked(ts))
  BY <1>3, <1>4 DEF StoreType, Forked
<1>6. ForkedCtx(ts) \in [Tables -> Nat]
  BY StackFacts, TopFacts DEF ForkedCtx
<1>7. QED
  BY <1>3, <1>4, <1>5, <1>6 DEF ForkedCtx

\* The tables that remain when an activation ends.
LEMMA KeptType ==
    ASSUME TypeOK, Nested, Len(stack) > 1
    PROVE  /\ StoreType(Kept(store, Below))
           /\ \A t \in Tables : Len(Kept(store, Below)[t]) = Below.ctx[t]
           /\ \A t \in Tables : \A k \in 1..Below.ctx[t] :
                 Kept(store, Below)[t][k] = store[t][k]
<1>1. Len(stack) - 1 \in 1..Len(stack) /\ stack # <<>>
  BY StackFacts
<1>2. ASSUME NEW t \in Tables
      PROVE  /\ Kept(store, Below)[t] \in Seq(Kind(t))
             /\ Len(Kept(store, Below)[t]) = Below.ctx[t]
             /\ \A k \in 1..Below.ctx[t] : Kept(store, Below)[t][k] = store[t][k]
  <2> DEFINE n == Below.ctx[t]
  <2>1. n \in 1..Len(store[t]) /\ Len(store[t]) \in Nat
    BY <1>1, StackFacts DEF Below
  <2>2. Kept(store, Below)[t] = SubSeq(store[t], 1, n)
    BY DEF Kept
  <2>3. \A k \in 1..n : store[t][k] \in Kind(t)
    BY <2>1, TypeParts DEF StoreType
  <2> HIDE DEF n
  <2>4. n \in Int /\ 1 \in Int /\ 1 <= n
    BY <2>1
  <2>5. /\ SubSeq(store[t], 1, n) \in Seq(Kind(t))
        /\ Len(SubSeq(store[t], 1, n)) = IF 1 <= n THEN n - 1 + 1 ELSE 0
        /\ \A i \in 1..(n - 1 + 1) : SubSeq(store[t], 1, n)[i] = store[t][1 + i - 1]
    BY <2>3, <2>4, SubSeqProperties
  <2>6. n - 1 + 1 = n /\ \A k \in 1..n : 1 + k - 1 = k
    BY <2>4
  <2>7. QED
    BY <2>2, <2>4, <2>5, <2>6 DEF n
<1>3. StoreType(Kept(store, Below))
  BY <1>2 DEF StoreType, Kept
<1>4. QED
  BY <1>2, <1>3

\* The activations below keep their tables.
LEMMA LeftType ==
    ASSUME TypeOK, Nested, Len(stack) > 1,
           NEW st, \A t \in Tables : Len(st[t]) = Below.ctx[t]
    PROVE  StackType(Popped, st)
<1>1. Len(stack) - 1 \in 1..Len(stack) /\ stack # <<>>
  BY StackFacts
<1>2. ASSUME NEW i \in 1..(Len(stack) - 1), NEW t \in Tables
      PROVE  Popped[i].ctx[t] \in 1..Below.ctx[t]
  <2>1. i \in 1..Len(stack) /\ i <= Len(stack) - 1
    BY <1>1
  <2>2. stack[i].ctx[t] <= Below.ctx[t]
    BY <1>1, <2>1 DEF Nested, Below
  <2>3. stack[i].ctx[t] \in 1..Len(store[t]) /\ Len(store[t]) \in Nat
    BY <2>1, StackFacts
  <2>4. Below.ctx[t] \in 1..Len(store[t])
    BY <1>1, StackFacts DEF Below
  <2>5. QED
    BY <1>1, <2>2, <2>3, <2>4, PoppedFacts
<1>3. QED
  BY <1>1, <1>2, PoppedFacts DEF StackType

-----------------------------------------------------------------------------
(* The six shapes of a step *)

\* The current node is taken and no activation is entered or left.
Takes ==
    /\ stack # <<>> /\ Top.todo # <<>>
    /\ stack' = Taken
    /\ SameSizes(store')
    /\ resolving' = resolving

\* A body is walked in the current context.
Enters ==
    /\ stack # <<>> /\ Top.todo # <<>> /\ Top.node.type # "import"
    /\ \E fr \in Activation :
          /\ stack' = Append(Taken, fr)
          /\ fr.node = Node /\ fr.file = Top.file
          /\ fr.ctx = Top.ctx /\ fr.phase = Top.phase
    /\ Node.type \notin {"document", "include", "template", "import"}
    /\ SameSizes(store')
    /\ resolving' = resolving

\* The tables the file of the current node gets for itself.
Renewed == CASE Node.type = "template" -> Tables
             [] Node.type = "include"  -> IncludeTables
             [] OTHER                  -> {}

\* Another file is walked, in shared or in new tables.
OpensFile ==
    /\ stack # <<>> /\ Top.todo # <<>>
    /\ Node.type \in {"include", "template", "import"}
    /\ Node.file \notin resolving
    /\ resolving' = resolving \cup {Node.file}
    /\ \E ts \in SUBSET Tables :
          /\ ts = Renewed
          /\ stack' = Append(Taken, Frame(Node, source[Node.file].nodes, Node.file,
                                          ForkedCtx(ts), NoPhase))
          /\ \A t \in Tables : Len(store'[t]) = IF t \in ts THEN Len(store[t]) + 1
                                                           ELSE Len(store[t])

\* The innermost activation starts over, or an exception is caught.
Stays ==
    /\ StackType(stack', store')
    /\ Len(stack') = Len(stack)
    /\ \A i \in 1..Len(stack) : SameFrame(stack'[i], stack[i])
    /\ SameSizes(store')
    /\ resolving' = resolving

\* The innermost activation is left, and with it the tables only it refers to.
Leaves ==
    /\ stack # <<>>
    /\ stack' = Popped
    /\ \/ SameSizes(store')
       \/ Len(stack) > 1 /\ \A t \in Tables : Len(store'[t]) = Below.ctx[t]
    /\ \/ resolving' = resolving
       \/ Opens(Top) /\ resolving' = resolving \ {Top.node.file}

Ends == stack' = <<>> /\ SameSizes(store')

Shapes == Takes \/ Enters \/ OpensFile \/ Stays \/ Leaves \/ Ends

Shaped == Shapes /\ StoreType(store') /\ RestType'

-----------------------------------------------------------------------------
(* Variables, definitions and connections *)

\* @set takes its node and writes one variable.
LEMMA SetShaped == ASSUME TypeOK, ExecuteSet PROVE Takes /\ StoreType(store') /\ RestType'
<1> DEFINE v == Node.var
           typed == IF Node.rhs = "expr" THEN Seen(Node.of) ELSE Node.value
<1>1. stack # <<>> /\ Top.todo # <<>> /\ stack' = Taken /\ resolving' = resolving
  BY DEF ExecuteSet, At, Ready
<1>2. Node \in Nodes /\ Node.type = "set"
  BY <1>1, TakenFacts DEF ExecuteSet, At
<1>3. typed \in Values \cup {Unset} /\ (Node.rhs # "expr" => Node.value \in Values)
  BY <1>1, <1>2, SeenType, NodeAssumption
<1>4. StoreType(store') /\ SameSizes(store')
  <2>1. CASE Node.rhs = "text"
    <3>1. store' = With("env", v, AsText(Node.value))
      BY <2>1 DEF ExecuteSet
    <3>2. AsText(Node.value) \in Values
      BY <1>3, <2>1, ValueAssumption
    <3>3. QED
      BY <1>1, <3>1, <3>2, VarType
  <2>2. CASE Node.rhs # "text" /\ typed \in {Unset, Null}
    <3>1. store' = With("env", v, Empty)
      BY <2>2 DEF ExecuteSet
    <3>2. Empty \in Values
      BY WalkAssumption
    <3>3. QED
      BY <1>1, <3>1, <3>2, VarType
  <2>3. CASE Node.rhs # "text" /\ typed \notin {Unset, Null}
    <3>1. Bind(v, AsText(typed), typed)
      BY <2>3 DEF ExecuteSet
    <3>2. AsText(typed) \in Values
      BY <1>3, ValueAssumption
    <3> HIDE DEF typed, v
    <3>3. StoreType(With("env", v, AsText(typed))) /\ SameSizes(With("env", v, AsText(typed)))
      BY <1>1, <3>2, VarType
    <3>4. Fits("data", v, typed) /\ "data" \in Tables
      BY <1>3, KindVars DEF Tables
    <3>5. QED
      BY <1>1, <3>1, <3>3, <3>4, BothType DEF Bind
  <2>4. QED
    BY <2>1, <2>2, <2>3
<1>5. RestType'
  BY TypeParts DEF RestType, ExecuteSet
<1>6. QED
  BY <1>1, <1>4, <1>5 DEF Takes

\* A label takes its node and writes one variable, or its row as well.
LEMMA LabelledShaped ==
    ASSUME TypeOK, ExecuteLabelled PROVE Takes /\ StoreType(store') /\ RestType'
<1> DEFINE text == AsText(Node.text)
           v == Node.label
<1>1. stack # <<>> /\ Top.todo # <<>> /\ stack' = Taken /\ resolving' = resolving
  BY DEF ExecuteLabelled, At, Ready
<1>2. Node \in Nodes /\ Node.type = "source"
  BY <1>1, TakenFacts DEF ExecuteLabelled, At
<1>3. text \in Values /\ Node.row \in Values \cup {Unset}
  BY <1>2, NodeAssumption, ValueAssumption
<1>4. \/ store' = With("env", v, text)
      \/ store' = [With("env", v, text) EXCEPT !["data"][Top.ctx["data"]][v] = Node.row]
  BY DEF ExecuteLabelled
<1> HIDE DEF text, v
<1>5. StoreType(With("env", v, text)) /\ SameSizes(With("env", v, text))
  BY <1>1, <1>3, VarType
<1>6. Fits("data", v, Node.row) /\ "data" \in Tables
  BY <1>3, KindVars DEF Tables
<1>7. StoreType(store') /\ SameSizes(store')
  <2>1. CASE store' = With("env", v, text)
    BY <1>5, <2>1
  <2>2. CASE store' = [With("env", v, text) EXCEPT !["data"][Top.ctx["data"]][v] = Node.row]
    BY <1>1, <1>5, <1>6, <2>2, BothType
  <2>3. QED
    BY <1>4, <2>1, <2>2
<1>8. RestType'
  <2>1. /\ source' = source /\ callstack' = callstack /\ resolving' = resolving
        /\ completed' = completed /\ fallbacks' = fallbacks
        /\ chosen' = chosen /\ thrown' = thrown
    BY Zenon DEF ExecuteLabelled
  <2>2. RestType
    BY TypeParts
  <2>3. QED
    BY <2>1, <2>2 DEF RestType
<1>9. QED
  BY <1>1, <1>7, <1>8 DEF Takes

\* Both definitions of a macro, of a walked file and of an imported one.
LEMMA DefineShaped ==
    ASSUME TypeOK, WalkDefine \/ ImportDefine
    PROVE  Takes /\ StoreType(store') /\ RestType'
<1>1. /\ stack # <<>> /\ Top.todo # <<>> /\ stack' = Taken /\ resolving' = resolving
      /\ Node.type = "define"
      /\ store' = With("macros", Node.name, Node.body)
  BY DEF WalkDefine, ImportDefine, InImport, At, Ready
<1>2. Node \in Nodes
  BY <1>1, TakenFacts
<1>3. Node.body \in Seq(Nodes)
  BY <1>1, <1>2, NodeAssumption
<1>4. Fits("macros", Node.name, Node.body) /\ "macros" \in Tables
  BY <1>3, KindMacros DEF Tables
<1>5. RestType'
  BY TypeParts DEF RestType, WalkDefine, ImportDefine
<1>6. QED
  BY <1>1, <1>4, <1>5, WithType DEF Takes

\* Both registrations of a connection, in a walked file and in an imported one.
LEMMA ConnectShaped ==
    ASSUME TypeOK, WalkConnect \/ ImportConnect
    PROVE  Takes /\ StoreType(store') /\ RestType'
<1> DEFINE reg(l) == With("conns", Node.name, [by |-> Top.file, local |-> l])
<1>1. /\ stack # <<>> /\ Top.todo # <<>> /\ stack' = Taken /\ resolving' = resolving
      /\ Node.type = "connect"
  BY DEF WalkConnect, ImportConnect, InImport, At, Ready
<1>2. Node \in Nodes /\ Top.file \in Files
  BY <1>1, TakenFacts, TopFacts DEF Activation
<1>3. Node.local \in BOOLEAN
  BY <1>1, <1>2, NodeAssumption
<1>4. \E l \in BOOLEAN :
         \/ store' = reg(l)
         \/ store' = [reg(l) EXCEPT !["locals"][Top.ctx["locals"]][Node.name] = TRUE]
  BY <1>3 DEF WalkConnect, ImportConnect
<1>5. PICK l \in BOOLEAN :
         \/ store' = reg(l)
         \/ store' = [reg(l) EXCEPT !["locals"][Top.ctx["locals"]][Node.name] = TRUE]
  BY <1>4
<1>6. StoreType(reg(l)) /\ SameSizes(reg(l))
  BY <1>1, <1>2, KindConns, WithType DEF Tables
<1> HIDE DEF reg
<1>7. Fits("locals", Node.name, TRUE) /\ "locals" \in Tables
  BY KindLocals DEF Tables
<1>8. StoreType(store') /\ SameSizes(store')
  <2>1. CASE store' = reg(l)
    BY <1>6, <2>1
  <2>2. CASE store' = [reg(l) EXCEPT !["locals"][Top.ctx["locals"]][Node.name] = TRUE]
    BY <1>1, <1>6, <1>7, <2>2, BothType
  <2>3. QED
    BY <1>5, <2>1, <2>2
<1>9. RestType'
  BY TypeParts DEF RestType, WalkConnect, ImportConnect
<1>10. QED
  BY <1>1, <1>8, <1>9 DEF Takes

\* Nodes that change no table.
LEMMA SkipShaped ==
    ASSUME TypeOK, WalkTransition \/ WalkEnv \/ WalkUnhandled \/ ImportEnv \/ ImportNothing
    PROVE  Takes /\ StoreType(store') /\ RestType'
<1>1. /\ stack # <<>> /\ Top.todo # <<>> /\ stack' = Taken
      /\ UNCHANGED <<source, store, callstack, resolving, completed>>
      /\ thrown' \in {thrown, AnError}
      /\ ~ WalkTransition => chosen' = chosen
      /\ ~ ImportEnv => fallbacks' = fallbacks
  BY DEF WalkTransition, WalkEnv, WalkUnhandled, ImportEnv, ImportNothing, InImport,
         At, Ready, Skip, Throw
<1>2. Node \in Nodes
  BY <1>1, TakenFacts
<1>3. chosen' \in Phases \cup {NoPhase}
  <2>1. CASE WalkTransition
    <3> DEFINE named == { i \in 1..Len(<<Node.target>>) : <<Node.target>>[i] # NoTarget }
    <3>1. named \subseteq 1..1 /\ <<Node.target>>[1] = Node.target
      OBVIOUS
    <3>2. named # {} => First(named) \in named
      BY <3>1, FirstIn
    <3>3. named # {} => <<Node.target>>[First(named)] = Node.target /\ Node.target # NoTarget
      BY <3>1, <3>2
    <3>4. Node.target \in Phases \cup {NoTarget}
      BY <1>2, <2>1, NodeAssumption DEF WalkTransition, At
    <3>5. chosen \in Phases \cup {NoPhase}
      BY TypeParts DEF RestType
    <3>6. chosen' = Chosen(<<Node.target>>)
      BY <2>1 DEF WalkTransition
    <3>7. QED
      BY <3>3, <3>4, <3>5, <3>6 DEF Chosen
  <2>2. CASE ~ WalkTransition
    BY <1>1, <2>2, TypeParts DEF RestType
  <2>3. QED
    BY <2>1, <2>2
<1>4. fallbacks' \in [EnvNames -> Values \cup {Unset}]
  <2>1. fallbacks \in [EnvNames -> Values \cup {Unset}]
    BY TypeParts DEF RestType
  <2>2. CASE ImportEnv
    BY <1>2, <2>1, <2>2, NodeAssumption DEF ImportEnv, InImport
  <2>3. CASE ~ ImportEnv
    BY <1>1, <2>1, <2>3
  <2>4. QED
    BY <2>2, <2>3
<1>5. RestType'
  BY <1>1, <1>3, <1>4, TypeParts DEF RestType
<1>6. QED
  BY <1>1, <1>5, TypeParts DEF Takes, SameSizes

-----------------------------------------------------------------------------
(* Bodies: branches, loops, phases and macros *)

\* What a body that is walked in place shares with the current activation.
LEMMA InnerFields ==
    ASSUME NEW body
    PROVE  /\ Inner(body).node = Node /\ Inner(body).file = Top.file
           /\ Inner(body).ctx = Top.ctx /\ Inner(body).phase = Top.phase
BY DEF Inner, Frame

\* An overflow or the body: two shapes of steps.
LEMMA WalkShaped ==
    ASSUME TypeOK, stack # <<>>, Top.todo # <<>>, Top.node.type # "import",
           Node.type \notin {"document", "include", "template", "import"},
           NEW body \in Seq(Nodes), Walk(Inner(body)),
           SameSizes(store'), resolving' = resolving
    PROVE  Takes \/ Enters
<1>1. CASE stack' = Taken
  BY <1>1 DEF Takes
<1>2. CASE stack' = Append(Taken, Inner(body))
  BY <1>2, InnerType, InnerFields DEF Enters
<1>3. QED
  BY <1>1, <1>2 DEF Walk

\* The thrown exception after a step that may overflow.
LEMMA ThrownType ==
    ASSUME TypeOK, thrown' \in {thrown, AnError}
    PROVE  thrown' \in {Nothing, AnError} \cup
                       { Fatal(why, f) : why \in {"blocked", "cycle"}, f \in Files }
BY TypeParts DEF RestType

\* A condition or a switch walks one body, or none.
LEMMA BranchShaped ==
    ASSUME TypeOK, HandleConditional \/ HandleSwitch
    PROVE  (Takes \/ Enters) /\ StoreType(store') /\ RestType'
<1>1. /\ stack # <<>> /\ Top.todo # <<>> /\ Top.node.type # "import"
      /\ Node.type \in {"conditional", "switch"}
      /\ UNCHANGED <<source, store, callstack, resolving, completed, fallbacks, chosen>>
  BY DEF HandleConditional, HandleSwitch, At, Ready
<1>2. Node \in Nodes
  BY <1>1, TakenFacts
<1>3. StoreType(store') /\ SameSizes(store')
  BY <1>1, TypeParts DEF SameSizes
<1>4. \/ stack' = Taken /\ thrown' = thrown
      \/ \E body \in Seq(Nodes) : Walk(Inner(body))
  <2>1. CASE HandleConditional
    <3> DEFINE holds == { i \in 1..Len(Node.branches) :
                            \/ Node.branches[i].on = Otherwise
                            \/ Truthy(Seen(Node.branches[i].on)) }
    <3>1. CASE holds = {}
      BY <2>1, <3>1 DEF HandleConditional
    <3>2. CASE holds # {} /\ Len(Node.branches) \in Nat
      <4>1. First(holds) \in 1..Len(Node.branches)
        BY <3>2, FirstIn
      <4>2. Node.branches[First(holds)].body \in Seq(Nodes)
        BY <1>2, <2>1, <4>1, NodeAssumption DEF HandleConditional, At
      <4>3. QED
        BY <2>1, <3>2, <4>2 DEF HandleConditional
    <3>3. Len(Node.branches) \in Nat
      <4>1. Node.type = "conditional"
        BY <2>1, Zenon DEF HandleConditional, At
      <4>2. QED
        BY <1>2, <4>1, NodeAssumption
    <3>4. QED
      BY <3>1, <3>2, <3>3
  <2>2. CASE HandleSwitch
    <3> DEFINE same == { i \in 1..Len(Node.cases) :
                           Node.cases[i].is = AsText(Seen(Node.on)) }
               body == IF same = {} THEN Node.default ELSE Node.cases[First(same)].body
    <3>1. Len(Node.cases) \in Nat
      <4>1. Node.type = "switch"
        BY <2>2, Zenon DEF HandleSwitch, At
      <4>2. QED
        BY <1>2, <4>1, NodeAssumption
    <3>2. same # {} => First(same) \in 1..Len(Node.cases)
      BY <3>1, FirstIn
    <3>3. body = NoBody \/ body \in Seq(Nodes)
      BY <1>2, <2>2, <3>2, NodeAssumption DEF HandleSwitch, At
    <3>4. CASE body = NoBody
      BY <2>2, <3>4 DEF HandleSwitch
    <3>5. CASE body # NoBody
      BY <2>2, <3>3, <3>5 DEF HandleSwitch
    <3>6. QED
      BY <3>4, <3>5
  <2>3. QED
    BY <2>1, <2>2
<1>5. Takes \/ Enters
  <2>1. CASE stack' = Taken
    BY <1>1, <1>3, <2>1 DEF Takes
  <2>2. ASSUME NEW body \in Seq(Nodes), Walk(Inner(body))
        PROVE  Takes \/ Enters
    BY <1>1, <1>3, <2>2, WalkShaped
  <2>3. QED
    BY <1>4, <2>1, <2>2
<1>6. thrown' \in {thrown, AnError}
  BY <1>4 DEF Walk
<1>7. RestType'
  BY <1>1, <1>6, ThrownType, TypeParts DEF RestType
<1>8. QED
  BY <1>3, <1>5, <1>7

\* Phases and macro calls enter their body with an entry of the callstack.
LEMMA LabelShaped ==
    ASSUME TypeOK, HandlePhase \/ HandleCall
    PROVE  /\ \/ Takes /\ callstack' = callstack
              \/ Enters /\ callstack' = Append(callstack, Node)
           /\ StoreType(store') /\ RestType'
<1>1. /\ stack # <<>> /\ Top.todo # <<>> /\ Top.node.type # "import"
      /\ Node.type \in {"phase", "call"}
      /\ UNCHANGED <<source, store, resolving, completed, fallbacks, chosen>>
  BY DEF HandlePhase, HandleCall, At, Ready
<1>2. Node \in Nodes
  BY <1>1, TakenFacts
<1>3. StoreType(store') /\ SameSizes(store')
  BY <1>1, TypeParts DEF SameSizes
<1>4. \/ stack' = Taken /\ callstack' = callstack /\ thrown' \in {thrown, AnError}
      \/ \E body \in Seq(Nodes) :
            /\ stack' = Append(Taken, Inner(body))
            /\ callstack' = Append(callstack, Node)
            /\ thrown' = thrown
  <2>1. CASE HandlePhase
    <3>1. Node.body \in Seq(Nodes)
      BY <1>2, <2>1, NodeAssumption DEF HandlePhase, At
    <3>2. QED
      BY <2>1, <3>1 DEF HandlePhase
  <2>2. CASE HandleCall
    <3>1. Node.name \in Macros
      BY <1>2, <2>2, NodeAssumption DEF HandleCall, At
    <3>2. Table("macros") \in [Macros -> {NoBody} \cup Seq(Nodes)]
      BY <1>1, TableType DEF Kind, Tables
    <3>3. Table("macros")[Node.name] \in {NoBody} \cup Seq(Nodes)
      BY <3>1, <3>2
    <3>4. Node.args \in Bindings
      BY <1>2, <2>2, NodeAssumption DEF HandleCall, At
    <3>5. Table("macros")[Node.name] # NoBody
          => Substituted(Table("macros")[Node.name], Node.args) \in Seq(Nodes)
      BY <3>3, <3>4, SubstitutedType
    <3>6. QED
      BY <2>2, <3>5 DEF HandleCall
  <2>3. QED
    BY <2>1, <2>2
<1>5. \/ Takes /\ callstack' = callstack
      \/ Enters /\ callstack' = Append(callstack, Node)
  <2>1. CASE stack' = Taken /\ callstack' = callstack
    BY <1>1, <1>3, <2>1 DEF Takes
  <2>2. ASSUME NEW body \in Seq(Nodes), stack' = Append(Taken, Inner(body))
        PROVE  Enters
    BY <1>1, <1>3, <2>2, InnerType, InnerFields DEF Enters
  <2>3. QED
    BY <1>4, <2>1, <2>2
<1>6. callstack' \in Seq(Nodes)
  <2>1. callstack \in Seq(Nodes)
    BY TypeParts DEF RestType
  <2>2. Append(callstack, Node) \in Seq(Nodes)
    BY <1>2, <2>1, AppendProperties
  <2>3. QED
    BY <1>4, <2>1, <2>2
<1>7. thrown' \in {thrown, AnError}
  BY <1>4
<1>8. RestType'
  BY <1>1, <1>6, <1>7, ThrownType, TypeParts DEF RestType
<1>9. QED
  BY <1>3, <1>5, <1>8

-----------------------------------------------------------------------------
(* Loops *)

\* The activation of a loop is one.
LEMMA LoopType ==
    ASSUME NEW fr \in Activation, NEW saved \in Values \cup {Unset, Pending}
    PROVE  LET loop == [fr EXCEPT !.saved = saved] IN
           /\ loop \in Activation
           /\ loop.node = fr.node /\ loop.file = fr.file
           /\ loop.ctx = fr.ctx /\ loop.phase = fr.phase
BY DEF Activation

\* The source of a @set or of a loop is entered, unless it does not parse.
LEMMA SourceShaped ==
    ASSUME TypeOK, SetFromDirective \/ ExecuteForeach
    PROVE  (Takes \/ Enters) /\ StoreType(store') /\ RestType'
<1>1. /\ stack # <<>> /\ Top.todo # <<>> /\ Node.type \in {"set", "foreach"}
      /\ Top.node.type # "import"
      /\ UNCHANGED <<source, store, callstack, resolving, completed, fallbacks, chosen>>
  BY DEF SetFromDirective, ExecuteForeach, Evaluate, At, Ready
<1>2. Node \in Nodes
  BY <1>1, TakenFacts
<1>3. Node.source \in {NoBody} \cup Seq(Nodes)
  BY <1>2, NodeAssumption DEF SetFromDirective, ExecuteForeach, At
<1>4. StoreType(store') /\ SameSizes(store')
  BY <1>1, TypeParts DEF SameSizes
<1> DEFINE body == Inner(Node.source)
           loop == [body EXCEPT !.saved = Pending]
<1>5. Evaluate(body) \/ Evaluate(loop)
  BY DEF SetFromDirective, ExecuteForeach
<1>6. CASE Node.source = NoBody
  <2>1. stack' = Taken /\ thrown' \in {thrown, AnError}
    BY <1>5, <1>6 DEF Evaluate
  <2>2. RestType'
    BY <1>1, <2>1, ThrownType, TypeParts DEF RestType
  <2>3. QED
    BY <1>1, <1>4, <2>1, <2>2 DEF Takes
<1>7. CASE Node.source # NoBody
  <2>1. /\ body \in Activation
        /\ body.node = Node /\ body.file = Top.file
        /\ body.ctx = Top.ctx /\ body.phase = Top.phase
    BY <1>1, <1>3, <1>7, InnerType, InnerFields
  <2>2. Walk(body) \/ Walk(loop)
    BY <1>5, <1>7 DEF Evaluate
  <2> HIDE DEF body
  <2>3. /\ loop \in Activation
        /\ loop.node = Node /\ loop.file = Top.file
        /\ loop.ctx = Top.ctx /\ loop.phase = Top.phase
    BY <2>1, LoopType
  <2> HIDE DEF loop
  <2>4. thrown' \in {thrown, AnError}
    BY <2>2 DEF Walk
  <2>5. RestType'
    BY <1>1, <2>4, ThrownType, TypeParts DEF RestType
  <2>6. CASE stack' = Taken
    BY <1>1, <1>4, <2>5, <2>6 DEF Takes
  <2>7. ASSUME NEW fr \in {body, loop}, stack' = Append(Taken, fr)
        PROVE  Enters
    BY <1>1, <1>4, <2>1, <2>3, <2>7 DEF Enters
  <2>8. QED
    BY <1>4, <2>2, <2>5, <2>6, <2>7 DEF Walk
<1>8. QED
  BY <1>6, <1>7

\* Rewriting the innermost activation where it stands.
LEMMA Restarts ==
    ASSUME TypeOK, stack # <<>>, NEW fr \in Activation, SameFrame(fr, Top),
           stack' = [stack EXCEPT ![Len(stack)] = fr],
           SameSizes(store'), resolving' = resolving
    PROVE  Stays
<1>1. stack \in Seq(Activation) /\ Len(stack) \in 1..Len(stack)
  BY StackFacts
<1>2. /\ stack' \in Seq(Activation)
      /\ Len(stack') = Len(stack)
      /\ \A i \in 1..Len(stack) : stack'[i] = IF i = Len(stack) THEN fr ELSE stack[i]
  BY <1>1, ExceptSeq
<1>3. \A i \in 1..Len(stack) : SameFrame(stack'[i], stack[i])
  BY <1>2, TopFacts DEF SameFrame
<1>4. StackType(stack', store')
  BY <1>2, <1>3, StackFacts DEF StackType, SameFrame, SameSizes
<1>5. QED
  BY <1>2, <1>3, <1>4 DEF Stays

\* What an activation of a loop holds, and what it walks for an item.
LEMMA ItemFacts ==
    ASSUME TypeOK, stack # <<>>, Top.node.type = "foreach"
    PROVE  /\ Top.node \in Nodes /\ Top.node.var \in Vars
           /\ Top.items \in Seq(Values) /\ Splits(Top.node) \subseteq Seq(Values)
           /\ \A items \in Seq(Values) : items # <<>> =>
                 /\ Head(items) \in Values /\ Tail(items) \in Seq(Values)
                 /\ Unrolled(Top.node, Head(items)) \in Seq(Nodes)
<1>1. Top \in Activation
  BY TopFacts
<1>2. Top.node \in Nodes /\ Top.items \in Seq(Values)
  BY <1>1 DEF Activation, Document
<1>3. /\ Top.node.body \in Seq(Nodes) /\ Top.node.var \in Vars
      /\ Top.node.items \in Seq(Values)
  BY <1>2, NodeAssumption
<1>4. Splits(Top.node) \subseteq Seq(Values)
  <2>1. <<>> \in Seq(Values)
    OBVIOUS
  <2>2. QED
    BY <1>3, <2>1, Zenon DEF Splits
<1>5. ASSUME NEW items \in Seq(Values), items # <<>>
      PROVE  /\ Head(items) \in Values /\ Tail(items) \in Seq(Values)
             /\ Unrolled(Top.node, Head(items)) \in Seq(Nodes)
  <2>1. Head(items) \in Values /\ Tail(items) \in Seq(Values)
    BY <1>5, HeadTailProperties
  <2>2. QED
    BY <1>3, <2>1, UnrolledType
<1>6. QED
  BY <1>2, <1>3, <1>4, <1>5

\* A loop starts its body for the first item, or passes over it.
LEMMA BeginLoopShaped ==
    ASSUME TypeOK, BeginLoop
    PROVE  (Stays \/ Leaves) /\ StoreType(store') /\ RestType'
<1>1. /\ stack # <<>> /\ Top.node.type = "foreach"
      /\ UNCHANGED <<source, callstack, resolving, completed, fallbacks, chosen, thrown>>
  BY DEF BeginLoop, Done, Ready
<1>2. PICK items \in Splits(Top.node) :
         IF items = <<>> THEN stack' = Popped /\ UNCHANGED store
         ELSE /\ store' = With("env", Top.node.var, Head(items))
              /\ stack' = [stack EXCEPT
                    ![Len(stack)].todo = Unrolled(Top.node, Head(items)),
                    ![Len(stack)].items = Tail(items),
                    ![Len(stack)].saved = Table("env")[Top.node.var]]
  BY DEF BeginLoop
<1>3. RestType'
  BY <1>1, TypeParts DEF RestType
<1>4. CASE items = <<>>
  BY <1>1, <1>2, <1>3, <1>4, TypeParts DEF Leaves, SameSizes
<1>5. CASE items # <<>>
  <2> DEFINE first == Head(items)
             rest == Tail(items)
             body == Unrolled(Top.node, first)
             shadowed == Table("env")[Top.node.var]
             fr == [Top EXCEPT !.todo = body, !.items = rest, !.saved = shadowed]
  <2>1. first \in Values /\ rest \in Seq(Values) /\ body \in Seq(Nodes)
    BY <1>1, <1>5, ItemFacts
  <2>2. store' = With("env", Top.node.var, first)
    BY <1>2, <1>5
  <2>3. stack' = [stack EXCEPT ![Len(stack)] = fr]
    BY <1>2, <1>5 DEF Top
  <2>4. shadowed \in Values \cup {Unset}
    BY <1>1, ItemFacts, TableType DEF Kind, Tables
  <2> HIDE DEF first, rest, body, shadowed
  <2>5. fr \in Activation /\ SameFrame(fr, Top)
    BY <1>1, <2>1, <2>4, TopFacts DEF Activation, SameFrame
  <2> HIDE DEF fr
  <2>6. StoreType(store') /\ SameSizes(store')
    BY <1>1, <2>1, <2>2, VarType
  <2>7. QED
    BY <1>1, <1>3, <2>3, <2>5, <2>6, Restarts
<1>6. QED
  BY <1>4, <1>5

\* A loop starts its body again for the next item.
LEMMA NextItemShaped ==
    ASSUME TypeOK, NextItem
    PROVE  Stays /\ StoreType(store') /\ RestType'
<1>1. /\ stack # <<>> /\ Top.node.type = "foreach" /\ Top.items # <<>>
      /\ store' = With("env", Top.node.var, Head(Top.items))
      /\ UNCHANGED <<source, callstack, resolving, completed, fallbacks, chosen, thrown>>
  BY DEF NextItem, BodyDone, Done, Ready
<1> DEFINE body == Unrolled(Top.node, Head(Top.items))
<1>2. /\ body \in Seq(Nodes)
      /\ Head(Top.items) \in Values /\ Tail(Top.items) \in Seq(Values)
  BY <1>1, ItemFacts
<1>3. StoreType(store') /\ SameSizes(store')
  BY <1>1, <1>2, VarType
<1> DEFINE fr == [Top EXCEPT !.todo = body, !.items = Tail(@)]
<1>4. fr \in Activation /\ SameFrame(fr, Top)
  BY <1>1, <1>2, TopFacts DEF Activation, SameFrame
<1>5. stack' = [stack EXCEPT ![Len(stack)] = fr]
  BY DEF NextItem, Top
<1> HIDE DEF fr
<1>6. RestType'
  BY <1>1, TypeParts DEF RestType
<1>7. QED
  BY <1>1, <1>3, <1>4, <1>5, <1>6, Restarts

-----------------------------------------------------------------------------
(* Ends *)

\* The end of a branch, a @set, a loop, a phase or a call.
LEMMA EndShaped ==
    ASSUME TypeOK, EndBlock \/ EndSet \/ EndForeach \/ EndPhase \/ EndCall
    PROVE  Leaves /\ StoreType(store') /\ RestType'
<1>1. /\ stack # <<>> /\ stack' = Popped /\ Top \in Activation
      /\ UNCHANGED <<source, resolving, completed, fallbacks, thrown>>
      /\ callstack' \in {callstack, SubSeq(callstack, 1, Len(callstack) - 1)}
      /\ ~ EndPhase => chosen' = chosen
      /\ ~ (EndForeach \/ EndSet) => store' = store
  BY TopFacts DEF EndBlock, EndSet, EndForeach, EndPhase, EndCall, BodyDone, Done, Ready
<1>2. StoreType(store') /\ SameSizes(store')
  <2>1. CASE EndForeach
    <3>1. store' = With("env", Top.node.var, Top.saved) /\ Top.saved \in Values \cup {Unset}
      BY <1>1, <2>1 DEF EndForeach, BodyDone, Activation
    <3>2. QED
      BY <1>1, <3>1, VarType
  <2>2. CASE EndSet
    <3>1. Top.node.type = "set" /\ Top.node.rhs = "directive"
      BY <2>2 DEF EndSet, Done
    <3>2. Top.node \in Nodes
      BY <1>1, <3>1 DEF Activation, Document
    <3>3. AsText(Top.node.value) \in Values /\ Empty \in Values
      BY <3>1, <3>2, NodeAssumption, ValueAssumption, WalkAssumption
    <3>4. PICK printed \in {Empty, AsText(Top.node.value)} :
             store' = With("env", Top.node.var, printed)
      BY <2>2 DEF EndSet
    <3>5. QED
      BY <1>1, <3>3, <3>4, VarType
  <2>3. CASE ~ (EndForeach \/ EndSet)
    BY <1>1, <2>3, TypeParts DEF SameSizes
  <2>4. QED
    BY <2>1, <2>2, <2>3
<1>3. chosen' \in Phases \cup {NoPhase}
  <2>1. chosen \in Phases \cup {NoPhase}
    BY TypeParts DEF RestType
  <2>2. CASE EndPhase
    <3> DEFINE targets == Top.node.transitions
               named == { i \in 1..Len(targets) : targets[i] # NoTarget }
    <3>1. Top.node \in Nodes /\ Top.node.type = "phase"
      BY <1>1, <2>2 DEF EndPhase, Done, Activation, Document
    <3>2. targets \in Seq(Phases \cup {NoTarget})
      BY <3>1, NodeAssumption
    <3>3. chosen' = Chosen(targets)
      BY <2>2 DEF EndPhase
    <3> HIDE DEF targets
    <3>4. CASE named # {}
      <4>1. named \in SUBSET (1..Len(targets)) /\ Len(targets) \in Nat
        BY <3>2
      <4> HIDE DEF named
      <4>2. First(named) \in named
        BY <3>4, <4>1, FirstIn
      <4>3. targets[First(named)] \in Phases
        BY <3>2, <4>1, <4>2 DEF named
      <4>4. QED
        BY <2>1, <3>3, <4>3 DEF Chosen, named
    <3>5. QED
      BY <2>1, <3>3, <3>4 DEF Chosen
  <2>3. QED
    BY <1>1, <2>1, <2>2
<1>4. callstack' \in Seq(Nodes)
  <2>1. callstack \in Seq(Nodes)
    BY TypeParts DEF RestType
  <2>2. QED
    BY <1>1, <2>1, FrontFacts
<1>5. RestType'
  BY <1>1, <1>3, <1>4, TypeParts DEF RestType
<1>6. QED
  BY <1>1, <1>2, <1>5 DEF Leaves

\* Only the document is alone on the stack.
LEMMA NotAlone ==
    ASSUME TypeOK, Rooted, stack # <<>>, Top.node.type # "document"
    PROVE  Len(stack) > 1
BY TopFacts DEF Rooted

\* What an include hands back is a table of connections.
LEMMA BubbledType ==
    ASSUME TypeOK, Len(stack) > 1
    PROVE  Bubbled \in Kind("conns")
<1>1. Len(stack) - 1 \in 1..Len(stack) /\ stack # <<>> /\ "conns" \in Tables
  BY StackFacts DEF Tables
<1>2. Below.ctx["conns"] \in 1..Len(store["conns"])
  BY <1>1, StackFacts DEF Below
<1>3. store["conns"][Below.ctx["conns"]] \in Kind("conns")
  BY <1>1, <1>2, TypeParts DEF StoreType
<1>4. Table("conns") \in Kind("conns")
  BY <1>1, TableType
<1>5. QED
  BY <1>3, <1>4 DEF Bubbled, Kind

\* The end of a file.
LEMMA EndFileShaped ==
    ASSUME TypeOK, Rooted, Nested, EndInclude \/ EndTemplate \/ EndImport
    PROVE  Leaves /\ StoreType(store') /\ RestType'
<1>1. /\ stack # <<>> /\ stack' = Popped
      /\ Top.node.type \in {"include", "template", "import"}
      /\ resolving' = resolving \ {Top.node.file}
      /\ completed' = completed \cup {Top.node.file}
      /\ UNCHANGED <<source, callstack, fallbacks, chosen, thrown>>
  BY DEF EndInclude, EndTemplate, EndImport, Done, Ready
<1>2. Len(stack) > 1 /\ Top \in Activation
  BY <1>1, NotAlone, TopFacts
<1>3. Top.node \in Nodes
  BY <1>1, <1>2 DEF Activation, Document
<1>4. Top.node.file \in Files
  BY <1>1, <1>3, NodeAssumption
<1>5. /\ StoreType(store')
      /\ SameSizes(store') \/ \A t \in Tables : Len(store'[t]) = Below.ctx[t]
  <2> DEFINE kept == Kept(store, Below)
  <2>1. StoreType(kept) /\ \A t \in Tables : Len(kept[t]) = Below.ctx[t]
    BY <1>2, KeptType
  <2> HIDE DEF kept
  <2>2. CASE EndInclude
    <3>1. store' = [kept EXCEPT !["conns"][Below.ctx["conns"]] = Bubbled]
      BY <2>2 DEF EndInclude, kept
    <3>2. Bubbled \in Kind("conns") /\ "conns" \in Tables
      BY <1>2, BubbledType DEF Tables
    <3> DEFINE new == [kept["conns"] EXCEPT ![Below.ctx["conns"]] = Bubbled]
    <3>3. kept["conns"] \in Seq(Kind("conns")) /\ Len(kept["conns"]) = Below.ctx["conns"]
      BY <2>1, <3>2 DEF StoreType
    <3>4. Below.ctx["conns"] \in 1..Len(kept["conns"])
      <4>1. Len(stack) - 1 \in 1..Len(stack)
        BY <1>2, StackFacts
      <4>2. QED
        BY <3>2, <3>3, <4>1, StackFacts DEF Below
    <3>5. new \in Seq(Kind("conns")) /\ Len(new) = Len(kept["conns"])
      BY <3>2, <3>3, <3>4, ExceptSeq
    <3>6. store' = [kept EXCEPT !["conns"] = new]
      BY <3>1
    <3> HIDE DEF new
    <3>7. QED
      BY <2>1, <3>3, <3>5, <3>6 DEF StoreType
  <2>3. CASE EndTemplate
    BY <2>1, <2>3 DEF EndTemplate, kept
  <2>4. CASE EndImport
    BY <2>4, TypeParts DEF EndImport, SameSizes
  <2>5. QED
    BY <1>1, <2>2, <2>3, <2>4
<1>6. RestType'
  BY <1>1, <1>4, TypeParts DEF RestType
<1>7. Opens(Top)
  BY <1>1 DEF Opens
<1>8. QED
  BY <1>1, <1>2, <1>5, <1>6, <1>7 DEF Leaves

-----------------------------------------------------------------------------
(* Other files *)

\* Binding the data of a template in its own tables.
LEMMA BoundType ==
    ASSUME TypeOK, stack # <<>>, Node.of \in Vars
    PROVE  /\ StoreType(Bound(Forked(Tables)))
           /\ \A t \in Tables : Len(Bound(Forked(Tables))[t]) = Len(store[t]) + 1
<1> DEFINE st == Forked(Tables)
           v == Seen(Node.of)
           text == DataText(v)
           one == [st EXCEPT !["env"][Len(st["env"])][Node.as] = text]
           both == [one EXCEPT !["data"][Len(st["data"])][Node.as] = v]
<1>1. StoreType(st) /\ \A t \in Tables : Len(st[t]) = Len(store[t]) + 1
  BY ForkedType
<1>2. v \in Values \cup {Unset} /\ text \in Values \cup {Unset}
  BY SeenType, ValueAssumption, WalkAssumption DEF DataText
<1>3. /\ "env" \in Tables /\ "data" \in Tables
      /\ Fits("env", Node.as, text) /\ Fits("data", Node.as, v)
  BY <1>2, KindVars DEF Tables
<1>4. both = Bound(st)
  BY DEF Bound
<1> HIDE DEF st, v, text
<1>5. Len(st["env"]) \in 1..Len(st["env"]) /\ Len(st["data"]) \in 1..Len(st["data"])
  BY <1>1, <1>3, StackFacts
<1>6. StoreType(one) /\ \A t \in Tables : Len(one[t]) = Len(st[t])
  BY <1>1, <1>3, <1>5, PutType
<1> HIDE DEF one
<1>7. StoreType(both) /\ \A t \in Tables : Len(both[t]) = Len(one[t])
  <2>1. Len(st["data"]) \in 1..Len(one["data"])
    BY <1>3, <1>5, <1>6
  <2>2. QED
    BY <1>3, <1>6, <2>1, PutType
<1> HIDE DEF both
<1>8. QED
  BY <1>1, <1>4, <1>6, <1>7 DEF st

\* Throwing an exception instead.
LEMMA ThrowShaped ==
    ASSUME TypeOK, stack # <<>>, Top.todo # <<>>, NEW e, Throw(e),
           e = AnError \/ \E why \in {"blocked", "cycle"}, f \in Files : e = Fatal(why, f)
    PROVE  Takes /\ StoreType(store') /\ RestType'
<1>1. /\ thrown' = e /\ stack' = Taken
      /\ UNCHANGED <<source, store, callstack, resolving, completed, fallbacks, chosen>>
  BY DEF Throw
<1>2. StoreType(store') /\ SameSizes(store')
  BY <1>1, TypeParts DEF SameSizes
<1>3. RestType'
  BY <1>1, TypeParts DEF RestType
<1>4. QED
  BY <1>1, <1>2, <1>3 DEF Takes

\* A file is opened in the tables of the current context, of which ts are new.
LEMMA OpenShaped ==
    ASSUME TypeOK, stack # <<>>, Top.todo # <<>>,
           Node.type \in {"include", "template", "import"}, Node.file \notin resolving,
           NEW ts \in SUBSET Tables, ts = Renewed,
           NEW st, StoreType(st),
           \A t \in Tables : Len(st[t]) = IF t \in ts THEN Len(store[t]) + 1
                                                     ELSE Len(store[t]),
           Open(ForkedCtx(ts), st)
    PROVE  (Takes \/ OpensFile) /\ StoreType(store') /\ RestType'
<1>1. Node \in Nodes /\ Node.file \in Files
  BY TakenFacts, NodeAssumption
<1>2. CASE Throw(AnError)
  BY <1>2, ThrowShaped
<1>3. CASE ~ Throw(AnError)
  <2>1. /\ stack' = Append(Taken, Frame(Node, source[Node.file].nodes, Node.file,
                                        ForkedCtx(ts), NoPhase))
        /\ store' = st
        /\ resolving' = resolving \cup {Node.file}
        /\ UNCHANGED <<source, callstack, completed, fallbacks, chosen, thrown>>
    BY <1>3 DEF Open
  <2>2. RestType'
    BY <1>1, <2>1, TypeParts DEF RestType
  <2>3. OpensFile
    BY <2>1 DEF OpensFile
  <2>4. QED
    BY <2>1, <2>2, <2>3
<1>4. QED
  BY <1>2, <1>3

\* A directive that is passed over.
LEMMA SkippedShaped ==
    ASSUME TypeOK, stack # <<>>, Top.todo # <<>>, Skip
    PROVE  Takes /\ StoreType(store') /\ RestType'
<1>1. stack' = Taken /\ UNCHANGED <<source, store, callstack, resolving, completed,
                                    fallbacks, chosen, thrown>>
  BY DEF Skip
<1>2. QED
  BY <1>1, TypeParts DEF Takes, RestType, SameSizes

\* A directive that names a file opens it, passes over it or throws.
LEMMA FileShaped ==
    ASSUME TypeOK, ExecuteInclude \/ ExecuteTemplate \/ ExecuteImport
    PROVE  (Takes \/ OpensFile) /\ StoreType(store') /\ RestType'
<1>1. stack # <<>> /\ Top.todo # <<>> /\ Node.type \in {"include", "template", "import"}
  BY DEF ExecuteInclude, ExecuteTemplate, ExecuteImport, At, Ready
<1>2. Node \in Nodes /\ Node.file \in Files
  BY <1>1, TakenFacts, NodeAssumption
<1>3. CASE Skip
  BY <1>1, <1>3, SkippedShaped
<1>4. CASE \E e : Throw(e) /\ e \in {AnError, Fatal("blocked", Node.file),
                                      Fatal("cycle", Node.file)}
  BY <1>1, <1>2, <1>4, ThrowShaped
<1>5. CASE ExecuteInclude /\ Node.file \notin resolving
                          /\ Open(ForkedCtx(IncludeTables), Forked(IncludeTables))
  <2>1. Renewed = IncludeTables /\ IncludeTables \in SUBSET Tables
    BY <1>5 DEF ExecuteInclude, At, IncludeTables, Tables, Renewed
  <2>2. /\ StoreType(Forked(IncludeTables))
        /\ \A t \in Tables : Len(Forked(IncludeTables)[t]) =
              IF t \in IncludeTables THEN Len(store[t]) + 1 ELSE Len(store[t])
    BY <1>1, <2>1, ForkedType
  <2>3. QED
    BY <1>1, <1>5, <2>1, <2>2, OpenShaped
<1>6. CASE ExecuteTemplate /\ Node.file \notin resolving
                           /\ Open(ForkedCtx(Tables), Bound(Forked(Tables)))
  <2>1. Node.of \in Vars
    BY <1>2, <1>6, NodeAssumption DEF ExecuteTemplate, At
  <2>2. /\ StoreType(Bound(Forked(Tables)))
        /\ \A t \in Tables : Len(Bound(Forked(Tables))[t]) = Len(store[t]) + 1
    BY <1>1, <2>1, BoundType
  <2>3. Renewed = Tables
    BY <1>6 DEF ExecuteTemplate, At, Renewed
  <2>4. QED
    BY <1>1, <1>6, <2>2, <2>3, OpenShaped
<1>7. CASE ExecuteImport /\ Node.file \notin resolving /\ Open(Top.ctx, store)
  <2>1. Renewed = {}
    BY <1>7 DEF ExecuteImport, Renewed
  <2>2. ForkedCtx({}) = Top.ctx
    BY <1>1, TopFacts DEF ForkedCtx, Activation
  <2>3. StoreType(store)
    BY TypeParts
  <2>4. QED
    BY <1>1, <1>7, <2>1, <2>2, <2>3, OpenShaped
<1>8. QED
  BY <1>3, <1>4, <1>5, <1>6, <1>7 DEF ExecuteInclude, ExecuteTemplate, ExecuteImport

-----------------------------------------------------------------------------
(* Exceptions, and every step *)

\* Catching an exception moves no activation.
LEMMA CatchShaped ==
    ASSUME TypeOK, Catch
    PROVE  Stays /\ StoreType(store') /\ RestType'
<1>1. /\ thrown' = Nothing
      /\ UNCHANGED <<source, stack, store, callstack, resolving, completed, fallbacks, chosen>>
  BY DEF Catch
<1>2. QED
  BY <1>1, TypeParts DEF Stays, RestType, SameFrame, SameSizes

\* An exception leaves one activation.
LEMMA UnwindShaped ==
    ASSUME TypeOK, Rooted, Nested, Unwind
    PROVE  Leaves /\ StoreType(store') /\ RestType'
<1>1. /\ stack # <<>> /\ Top.node.type # "document"
      /\ stack' = Popped
      /\ store' = Kept(store, Below)
      /\ resolving' = IF Top.node.type \in {"include", "template"}
                      THEN resolving \ {Top.node.file} ELSE resolving
      /\ callstack' \in {callstack, SubSeq(callstack, 1, Len(callstack) - 1)}
      /\ UNCHANGED <<source, completed, fallbacks, chosen, thrown>>
  BY DEF Unwind
<1>2. Len(stack) > 1
  BY <1>1, NotAlone
<1>3. StoreType(store') /\ \A t \in Tables : Len(store'[t]) = Below.ctx[t]
  BY <1>1, <1>2, KeptType
<1>4. callstack' \in Seq(Nodes)
  <2>1. callstack \in Seq(Nodes)
    BY TypeParts DEF RestType
  <2>2. QED
    BY <1>1, <2>1, FrontFacts
<1>5. RestType'
  BY <1>1, <1>4, TypeParts DEF RestType
<1>6. QED
  BY <1>1, <1>2, <1>3, <1>5 DEF Leaves, Opens

\* The document is the last activation to end.
LEMMA EndDocumentShaped ==
    ASSUME TypeOK, EndDocument
    PROVE  Ends /\ StoreType(store') /\ RestType'
BY TypeParts, WalkAssumption DEF EndDocument, RestType, Ends, SameSizes

\* Every step has one of the six shapes.
LEMMA StepShaped ==
    ASSUME TypeOK, Rooted, Nested, Next
    PROVE  Shaped
<1>1. CASE ExecuteSet
  BY <1>1, SetShaped DEF Shaped, Shapes
<1>2. CASE ExecuteLabelled
  BY <1>2, LabelledShaped DEF Shaped, Shapes
<1>3. CASE HandleConditional \/ HandleSwitch
  BY <1>3, BranchShaped DEF Shaped, Shapes
<1>4. CASE EndBlock \/ EndSet \/ EndForeach \/ EndPhase \/ EndCall
  BY <1>4, EndShaped DEF Shaped, Shapes
<1>5. CASE SetFromDirective \/ ExecuteForeach
  BY <1>5, SourceShaped DEF Shaped, Shapes
<1>6. CASE BeginLoop \/ NextItem
  BY <1>6, BeginLoopShaped, NextItemShaped DEF Shaped, Shapes
<1>7. CASE HandlePhase \/ HandleCall
  BY <1>7, LabelShaped DEF Shaped, Shapes
<1>8. CASE WalkDefine \/ ImportDefine
  BY <1>8, DefineShaped DEF Shaped, Shapes
<1>9. CASE WalkConnect \/ ImportConnect
  BY <1>9, ConnectShaped DEF Shaped, Shapes
<1>10. CASE WalkTransition \/ WalkEnv \/ WalkUnhandled \/ ImportEnv \/ ImportNothing
  BY <1>10, SkipShaped DEF Shaped, Shapes
<1>11. CASE ExecuteInclude \/ ExecuteTemplate \/ ExecuteImport
  BY <1>11, FileShaped DEF Shaped, Shapes
<1>12. CASE EndInclude \/ EndTemplate \/ EndImport
  BY <1>12, EndFileShaped DEF Shaped, Shapes
<1>13. CASE Catch
  BY <1>13, CatchShaped DEF Shaped, Shapes
<1>14. CASE Unwind
  BY <1>14, UnwindShaped DEF Shaped, Shapes
<1>15. CASE EndDocument
  BY <1>15, EndDocumentShaped DEF Shaped, Shapes
<1>16. QED
  BY <1>1, <1>2, <1>3, <1>4, <1>5, <1>6, <1>7, <1>8, <1>9, <1>10, <1>11, <1>12,
     <1>13, <1>14, <1>15 DEF Next

-----------------------------------------------------------------------------
(* The inductive invariant is preserved *)

\* The activation a new file is walked in.
LEMMA OpenedFacts ==
    ASSUME TypeOK, stack # <<>>, Top.todo # <<>>,
           Node.type \in {"include", "template", "import"}, NEW ts \in SUBSET Tables
    PROVE  LET fr == Frame(Node, source[Node.file].nodes, Node.file, ForkedCtx(ts), NoPhase)
           IN /\ fr \in Activation
              /\ fr.node = Node /\ fr.file = Node.file
              /\ fr.ctx = ForkedCtx(ts) /\ fr.phase = NoPhase
<1>1. Node \in Nodes /\ Node.file \in Files
  BY TakenFacts, NodeAssumption
<1>2. source[Node.file].nodes \in Seq(Nodes)
  BY <1>1, TypeParts DEF RestType, Content
<1>3. ForkedCtx(ts) \in [Tables -> Nat]
  BY ForkedType
<1>4. QED
  BY <1>1, <1>2, <1>3 DEF Frame, Activation

\* What a step that enters an activation does to the stack.
Pushed(fr) ==
    /\ fr \in Activation
    /\ StackType(stack', store')
    /\ Len(stack') = Len(stack) + 1
    /\ \A i \in 1..Len(stack) : SameFrame(stack'[i], stack[i])
    /\ stack'[Len(stack) + 1] = fr

\* Walking a body adds an activation in the same tables.
LEMMA EntersPushes ==
    ASSUME TypeOK, Enters
    PROVE  \E fr : /\ Pushed(fr)
                   /\ fr.node = Node /\ fr.file = Top.file
                   /\ fr.ctx = Top.ctx /\ fr.phase = Top.phase
<1>1. PICK fr \in Activation :
         /\ stack' = Append(Taken, fr)
         /\ fr.node = Node /\ fr.file = Top.file
         /\ fr.ctx = Top.ctx /\ fr.phase = Top.phase
  BY DEF Enters
<1>2. \A t \in Tables : /\ Len(store'[t]) \in Nat /\ Len(store'[t]) >= Len(store[t])
                        /\ fr.ctx[t] \in 1..Len(store'[t])
  BY <1>1, StackFacts, TopFacts DEF Enters, SameSizes
<1>3. Pushed(fr)
  BY <1>1, <1>2, PushedType DEF Enters, Pushed
<1>4. QED
  BY <1>1, <1>3

\* Opening a file adds an activation in the same or in younger tables, without an active phase.
LEMMA OpensPushes ==
    ASSUME TypeOK, OpensFile
    PROVE  \E fr : /\ Pushed(fr)
                   /\ fr.node = Node /\ fr.file = Node.file /\ fr.phase = NoPhase
                   /\ \A t \in Tables : fr.ctx[t] \in {Top.ctx[t], Len(store[t]) + 1}
                   /\ \A t \in Tables \ Renewed : fr.ctx[t] = Top.ctx[t]
                   /\ \A t \in Renewed : fr.ctx[t] = Len(store[t]) + 1
                   /\ Node.type = "template"
                      => \A t \in Tables : fr.ctx[t] = Len(store[t]) + 1
<1>1. stack # <<>> /\ Top.todo # <<>> /\ Node.type \in {"include", "template", "import"}
  BY DEF OpensFile
<1>2. PICK ts \in SUBSET Tables :
         /\ ts = Renewed
         /\ stack' = Append(Taken, Frame(Node, source[Node.file].nodes, Node.file,
                                         ForkedCtx(ts), NoPhase))
         /\ \A t \in Tables : Len(store'[t]) = IF t \in ts THEN Len(store[t]) + 1
                                                          ELSE Len(store[t])
  BY DEF OpensFile
<1> DEFINE fr == Frame(Node, source[Node.file].nodes, Node.file, ForkedCtx(ts), NoPhase)
<1>3. /\ fr \in Activation /\ fr.node = Node /\ fr.file = Node.file
      /\ fr.ctx = ForkedCtx(ts) /\ fr.phase = NoPhase
  BY <1>1, OpenedFacts
<1>4. stack' = Append(Taken, fr)
  BY <1>2
<1> HIDE DEF fr
<1>5. \A t \in Tables :
         \/ t \in ts /\ fr.ctx[t] = Len(store[t]) + 1 /\ Len(store'[t]) = Len(store[t]) + 1
         \/ t \notin ts /\ fr.ctx[t] = Top.ctx[t] /\ Len(store'[t]) = Len(store[t])
  BY <1>1, <1>2, <1>3, ForkedType
<1>6. \A t \in Tables : /\ Len(store'[t]) \in Nat /\ Len(store'[t]) >= Len(store[t])
                        /\ fr.ctx[t] \in 1..Len(store'[t])
  BY <1>1, <1>5, StackFacts, TopFacts
<1>7. Pushed(fr)
  BY <1>1, <1>3, <1>4, <1>6, PushedType DEF Pushed
<1>8. Node.type = "template" => ts = Tables
  BY <1>2 DEF Renewed
<1>9. QED
  BY <1>2, <1>3, <1>5, <1>7, <1>8

\* What the other steps do to the stack.
KeptFrames ==
    /\ StackType(stack', store')
    /\ Len(stack') = Len(stack)
    /\ \A i \in 1..Len(stack) : SameFrame(stack'[i], stack[i])

\* Taking a node and starting over keep every activation in its place.
LEMMA TakesKeeps ==
    ASSUME TypeOK, Takes \/ Stays
    PROVE  KeptFrames
<1>1. CASE Takes
  BY <1>1, TakenFacts, TakenType DEF Takes, KeptFrames
<1>2. CASE Stays
  BY <1>2 DEF Stays, KeptFrames
<1>3. QED
  BY <1>1, <1>2

\* Leaving an activation keeps those below it.
LEMMA LeavesPops ==
    ASSUME TypeOK, Nested, Leaves
    PROVE  /\ StackType(stack', store')
           /\ Len(stack') = Len(stack) - 1
           /\ \A i \in 1..Len(stack') : i \in 1..Len(stack) /\ i < Len(stack)
                                        /\ SameFrame(stack'[i], stack[i])
<1>1. stack # <<>> /\ stack' = Popped
  BY DEF Leaves
<1>2. StackType(Popped, store')
  BY <1>1, PoppedType, LeftType DEF Leaves
<1>3. QED
  BY <1>1, <1>2, PoppedFacts, TopFacts DEF SameFrame

\* The types.
LEMMA TypeStep ==
    ASSUME TypeOK, Nested, Shaped
    PROVE  TypeOK'
<1>1. CASE Takes \/ Stays
  BY <1>1, TakesKeeps, TypeParts DEF Shaped, KeptFrames
<1>2. CASE Enters
  BY <1>2, EntersPushes, TypeParts DEF Shaped, Pushed
<1>3. CASE OpensFile
  BY <1>3, OpensPushes, TypeParts DEF Shaped, Pushed
<1>4. CASE Leaves
  BY <1>4, LeavesPops, TypeParts DEF Shaped
<1>5. CASE Ends
  <2>1. StackType(stack', store')
    BY <1>5 DEF StackType, Ends
  <2>2. QED
    BY <2>1, TypeParts DEF Shaped
<1>6. QED
  BY <1>1, <1>2, <1>3, <1>4, <1>5 DEF Shaped, Shapes

\* The positions of a stack that is one longer: the old ones and the new one.
LEMMA PushedPositions ==
    ASSUME TypeOK, NEW fr, Pushed(fr), NEW i \in 1..Len(stack')
    PROVE  /\ Len(stack) \in Nat
           /\ \/ i \in 1..Len(stack) /\ i < Len(stack) + 1 /\ SameFrame(stack'[i], stack[i])
              \/ i = Len(stack) + 1 /\ stack'[i] = fr
BY StackFacts DEF Pushed

\* The document stays the outermost activation.
LEMMA RootedStep ==
    ASSUME TypeOK, Rooted, Nested, Shaped
    PROVE  Rooted'
<1>1. CASE Takes \/ Stays
  BY <1>1, TakesKeeps DEF Rooted, KeptFrames, SameFrame
<1>2. ASSUME NEW fr, Pushed(fr), fr.node.type # "document", stack # <<>>
      PROVE  Rooted'
  BY <1>2, PushedPositions, TopFacts DEF Rooted, SameFrame
<1>3. CASE Enters
  BY <1>2, <1>3, EntersPushes DEF Enters
<1>4. CASE OpensFile
  BY <1>2, <1>4, OpensPushes DEF OpensFile
<1>5. CASE Leaves
  BY <1>5, LeavesPops DEF Rooted, SameFrame
<1>6. CASE Ends
  BY <1>6 DEF Ends, Rooted
<1>7. QED
  BY <1>1, <1>3, <1>4, <1>5, <1>6 DEF Shaped, Shapes

\* No activation refers to a younger table than the innermost one.
LEMMA TopIsYoungest ==
    ASSUME TypeOK, Nested, stack # <<>>, NEW i \in 1..Len(stack), NEW t \in Tables
    PROVE  /\ stack[i].ctx[t] <= Top.ctx[t] /\ Top.ctx[t] <= Len(store[t])
           /\ stack[i].ctx[t] \in Nat /\ Top.ctx[t] \in Nat /\ Len(store[t]) \in Nat
<1>1. Len(stack) \in 1..Len(stack) /\ i <= Len(stack)
  BY TopFacts
<1>2. Top = stack[Len(stack)]
  BY TopFacts
<1>3. QED
  BY <1>1, <1>2, StackFacts, TopFacts DEF Nested

\* Inner contexts keep to the same or younger tables.
LEMMA NestedStep ==
    ASSUME TypeOK, Nested, Shaped
    PROVE  Nested'
<1>1. CASE Takes \/ Stays
  BY <1>1, TakesKeeps DEF Nested, KeptFrames, SameFrame
<1>2. ASSUME NEW fr, Pushed(fr), stack # <<>>,
             \A t \in Tables : fr.ctx[t] \in {Top.ctx[t], Len(store[t]) + 1}
      PROVE  Nested'
  <2> SUFFICES ASSUME NEW i \in 1..Len(stack'), NEW j \in 1..Len(stack'),
                      NEW t \in Tables, i <= j
               PROVE  stack'[i].ctx[t] <= stack'[j].ctx[t]
    BY DEF Nested
  <2>1. CASE j \in 1..Len(stack) /\ j < Len(stack) + 1
    <3>1. i \in 1..Len(stack) /\ i < Len(stack) + 1 /\ Len(stack) \in Nat
      BY <1>2, <2>1, PushedPositions
    <3>2. SameFrame(stack'[i], stack[i]) /\ SameFrame(stack'[j], stack[j])
      BY <1>2, <2>1, <3>1, PushedPositions
    <3>3. QED
      BY <2>1, <3>1, <3>2 DEF Nested, SameFrame
  <2>2. CASE j = Len(stack) + 1 /\ i \in 1..Len(stack)
    <3>1. stack'[i].ctx = stack[i].ctx /\ stack'[j] = fr
      BY <1>2, <2>2 DEF Pushed, SameFrame
    <3>2. stack[i].ctx[t] <= Top.ctx[t] /\ stack[i].ctx[t] <= Len(store[t]) + 1
      BY <1>2, <2>2, TopIsYoungest
    <3>3. QED
      BY <1>2, <3>1, <3>2
  <2>3. CASE j = Len(stack) + 1 /\ i = Len(stack) + 1
    <3>1. stack'[i].ctx[t] \in 1..Len(store'[t])
      BY <1>2 DEF Pushed, StackType
    <3>2. stack'[i] = stack'[j]
      BY <2>3
    <3>3. QED
      BY <3>1, <3>2
  <2>4. QED
    BY <1>2, <2>1, <2>2, <2>3, PushedPositions
<1>3. CASE Enters
  BY <1>2, <1>3, EntersPushes DEF Enters
<1>4. CASE OpensFile
  BY <1>2, <1>4, OpensPushes DEF OpensFile
<1>5. CASE Leaves
  BY <1>5, LeavesPops DEF Nested, SameFrame
<1>6. CASE Ends
  BY <1>6 DEF Ends, Nested
<1>7. QED
  BY <1>1, <1>3, <1>4, <1>5, <1>6 DEF Shaped, Shapes

\* Templates keep to younger tables.
LEMMA SeparateStep ==
    ASSUME TypeOK, Nested, Separate, Shaped
    PROVE  Separate'
<1>1. CASE Takes \/ Stays
  BY <1>1, TakesKeeps DEF Separate, KeptFrames, SameFrame
<1>2. ASSUME NEW fr, Pushed(fr), stack # <<>>,
             fr.node.type = "template" => \A t \in Tables : fr.ctx[t] = Len(store[t]) + 1
      PROVE  Separate'
  <2> SUFFICES ASSUME NEW i \in 1..Len(stack'), NEW j \in 1..Len(stack'),
                      NEW t \in Tables, i < j, stack'[j].node.type = "template"
               PROVE  stack'[i].ctx[t] < stack'[j].ctx[t]
    BY DEF Separate
  <2>1. i \in 1..Len(stack) /\ i < Len(stack) + 1 /\ Len(stack) \in Nat
    BY <1>2, PushedPositions
  <2>2. stack'[i].ctx = stack[i].ctx
    BY <1>2, <2>1 DEF Pushed, SameFrame
  <2>3. CASE j \in 1..Len(stack) /\ SameFrame(stack'[j], stack[j])
    BY <2>1, <2>2, <2>3 DEF Separate, SameFrame
  <2>4. CASE stack'[j] = fr
    BY <1>2, <2>1, <2>2, <2>4, TopIsYoungest, SMTT(30)
  <2>5. QED
    BY <1>2, <2>3, <2>4, PushedPositions
<1>3. CASE Enters
  BY <1>2, <1>3, EntersPushes DEF Enters
<1>4. CASE OpensFile
  BY <1>2, <1>4, OpensPushes DEF OpensFile
<1>5. CASE Leaves
  BY <1>5, LeavesPops DEF Separate, SameFrame
<1>6. CASE Ends
  BY <1>6 DEF Ends, Separate
<1>7. QED
  BY <1>1, <1>3, <1>4, <1>5, <1>6 DEF Shaped, Shapes

\* Included files and templates stay without an active phase.
LEMMA QuietStep ==
    ASSUME TypeOK, Nested, Quiet, Shaped
    PROVE  Quiet'
<1>1. CASE Takes \/ Stays
  BY <1>1, TakesKeeps DEF Quiet, KeptFrames, SameFrame
<1>2. ASSUME NEW fr, Pushed(fr), stack # <<>>,
             \/ fr.phase = NoPhase
             \/ fr.phase = Top.phase /\ fr.node.type \notin {"include", "template"}
      PROVE  Quiet'
  <2> SUFFICES ASSUME NEW i \in 1..Len(stack'), NEW j \in 1..Len(stack'), i <= j,
                      stack'[i].node.type \in {"include", "template"}
               PROVE  stack'[j].phase = NoPhase
    BY DEF Quiet
  <2>1. Len(stack) \in 1..Len(stack) /\ Len(stack) \in Nat /\ Top = stack[Len(stack)]
    BY <1>2, TopFacts
  <2>2. CASE stack'[j] = fr /\ j = Len(stack) + 1
    <3>1. CASE i \in 1..Len(stack) /\ SameFrame(stack'[i], stack[i])
      BY <1>2, <2>1, <2>2, <3>1 DEF Quiet, SameFrame
    <3>2. CASE stack'[i] = fr
      BY <1>2, <2>2, <3>2
    <3>3. QED
      BY <1>2, <3>1, <3>2, PushedPositions
  <2>3. CASE j \in 1..Len(stack) /\ SameFrame(stack'[j], stack[j])
    <3>1. i \in 1..Len(stack) /\ SameFrame(stack'[i], stack[i])
      BY <1>2, <2>1, <2>3, PushedPositions
    <3>2. QED
      BY <2>3, <3>1 DEF Quiet, SameFrame
  <2>4. QED
    BY <1>2, <2>2, <2>3, PushedPositions
<1>3. CASE Enters
  <2>1. PICK fr : Pushed(fr) /\ fr.node = Node /\ fr.phase = Top.phase
    BY <1>3, EntersPushes
  <2>2. QED
    BY <1>2, <1>3, <2>1 DEF Enters
<1>4. CASE OpensFile
  BY <1>2, <1>4, OpensPushes DEF OpensFile
<1>5. CASE Leaves
  BY <1>5, LeavesPops DEF Quiet, SameFrame
<1>6. CASE Ends
  BY <1>6 DEF Ends, Quiet
<1>7. QED
  BY <1>1, <1>3, <1>4, <1>5, <1>6 DEF Shaped, Shapes

\* A file that is opened is not in progress, and a file that ends is in
\* progress nowhere else: the two invariants hold each other up.
LEMMA ReentryStep ==
    ASSUME TypeOK, Nested, InProgress, NoReentry, Shaped
    PROVE  InProgress' /\ NoReentry'
<1>1. CASE Takes \/ Stays
  <2>1. resolving' = resolving
    BY <1>1 DEF Takes, Stays
  <2>2. QED
    BY <1>1, <2>1, TakesKeeps DEF InProgress, NoReentry, KeptFrames, SameFrame, Opens
<1>2. CASE Enters
  <2>1. PICK fr : Pushed(fr) /\ fr.node = Node
    BY <1>2, EntersPushes
  <2>2. ~ Opens(fr) /\ resolving' = resolving
    BY <1>2, <2>1 DEF Enters, Opens
  <2>3. \A i \in 1..Len(stack') : Opens(stack'[i]) =>
           i \in 1..Len(stack) /\ stack'[i].node = stack[i].node /\ Opens(stack[i])
    BY <2>1, <2>2, PushedPositions DEF SameFrame, Opens
  <2>4. QED
    BY <2>2, <2>3 DEF InProgress, NoReentry
<1>3. CASE OpensFile
  <2>1. PICK fr : Pushed(fr) /\ fr.node = Node
    BY <1>3, OpensPushes
  <2>2. Node.file \notin resolving /\ resolving' = resolving \cup {Node.file}
    BY <1>3 DEF OpensFile
  <2>3. \A i \in 1..Len(stack') : Opens(stack'[i]) =>
           \/ /\ i \in 1..Len(stack) /\ i # Len(stack) + 1
              /\ stack'[i].node = stack[i].node /\ Opens(stack[i])
           \/ i = Len(stack) + 1 /\ stack'[i].node = Node
    BY <2>1, PushedPositions DEF SameFrame, Opens
  <2>4. InProgress'
    BY <2>2, <2>3 DEF InProgress
  <2>5. NoReentry'
    BY <2>2, <2>3 DEF NoReentry, InProgress
  <2>6. QED
    BY <2>4, <2>5
<1>4. CASE Leaves
  <2>1. \A i \in 1..Len(stack') : /\ i \in 1..Len(stack) /\ i # Len(stack)
                                  /\ stack'[i].node = stack[i].node
    BY <1>4, LeavesPops, StackFacts DEF SameFrame
  <2>2. NoReentry'
    BY <2>1 DEF NoReentry, Opens
  <2>3. \/ resolving' = resolving
        \/ Opens(Top) /\ resolving' = resolving \ {Top.node.file}
    BY <1>4 DEF Leaves
  <2>4. Top = stack[Len(stack)] /\ Len(stack) \in 1..Len(stack)
    BY <1>4, TopFacts DEF Leaves
  <2>5. InProgress'
    BY <2>1, <2>3, <2>4 DEF InProgress, NoReentry, Opens
  <2>6. QED
    BY <2>2, <2>5
<1>5. CASE Ends
  BY <1>5 DEF Ends, InProgress, NoReentry
<1>6. QED
  BY <1>1, <1>2, <1>3, <1>4, <1>5 DEF Shaped, Shapes

-----------------------------------------------------------------------------
(* Theorems *)

\* The inductive invariant holds initially ...
LEMMA InitIInv == Init => IInv
<1> SUFFICES ASSUME Init PROVE IInv
  OBVIOUS
<1>1. source \in Programs /\ source[Main].nodes \in Seq(Nodes)
  BY WalkAssumption DEF Init, Content
<1>2. PICK request \in Requests :
         stack = <<Frame(Document, source[Main].nodes, Main, [t \in Tables |-> 1], request)>>
  BY DEF Init
<1> DEFINE fr == Frame(Document, source[Main].nodes, Main, [t \in Tables |-> 1], request)
<1>3. /\ fr \in Activation /\ fr.node = Document /\ fr.phase = request
      /\ fr.ctx = [t \in Tables |-> 1]
  BY <1>1, WalkAssumption DEF Frame, Activation
<1>4. stack = <<fr>>
  BY <1>2
<1> HIDE DEF fr
<1>5. /\ stack \in Seq(Activation) /\ Len(stack) = 1
      /\ \A i \in 1..Len(stack) : i = 1 /\ stack[i] = fr
  BY <1>3, <1>4
<1>6. \A t \in Tables : /\ store[t] = <<Blank(t)>> /\ Blank(t) \in Kind(t)
                        /\ store[t] \in Seq(Kind(t)) /\ Len(store[t]) = 1
  <2> SUFFICES ASSUME NEW t \in Tables
               PROVE  /\ store[t] = <<Blank(t)>> /\ Blank(t) \in Kind(t)
                      /\ store[t] \in Seq(Kind(t)) /\ Len(store[t]) = 1
    OBVIOUS
  <2>1. store[t] = <<Blank(t)>>
    BY DEF Init
  <2>2. Blank(t) \in Kind(t)
    <3>1. CASE t \in {"env", "data"}
      BY <3>1 DEF Blank, Kind
    <3>2. CASE t = "macros"
      <4>1. NoBody \in {NoBody} \cup Seq(Nodes)
        OBVIOUS
      <4>2. QED
        BY <3>2, <4>1 DEF Blank, Kind
    <3>3. CASE t = "conns"
      BY <3>3 DEF Blank, Kind
    <3>4. CASE t = "locals"
      BY <3>4 DEF Blank, Kind
    <3>5. QED
      BY <3>1, <3>2, <3>3, <3>4 DEF Tables
  <2>3. QED
    BY <2>1, <2>2
<1>7. StoreType(store)
  BY <1>6 DEF StoreType, Init
<1>8. StackType(stack, store)
  BY <1>3, <1>5, <1>6 DEF StackType
<1>9. RestType
  BY <1>1, WalkAssumption DEF Init, RestType, Content
<1>10. Rooted /\ Nested /\ Separate /\ Quiet /\ InProgress /\ NoReentry
  <2>1. /\ Document.type = "document" /\ Document.file = Main /\ resolving = {Main}
        /\ \A i \in 1..Len(stack) : i = 1 /\ stack[i].node = Document
    BY <1>3, <1>5 DEF Document, Init
  <2>2. \A i, j \in 1..Len(stack) : i = j /\ ~ (i < j)
    BY <1>5
  <2>3. \A i \in 1..Len(stack), t \in Tables : stack[i].ctx[t] = 1
    BY <1>3, <1>5
  <2>4. Rooted
    BY <2>1 DEF Rooted
  <2>5. Nested /\ Separate
    BY <2>2, <2>3 DEF Nested, Separate
  <2>6. Quiet
    BY <2>1 DEF Quiet
  <2>7. InProgress
    BY <2>1 DEF InProgress
  <2>8. NoReentry
    BY <2>2 DEF NoReentry
  <2>9. QED
    BY <2>4, <2>5, <2>6, <2>7, <2>8
<1>11. QED
  BY <1>7, <1>8, <1>9, <1>10, TypeParts DEF IInv

\* ... and every step preserves it.
LEMMA NextIInv == IInv /\ [Next]_vars => IInv'
<1> SUFFICES ASSUME IInv, [Next]_vars PROVE IInv'
  OBVIOUS
<1>1. CASE Next
  <2>1. TypeOK /\ Rooted /\ Nested /\ Separate /\ Quiet /\ InProgress /\ NoReentry
    BY DEF IInv
  <2>2. Shaped
    BY <1>1, <2>1, StepShaped
  <2>3. QED
    BY <2>1, <2>2, TypeStep, RootedStep, NestedStep, SeparateStep, QuietStep,
       ReentryStep DEF IInv
<1>2. CASE UNCHANGED vars
  <2>1. /\ source' = source /\ stack' = stack /\ store' = store
        /\ callstack' = callstack /\ resolving' = resolving
        /\ completed' = completed /\ fallbacks' = fallbacks
        /\ chosen' = chosen /\ thrown' = thrown
    BY <1>2 DEF vars
  <2>2. TypeOK'
    BY <2>1 DEF IInv, TypeOK
  <2>3. Rooted' /\ Nested' /\ Separate' /\ Quiet'
    BY <2>1 DEF IInv, Rooted, Nested, Separate, Quiet
  <2>4. InProgress' /\ NoReentry'
    BY <2>1 DEF IInv, InProgress, NoReentry, Opens
  <2>5. QED
    BY <2>2, <2>3, <2>4 DEF IInv
<1>3. QED
  BY <1>1, <1>2

\* The inductive invariant holds in every reachable state.
LEMMA Invariance == Spec => []IInv
BY InitIInv, NextIInv, PTL DEF Spec

\* Every variable keeps its type.
THEOREM WalkTypeCorrect == Spec => []TypeOK
<1>1. IInv => TypeOK
  BY DEF IInv
<1>2. QED
  BY <1>1, Invariance, PTL

\* No file is ever walked or imported inside itself.
THEOREM NoFileReenters == Spec => []NoReentry
<1>1. IInv => NoReentry
  BY DEF IInv
<1>2. QED
  BY <1>1, Invariance, PTL

-----------------------------------------------------------------------------
(* What a directive that may open a file does *)

\* It passes over the file, throws, or opens the file with a store st that
\* holds the old tables where they were.
LEMMA FileCases ==
    ASSUME ExecuteInclude \/ ExecuteTemplate \/ ExecuteImport
    PROVE  \/ Skip
           \/ \E e : Throw(e)
           \/ ExecuteInclude /\ Open(ForkedCtx(IncludeTables), Forked(IncludeTables))
           \/ ExecuteTemplate /\ Open(ForkedCtx(Tables), Bound(Forked(Tables)))
           \/ ExecuteImport /\ Open(Top.ctx, store)
BY DEF ExecuteInclude, ExecuteTemplate, ExecuteImport

-----------------------------------------------------------------------------
(* Advice *)

\* What a step that changes the advice is.
LEMMA AdviceSteps ==
    ASSUME Next, chosen' # chosen
    PROVE  EndPhase \/ WalkTransition
<1>1. CASE ExecuteSet \/ ExecuteLabelled \/ HandleConditional \/ HandleSwitch \/ EndBlock
  BY <1>1 DEF ExecuteSet, ExecuteLabelled, HandleConditional, HandleSwitch, EndBlock
<1>2. CASE SetFromDirective \/ EndSet \/ ExecuteForeach \/ BeginLoop \/ NextItem \/ EndForeach
  BY <1>2 DEF SetFromDirective, EndSet, ExecuteForeach, Evaluate, BeginLoop, NextItem,
              EndForeach
<1>3. CASE HandlePhase \/ WalkDefine \/ HandleCall \/ EndCall \/ WalkConnect
  BY <1>3 DEF HandlePhase, WalkDefine, HandleCall, EndCall, WalkConnect
<1>4. CASE WalkEnv \/ WalkUnhandled
  BY <1>4 DEF WalkEnv, WalkUnhandled, Skip, Throw
<1>5. CASE ExecuteInclude \/ ExecuteTemplate \/ ExecuteImport
  <2>1. Skip \/ (\E e : Throw(e)) \/ \E ctx, st : Open(ctx, st)
    BY <1>5, FileCases
  <2>2. QED
    BY <2>1 DEF Skip, Throw, Open
<1>6. CASE EndInclude \/ EndTemplate \/ EndImport
  BY <1>6 DEF EndInclude, EndTemplate, EndImport
<1>7. CASE ImportEnv \/ ImportDefine \/ ImportConnect \/ ImportNothing
  BY <1>7 DEF ImportEnv, ImportDefine, ImportConnect, ImportNothing, Skip
<1>8. CASE Catch \/ Unwind \/ EndDocument
  BY <1>8 DEF Catch, Unwind, EndDocument
<1>9. QED
  BY <1>1, <1>2, <1>3, <1>4, <1>5, <1>6, <1>7, <1>8 DEF Next

\* Advice needs an active phase, and no activation of an included file or of
\* a template has one.
LEMMA AdviceStep ==
    ASSUME IInv, Next, chosen' # chosen
    PROVE  /\ chosen = NoPhase
           /\ \A i \in 1..Len(stack) : stack[i].node.type \notin {"include", "template"}
<1>1. EndPhase \/ WalkTransition
  BY AdviceSteps
<1>2. stack # <<>> /\ TypeOK /\ Quiet
  BY <1>1 DEF EndPhase, WalkTransition, Done, At, Ready, IInv
<1>3. \E targets : chosen' = Chosen(targets)
  BY <1>1 DEF EndPhase, WalkTransition
<1>4. Top.phase # NoPhase /\ chosen = NoPhase
  BY <1>3 DEF Chosen
<1>5. Len(stack) \in 1..Len(stack) /\ Top = stack[Len(stack)]
  BY <1>2, TopFacts
<1>6. QED
  BY <1>2, <1>4, <1>5 DEF Quiet

\* The first transition that is walked stays the advice, and no file the
\* document includes or renders gives any: ctx.chosenTransition as
\* engine.ts:252-259 sets it in a context whose phase engine-include.ts:144
\* and engine-template.ts:150 have cleared.
THEOREM AdviceStays == Spec => OnlyTheDocumentAdvances
<1>1. IInv /\ [Next]_vars =>
        [ chosen' # chosen =>
          /\ chosen = NoPhase
          /\ \A i \in 1..Len(stack) : stack[i].node.type \notin {"include", "template"} ]_vars
  BY AdviceStep
<1>2. QED
  BY <1>1, Invariance, PTL DEF Spec, OnlyTheDocumentAdvances

-----------------------------------------------------------------------------
(* Writes *)

\* A write into one table leaves every other one as it is.
LEMMA PutSpares ==
    ASSUME NEW st, StoreType(st), NEW t \in Tables, NEW p \in 1..Len(st[t]),
           NEW u, NEW k, NEW x, NEW v, u = t => k # p,
           NEW put, put = [st EXCEPT ![u][k][x] = v]
    PROVE  put[t][p] = st[t][p]
BY DEF StoreType

\* A position an activation outside a template refers to.
Outer(t, p) ==
    \E j \in 1..Len(stack) : \E i \in 1..(j - 1) :
        stack[j].node.type = "template" /\ p = stack[i].ctx[t]

\* It is older than the tables of the innermost activation, survives when that
\* one ends, and is not written when an include ends.
LEMMA OuterIsOlder ==
    ASSUME IInv, NEW t \in Tables, NEW p, Outer(t, p)
    PROVE  /\ TypeOK /\ StoreType(store) /\ Nested /\ stack # <<>> /\ Len(stack) > 1
           /\ p \in 1..Len(store[t]) /\ Len(store[t]) \in Nat
           /\ p < Top.ctx[t]
           /\ p \in 1..Below.ctx[t]
           /\ Top.node.type # "template" => p < Below.ctx[t]
<1>1. TypeOK /\ Nested /\ Separate
  BY DEF IInv
<1>2. PICK j \in 1..Len(stack) : \E i \in 1..(j - 1) :
         stack[j].node.type = "template" /\ p = stack[i].ctx[t]
  BY DEF Outer
<1>3. PICK i \in 1..(j - 1) : stack[j].node.type = "template" /\ p = stack[i].ctx[t]
  BY <1>2
<1>4. Len(stack) \in Nat /\ Len(store[t]) \in Nat
  BY <1>1, StackFacts
<1>5. stack # <<>>
  BY <1>2
<1>6. i \in 1..Len(stack) /\ i < j /\ i <= Len(stack) - 1 /\ Len(stack) > 1
  BY <1>2, <1>3, <1>4
<1>7. Len(stack) - 1 \in 1..Len(stack) /\ Len(stack) \in 1..Len(stack)
  BY <1>4, <1>6
<1>8. /\ stack[i].ctx[t] \in 1..Len(store[t])
      /\ stack[j].ctx[t] \in 1..Len(store[t])
      /\ Top.ctx[t] \in 1..Len(store[t]) /\ Below.ctx[t] \in 1..Len(store[t])
  BY <1>1, <1>6, <1>7, StackFacts DEF Top, Below
<1>9. stack[i].ctx[t] < stack[j].ctx[t]
  BY <1>1, <1>3, <1>6 DEF Separate
<1>10. stack[j].ctx[t] <= Top.ctx[t]
  BY <1>1, <1>5, TopIsYoungest
<1>11. stack[i].ctx[t] <= Below.ctx[t]
  BY <1>1, <1>6, <1>7 DEF Nested, Below
<1>12. ASSUME Top.node.type # "template"
       PROVE  p < Below.ctx[t]
  <2>1. j <= Len(stack) - 1
    BY <1>3, <1>4, <1>12 DEF Top
  <2>2. stack[j].ctx[t] <= Below.ctx[t]
    BY <1>1, <1>7, <2>1 DEF Nested, Below
  <2>3. QED
    BY <1>3, <1>4, <1>8, <1>9, <2>2
<1>13. p \in 1..Len(store[t]) /\ p < Top.ctx[t] /\ p \in 1..Below.ctx[t]
  BY <1>3, <1>4, <1>8, <1>9, <1>10, <1>11
<1>14. QED
  BY <1>1, <1>4, <1>5, <1>6, <1>12, <1>13, TypeParts

\* Writing an entry of a table of the current context spares such a table.
LEMMA WithSpares ==
    ASSUME IInv, NEW t \in Tables, NEW p, Outer(t, p), NEW u, NEW x, NEW v
    PROVE  With(u, x, v)[t][p] = store[t][p]
<1>1. StoreType(store) /\ p \in 1..Len(store[t]) /\ (u = t => Top.ctx[u] # p)
  BY OuterIsOlder
<1>2. QED
  BY <1>1, PutSpares DEF With

\* A write into two tables of the current context, of different kinds.
Twice(a, x, v, b, y, w) == [With(a, x, v) EXCEPT ![b][Top.ctx[b]][y] = w]

\* It spares such a table too.
LEMMA TwiceSpares ==
    ASSUME IInv, NEW t \in Tables, NEW p, Outer(t, p),
           NEW a \in Tables, NEW x, NEW v, Fits(a, x, v), NEW b, NEW y, NEW w
    PROVE  Twice(a, x, v, b, y, w)[t][p] = store[t][p]
<1>1. /\ TypeOK /\ stack # <<>>
      /\ p \in 1..Len(store[t]) /\ (b = t => Top.ctx[b] # p)
  BY OuterIsOlder
<1> DEFINE st == With(a, x, v)
<1>2. StoreType(st) /\ SameSizes(st) /\ st[t][p] = store[t][p]
  BY <1>1, WithType, WithSpares
<1> HIDE DEF st
<1>3. p \in 1..Len(st[t])
  BY <1>1, <1>2 DEF SameSizes
<1>4. Twice(a, x, v, b, y, w) = [st EXCEPT ![b][Top.ctx[b]][y] = w]
  BY DEF st, Twice
<1>5. [st EXCEPT ![b][Top.ctx[b]][y] = w][t][p] = st[t][p]
  BY <1>1, <1>2, <1>3, PutSpares
<1>6. QED
  BY <1>2, <1>4, <1>5

\* New tables come after the old ones.
LEMMA ForkedSpares ==
    ASSUME TypeOK, stack # <<>>, NEW ts \in SUBSET Tables,
           NEW t \in Tables, NEW p \in 1..Len(store[t])
    PROVE  Forked(ts)[t][p] = store[t][p]
<1>1. store[t] \in Seq(Kind(t))
  BY TypeParts DEF StoreType
<1>2. CASE t \notin ts
  BY <1>2 DEF Forked
<1>3. CASE t \in ts
  <2> DEFINE new == IF t = "locals" THEN Blank(t) ELSE Table(t)
  <2>1. Forked(ts)[t] = Append(store[t], new)
    BY <1>3 DEF Forked
  <2> HIDE DEF new
  <2>2. QED
    BY <1>1, <2>1
<1>4. QED
  BY <1>2, <1>3

\* The data of a template is bound in the new tables.
LEMMA BoundSpares ==
    ASSUME TypeOK, stack # <<>>, Node.of \in Vars,
           NEW t \in Tables, NEW p \in 1..Len(store[t])
    PROVE  Bound(Forked(Tables))[t][p] = store[t][p]
<1> DEFINE st == Forked(Tables)
           v == Seen(Node.of)
           text == DataText(v)
           one == [st EXCEPT !["env"][Len(st["env"])][Node.as] = text]
           both == [one EXCEPT !["data"][Len(st["data"])][Node.as] = v]
<1>1. StoreType(st) /\ \A u \in Tables : Len(st[u]) = Len(store[u]) + 1
  BY ForkedType
<1>2. st[t][p] = store[t][p]
  BY ForkedSpares
<1>3. v \in Values \cup {Unset} /\ text \in Values \cup {Unset}
  BY SeenType, ValueAssumption, WalkAssumption DEF DataText
<1>4. "env" \in Tables /\ "data" \in Tables /\ Fits("env", Node.as, text)
  BY <1>3, KindVars DEF Tables
<1>5. both = Bound(st)
  BY DEF Bound
<1> HIDE DEF st, v, text
<1>6. /\ Len(store[t]) \in Nat /\ p \in 1..Len(st[t]) /\ p # Len(st[t])
      /\ Len(st["env"]) \in 1..Len(st["env"])
  BY <1>1, <1>4, StackFacts
<1>7. StoreType(one) /\ Len(one[t]) = Len(st[t])
  BY <1>1, <1>4, <1>6, PutType, SMTT(30)
<1>8. one[t][p] = st[t][p]
  BY <1>1, <1>6, PutSpares
<1> HIDE DEF one
<1>9. both[t][p] = one[t][p]
  BY <1>6, <1>7, PutSpares
<1> HIDE DEF both
<1>10. QED
  BY <1>2, <1>5, <1>8, <1>9 DEF st

\* No step writes a table an activation outside an open template refers to.
LEMMA SandboxStep ==
    ASSUME IInv, Next, NEW t \in Tables, NEW p, Outer(t, p)
    PROVE  store'[t][p] = store[t][p]
<1>1. /\ TypeOK /\ StoreType(store) /\ Nested /\ stack # <<>> /\ Len(stack) > 1
      /\ p \in 1..Len(store[t]) /\ p \in 1..Below.ctx[t]
  BY OuterIsOlder
<1>2. CASE store' = store
  BY <1>2
<1>3. CASE \E u, x, v : store' = With(u, x, v)
  BY <1>3, WithSpares
<1>4. CASE \E a \in Tables : \E b, x, v, y, w :
              Fits(a, x, v) /\ store' = Twice(a, x, v, b, y, w)
  BY <1>4, TwiceSpares
<1>5. CASE store' = Kept(store, Below)
  BY <1>1, <1>5, KeptType
<1>6. CASE EndInclude
  <2> DEFINE kept == Kept(store, Below)
             k == Below.ctx["conns"]
  <2>1. Top.node.type # "template"
    BY <1>6 DEF EndInclude, Done
  <2>2. t = "conns" => p # k
    BY <2>1, OuterIsOlder
  <2>3. StoreType(kept) /\ Len(kept[t]) = Below.ctx[t] /\ kept[t][p] = store[t][p]
    BY <1>1, KeptType
  <2>4. store' = [kept EXCEPT !["conns"][k] = Bubbled]
    BY <1>6 DEF EndInclude
  <2> HIDE DEF kept, k
  <2>5. QED
    BY <1>1, <2>2, <2>3, <2>4 DEF StoreType
<1>7. CASE ExecuteInclude \/ ExecuteTemplate \/ ExecuteImport
  <2>1. CASE Skip \/ \E e : Throw(e)
    BY <2>1 DEF Skip, Throw
  <2>2. CASE ExecuteInclude /\ Open(ForkedCtx(IncludeTables), Forked(IncludeTables))
    <3>1. store' \in {store, Forked(IncludeTables)}
      BY <2>2 DEF Open, Throw
    <3>2. IncludeTables \in SUBSET Tables
      BY DEF IncludeTables, Tables
    <3>3. QED
      BY <1>1, <3>1, <3>2, ForkedSpares
  <2>3. CASE ExecuteTemplate /\ Open(ForkedCtx(Tables), Bound(Forked(Tables)))
    <3>1. store' \in {store, Bound(Forked(Tables))}
      BY <2>3 DEF Open, Throw
    <3>2. Top.todo # <<>> /\ Node.type = "template"
      BY <2>3 DEF ExecuteTemplate, At
    <3>3. Node.of \in Vars
      BY <1>1, <3>2, TakenFacts, NodeAssumption
    <3>4. QED
      BY <1>1, <3>1, <3>3, BoundSpares
  <2>4. CASE ExecuteImport /\ Open(Top.ctx, store)
    BY <2>4 DEF Open, Throw
  <2>5. QED
    BY <1>7, <2>1, <2>2, <2>3, <2>4, FileCases
<1>8. CASE ExecuteSet
  <2>1. CASE \E x, v : store' = With("env", x, v)
    BY <1>3, <2>1
  <2>2. CASE \E v, text, typed : text \in Values /\ Bind(v, text, typed)
    <3>1. PICK v, text, typed : text \in Values /\ Bind(v, text, typed)
      BY <2>2
    <3>2. Fits("env", v, text) /\ "env" \in Tables
      BY <3>1, KindVars DEF Tables
    <3>3. store' = Twice("env", v, text, "data", v, typed)
      BY <3>1 DEF Bind, Twice
    <3>4. QED
      BY <1>4, <3>2, <3>3
  <2>3. QED
    <3> DEFINE typed == IF Node.rhs = "expr" THEN Seen(Node.of) ELSE Node.value
    <3>1. Top.todo # <<>> /\ Node.type = "set"
      BY <1>8 DEF ExecuteSet, At
    <3>2. Node \in Nodes
      BY <1>1, <3>1, TakenFacts
    <3>3. typed \in Values \cup {Unset}
      BY <1>1, <3>1, <3>2, SeenType, NodeAssumption
    <3>4. AsText(typed) \in Values
      BY <3>3, ValueAssumption
    <3>5. \/ \E x, v : store' = With("env", x, v)
          \/ Bind(Node.var, AsText(typed), typed)
      <4>1. CASE Node.rhs = "text"
        BY <1>8, <4>1 DEF ExecuteSet
      <4>2. CASE Node.rhs # "text" /\ typed \in {Unset, Null}
        BY <1>8, <4>2 DEF ExecuteSet
      <4>3. CASE Node.rhs # "text" /\ typed \notin {Unset, Null}
        BY <1>8, <4>3 DEF ExecuteSet
      <4>4. QED
        BY <4>1, <4>2, <4>3
    <3> HIDE DEF typed
    <3>6. QED
      BY <2>1, <2>2, <3>4, <3>5
<1>9. CASE ExecuteLabelled
  <2>1. Top.todo # <<>> /\ Node.type = "source"
    BY <1>9 DEF ExecuteLabelled, At
  <2>2. AsText(Node.text) \in Values
    BY <1>1, <2>1, TakenFacts, NodeAssumption, ValueAssumption
  <2>3. Fits("env", Node.label, AsText(Node.text)) /\ "env" \in Tables
    BY <2>2, KindVars DEF Tables
  <2> DEFINE text == AsText(Node.text)
  <2>4. \/ store' = With("env", Node.label, text)
        \/ store' = Twice("env", Node.label, text, "data", Node.label, Node.row)
    BY <1>9 DEF ExecuteLabelled, Twice
  <2> HIDE DEF text
  <2>5. Fits("env", Node.label, text)
    BY <2>3 DEF text
  <2>6. QED
    BY <1>3, <1>4, <2>3, <2>4, <2>5
<1>10. CASE WalkConnect
  <2> DEFINE conn == [by |-> Top.file, local |-> Node.local]
  <2>1. Top.todo # <<>> /\ Node.type = "connect"
    BY <1>10 DEF WalkConnect, At
  <2>2. Node.local \in BOOLEAN /\ Top.file \in Files
    BY <1>1, <2>1, TakenFacts, TopFacts, NodeAssumption DEF Activation
  <2>3. Fits("conns", Node.name, conn) /\ "conns" \in Tables
    BY <2>2, KindConns DEF Tables
  <2>4. \/ store' = With("conns", Node.name, conn)
        \/ store' = Twice("conns", Node.name, conn, "locals", Node.name, TRUE)
    BY <1>10 DEF WalkConnect, Twice
  <2> HIDE DEF conn
  <2>5. QED
    BY <1>3, <1>4, <2>3, <2>4
<1>11. CASE EndSet \/ BeginLoop \/ NextItem \/ EndForeach
  <2>1. store' = store \/ \E v : store' = With("env", Top.node.var, v)
    BY <1>11, Zenon DEF EndSet, BeginLoop, NextItem, EndForeach
  <2>2. QED
    BY <1>2, <1>3, <2>1
<1>12. CASE WalkDefine \/ ImportDefine \/ ImportConnect
  BY <1>3, <1>12 DEF WalkDefine, ImportDefine, ImportConnect
<1>13. CASE EndTemplate \/ Unwind
  BY <1>5, <1>13 DEF EndTemplate, Unwind
<1>14. CASE \/ HandleConditional \/ HandleSwitch \/ EndBlock \/ HandlePhase \/ EndPhase
            \/ WalkTransition \/ HandleCall \/ EndCall
            \/ SetFromDirective \/ ExecuteForeach
  BY <1>2, <1>14 DEF HandleConditional, HandleSwitch, EndBlock, HandlePhase, EndPhase,
               WalkTransition, HandleCall, EndCall, SetFromDirective, ExecuteForeach, Evaluate
<1>15. CASE WalkEnv \/ WalkUnhandled \/ ImportEnv \/ ImportNothing
  BY <1>15 DEF WalkEnv, WalkUnhandled, ImportEnv, ImportNothing, Skip, Throw
<1>16. CASE EndImport \/ Catch \/ EndDocument
  BY <1>16 DEF EndImport, Catch, EndDocument
<1>17. QED
  BY <1>6, <1>7, <1>8, <1>9, <1>10, <1>11, <1>12, <1>13, <1>14, <1>15, <1>16 DEF Next

\* Until its last step and in it, a template changes no variable, value, macro
\* or connection of any context below it (engine-template.ts:136-171).
THEOREM TemplatesAreSandboxes == Spec => TemplateSandbox
<1>1. ASSUME IInv, Next
      PROVE  \A j \in 1..Len(stack) :
               stack[j].node.type = "template" =>
                 \A i \in 1..(j - 1), t \in Tables :
                     store'[t][stack[i].ctx[t]] = store[t][stack[i].ctx[t]]
  BY <1>1, SandboxStep DEF Outer
<1>2. IInv /\ [Next]_vars =>
        [ \A j \in 1..Len(stack) :
            stack[j].node.type = "template" =>
              \A i \in 1..(j - 1), t \in Tables :
                  store'[t][stack[i].ctx[t]] = store[t][stack[i].ctx[t]] ]_vars
  BY <1>1
<1>3. QED
  BY <1>2, Invariance, PTL DEF Spec, TemplateSandbox

-----------------------------------------------------------------------------
(* The callstack *)

Labels == {"phase", "call"}

\* The positions a label has among the activations are those below it.
LEMMA OnCallstackFacts ==
    ASSUME TypeOK
    PROVE  /\ Len(stack) \in Nat
           /\ OnCallstack \subseteq 1..Len(stack)
           /\ IsFiniteSet(OnCallstack)
<1>1. Len(stack) \in Nat
  BY StackFacts
<1>2. OnCallstack \subseteq 1..Len(stack)
  BY DEF OnCallstack
<1>3. IsFiniteSet(1..Len(stack))
  BY <1>1, FS_Interval
<1>4. QED
  BY <1>1, <1>2, <1>3, FS_Subset

\* How many labels there are up to one of them.
LEMMA RankFacts ==
    ASSUME TypeOK, NEW i \in OnCallstack
    PROVE  /\ Cardinality(OnCallstack) \in Nat
           /\ Cardinality(OnCallstack \cap 1..i) \in 1..Cardinality(OnCallstack)
<1> DEFINE upto == OnCallstack \cap 1..i
<1>1. IsFiniteSet(OnCallstack) /\ i \in 1..Len(stack) /\ Len(stack) \in Nat
  BY OnCallstackFacts
<1>2. upto \subseteq OnCallstack /\ i \in upto
  BY <1>1
<1> HIDE DEF upto
<1>3. IsFiniteSet(upto) /\ Cardinality(upto) <= Cardinality(OnCallstack)
  BY <1>1, <1>2, FS_Subset
<1>4. Cardinality(upto) \in Nat /\ Cardinality(OnCallstack) \in Nat
  BY <1>1, <1>3, FS_CardinalityType
<1>5. Cardinality(upto) # 0
  BY <1>2, <1>3, FS_EmptySet
<1>6. QED
  BY <1>3, <1>4, <1>5 DEF upto

\* What a step does to the activations and to the callstack together.
Tracked ==
    \/ (Takes \/ Stays) /\ callstack' = callstack
    \/ (Enters \/ OpensFile) /\ Node.type \notin Labels /\ callstack' = callstack
    \/ Enters /\ Node.type \in Labels /\ callstack' = Append(callstack, Node)
    \/ Leaves /\ Top.node.type \notin Labels /\ callstack' = callstack
    \/ /\ Leaves /\ Top.node.type \in Labels
       /\ callstack' = SubSeq(callstack, 1, Len(callstack) - 1)
    \/ EndDocument

\* A phase or a call that is walked gets its entry together with its activation.
LEMMA LabelTracked ==
    ASSUME TypeOK, HandlePhase \/ HandleCall
    PROVE  Tracked
BY LabelShaped DEF Tracked, HandlePhase, HandleCall, At, Labels

\* Every step does one of these.
LEMMA StepTracked ==
    ASSUME IInv, Next
    PROVE  Tracked
<1>0. TypeOK /\ Rooted /\ Nested
  BY DEF IInv
<1>1. CASE ExecuteSet
  BY <1>0, <1>1, SetShaped DEF Tracked, ExecuteSet
<1>2. CASE ExecuteLabelled
  BY <1>0, <1>2, LabelledShaped DEF Tracked, ExecuteLabelled
<1>3. CASE HandleConditional \/ HandleSwitch
  BY <1>0, <1>3, BranchShaped DEF Tracked, HandleConditional, HandleSwitch, At, Labels
<1>4. CASE EndBlock \/ EndSet \/ EndForeach \/ EndPhase \/ EndCall
  BY <1>0, <1>4, EndShaped
     DEF Tracked, EndBlock, EndSet, EndForeach, EndPhase, EndCall, BodyDone, Done, Labels
<1>5. CASE SetFromDirective \/ ExecuteForeach
  BY <1>0, <1>5, SourceShaped
     DEF Tracked, SetFromDirective, ExecuteForeach, Evaluate, At, Labels
<1>6. CASE BeginLoop \/ NextItem
  BY <1>0, <1>6, BeginLoopShaped, NextItemShaped
     DEF Tracked, BeginLoop, NextItem, Done, Labels
<1>7. CASE HandlePhase \/ HandleCall
  BY <1>0, <1>7, LabelTracked
<1>8. CASE WalkDefine \/ ImportDefine
  BY <1>0, <1>8, DefineShaped DEF Tracked, WalkDefine, ImportDefine
<1>9. CASE WalkConnect \/ ImportConnect
  BY <1>0, <1>9, ConnectShaped DEF Tracked, WalkConnect, ImportConnect
<1>10. CASE WalkTransition \/ WalkEnv \/ WalkUnhandled \/ ImportEnv \/ ImportNothing
  BY <1>0, <1>10, SkipShaped
     DEF Tracked, WalkTransition, WalkEnv, WalkUnhandled, ImportEnv, ImportNothing, Skip, Throw
<1>11. CASE ExecuteInclude \/ ExecuteTemplate \/ ExecuteImport
  <2>1. Takes \/ OpensFile
    BY <1>0, <1>11, FileShaped
  <2>2. callstack' = callstack
    BY <1>11, FileCases DEF Skip, Throw, Open
  <2>3. OpensFile => Node.type \notin Labels
    BY DEF OpensFile, Labels
  <2>4. QED
    BY <2>1, <2>2, <2>3 DEF Tracked
<1>12. CASE EndInclude \/ EndTemplate \/ EndImport
  BY <1>0, <1>12, EndFileShaped
     DEF Tracked, EndInclude, EndTemplate, EndImport, Done, Labels
<1>13. CASE Catch
  BY <1>0, <1>13, CatchShaped DEF Tracked, Catch
<1>14. CASE Unwind
  BY <1>0, <1>14, UnwindShaped DEF Tracked, Unwind, Labels
<1>15. CASE EndDocument
  BY <1>15 DEF Tracked
<1>16. QED
  BY <1>1, <1>2, <1>3, <1>4, <1>5, <1>6, <1>7, <1>8, <1>9, <1>10, <1>11, <1>12,
     <1>13, <1>14, <1>15 DEF Next

\* An activation is entered: the entries stay where they are, and the new one
\* comes last if the activation has one.
LEMMA TrackedPush ==
    ASSUME TypeOK, CallstackTracks, NEW fr, Pushed(fr),
           callstack' = IF fr.node.type \in Labels THEN Append(callstack, fr.node)
                                                   ELSE callstack
    PROVE  CallstackTracks'
<1> DEFINE L == OnCallstack
           n == Len(stack)
           new == IF fr.node.type \in Labels THEN {n + 1} ELSE {}
<1>1. /\ n \in Nat /\ L \subseteq 1..n /\ IsFiniteSet(L)
      /\ Len(callstack) = Cardinality(L) /\ callstack \in Seq(Nodes)
  BY OnCallstackFacts DEF CallstackTracks, TypeOK
<1>2. L' = L \cup new
  <2>1. Len(stack') = n + 1
    BY DEF Pushed
  <2>2. \A i \in 1..n : stack'[i].node = stack[i].node
    BY DEF Pushed, SameFrame
  <2>3. stack'[n + 1] = fr
    BY DEF Pushed
  <2>4. L' = { i \in 1..(n + 1) : stack'[i].node.type \in {"phase", "call"} }
    BY <2>1 DEF OnCallstack
  <2>5. L = { i \in 1..n : stack[i].node.type \in {"phase", "call"} }
    BY DEF OnCallstack
  <2>6. 1..(n + 1) = 1..n \cup {n + 1}
    BY <1>1
  <2>7. QED
    BY <2>2, <2>3, <2>4, <2>5, <2>6 DEF Labels
<1>3. \A i \in L : L' \cap 1..i = L \cap 1..i
  BY <1>1, <1>2
<1>4. \A i \in L : stack'[i].node = stack[i].node
  BY <1>1 DEF Pushed, SameFrame
<1>5. \A i \in L : callstack[Cardinality(L \cap 1..i)] = stack[i].node
  BY DEF CallstackTracks
<1>6. \A i \in L : Cardinality(L \cap 1..i) \in 1..Len(callstack)
  BY <1>1, RankFacts
<1>7. CASE fr.node.type \notin Labels
  <2>1. L' = L /\ callstack' = callstack
    BY <1>2, <1>7
  <2>2. Len(callstack') = Cardinality(L')
    BY <1>1, <2>1
  <2>3. ASSUME NEW i \in L
        PROVE  callstack'[Cardinality(L' \cap 1..i)] = stack'[i].node
    BY <1>4, <1>5, <2>1
  <2>4. QED
    BY <2>1, <2>2, <2>3 DEF CallstackTracks
<1>8. CASE fr.node.type \in Labels
  <2>1. L' = L \cup {n + 1} /\ callstack' = Append(callstack, fr.node) /\ n + 1 \notin L
    BY <1>1, <1>2, <1>8
  <2>2. Cardinality(L') = Cardinality(L) + 1
    BY <1>1, <2>1, FS_AddElement
  <2>3. /\ Len(callstack') = Len(callstack) + 1
        /\ callstack'[Len(callstack) + 1] = fr.node
        /\ \A k \in 1..Len(callstack) : callstack'[k] = callstack[k]
    BY <1>1, <2>1
  <2>4. ASSUME NEW i \in L
        PROVE  callstack'[Cardinality(L' \cap 1..i)] = stack'[i].node
    BY <1>3, <1>4, <1>5, <1>6, <2>3
  <2>5. callstack'[Cardinality(L' \cap 1..(n + 1))] = stack'[n + 1].node
    <3>0. L' \subseteq 1..(n + 1)
      <4>1. 1..n \subseteq 1..(n + 1) /\ n + 1 \in 1..(n + 1)
        BY <1>1
      <4> HIDE DEF L
      <4>2. QED
        BY <1>1, <2>1, <4>1
    <3>1. L' \cap 1..(n + 1) = L'
      BY <3>0
    <3>2. stack'[n + 1] = fr
      BY DEF Pushed
    <3>3. QED
      BY <1>1, <2>2, <2>3, <3>1, <3>2
  <2>6. \A i \in L' : callstack'[Cardinality(L' \cap 1..i)] = stack'[i].node
    BY <2>1, <2>4, <2>5
  <2>7. QED
    BY <1>1, <2>2, <2>3, <2>6 DEF CallstackTracks
<1>9. QED
  BY <1>7, <1>8

\* The innermost activation is left, with its entry if it has one.
LEMMA TrackedPop ==
    ASSUME TypeOK, Nested, CallstackTracks, Leaves,
           callstack' = IF Top.node.type \in Labels
                        THEN SubSeq(callstack, 1, Len(callstack) - 1) ELSE callstack
    PROVE  CallstackTracks'
<1> DEFINE L == OnCallstack
           n == Len(stack)
<1>1. /\ n \in Nat \ {0} /\ L \subseteq 1..n /\ IsFiniteSet(L) /\ Top = stack[n]
      /\ Len(callstack) = Cardinality(L) /\ callstack \in Seq(Nodes)
  BY OnCallstackFacts, TopFacts DEF CallstackTracks, TypeOK, Leaves
<1>2. L' = L \ {n}
  <2>1. Len(stack') = n - 1
    BY LeavesPops
  <2>2. \A i \in 1..(n - 1) : stack'[i].node = stack[i].node
    BY <2>1, LeavesPops DEF SameFrame
  <2>3. L' = { i \in 1..(n - 1) : stack'[i].node.type \in {"phase", "call"} }
    BY <2>1 DEF OnCallstack
  <2>4. L = { i \in 1..n : stack[i].node.type \in {"phase", "call"} }
    BY DEF OnCallstack
  <2>5. 1..(n - 1) = (1..n) \ {n}
    BY <1>1
  <2>6. QED
    BY <2>2, <2>3, <2>4, <2>5
<1>3. \A i \in L' : i \in L /\ L' \cap 1..i = L \cap 1..i
  BY <1>1, <1>2
<1>4. \A i \in L' : stack'[i].node = stack[i].node
  <2>1. \A i \in L' : i \in 1..Len(stack')
    BY DEF OnCallstack
  <2>2. QED
    BY <2>1, LeavesPops DEF SameFrame
<1>5. \A i \in L : callstack[Cardinality(L \cap 1..i)] = stack[i].node
  BY DEF CallstackTracks
<1>6. CASE Top.node.type \notin Labels
  <2>1. n \notin L
    BY <1>1, <1>6 DEF OnCallstack, Labels
  <2>2. L' = L /\ callstack' = callstack
    BY <1>2, <1>6, <2>1
  <2>3. Len(callstack') = Cardinality(L')
    BY <1>1, <2>2
  <2>4. \A i \in L' : callstack'[Cardinality(L' \cap 1..i)] = stack'[i].node
    BY <1>4, <1>5, <2>2
  <2>5. QED
    BY <2>3, <2>4 DEF CallstackTracks
<1>7. CASE Top.node.type \in Labels
  <2>1. n \in L
    BY <1>1, <1>7 DEF OnCallstack, Labels
  <2>2. Cardinality(L') = Cardinality(L) - 1 /\ IsFiniteSet(L') /\ Cardinality(L) \in Nat
    BY <1>1, <1>2, <2>1, FS_RemoveElement, FS_CardinalityType
  <2>3. callstack # <<>>
    <3>1. Cardinality(L) # 0
      BY <1>1, <2>1, FS_EmptySet
    <3>2. QED
      BY <1>1, <3>1
  <2>4. /\ Len(callstack') = Len(callstack) - 1
        /\ \A k \in 1..(Len(callstack) - 1) : callstack'[k] = callstack[k]
    BY <1>1, <1>7, <2>3, FrontFacts
  <2>5. ASSUME NEW i \in L'
        PROVE  callstack'[Cardinality(L' \cap 1..i)] = stack'[i].node
    <3>1. i \in L /\ L' \cap 1..i = L \cap 1..i
      BY <1>3
    <3>2. Cardinality(L \cap 1..i) \in 1..Cardinality(L)
      BY <3>1, RankFacts
    <3>3. Cardinality(L \cap 1..i) <= Cardinality(L')
      <4>1. L' \cap 1..i \subseteq L'
        OBVIOUS
      <4>2. QED
        BY <2>2, <3>1, <4>1, FS_Subset
    <3>4. Cardinality(L \cap 1..i) \in 1..(Len(callstack) - 1)
      BY <1>1, <2>2, <3>2, <3>3
    <3>5. QED
      BY <1>4, <1>5, <2>4, <3>1, <3>4
  <2>6. QED
    BY <1>1, <2>2, <2>4, <2>5 DEF CallstackTracks
<1>8. QED
  BY <1>6, <1>7

\* The callstack follows every step.
LEMMA CallstackStep ==
    ASSUME IInv, CallstackTracks, Next
    PROVE  CallstackTracks'
<1>0. TypeOK /\ Rooted /\ Nested
  BY DEF IInv
<1>1. CASE (Takes \/ Stays) /\ callstack' = callstack
  <2>1. Len(stack') = Len(stack) /\ \A i \in 1..Len(stack) : stack'[i].node = stack[i].node
    BY <1>0, <1>1, TakesKeeps DEF KeptFrames, SameFrame
  <2>2. OnCallstack' = OnCallstack
    BY <2>1 DEF OnCallstack
  <2>3. \A i \in OnCallstack : stack'[i].node = stack[i].node
    BY <2>1 DEF OnCallstack
  <2>4. QED
    BY <1>1, <2>2, <2>3 DEF CallstackTracks
<1>2. CASE /\ Enters \/ OpensFile
           /\ callstack' = IF Node.type \in Labels THEN Append(callstack, Node)
                                                   ELSE callstack
  <2>1. PICK fr : Pushed(fr) /\ fr.node = Node
    BY <1>0, <1>2, EntersPushes, OpensPushes
  <2>2. callstack' = IF fr.node.type \in Labels THEN Append(callstack, fr.node)
                                                ELSE callstack
    BY <1>2, <2>1
  <2>3. QED
    BY <1>0, <2>1, <2>2, TrackedPush
<1>3. CASE /\ Leaves
           /\ callstack' = IF Top.node.type \in Labels
                           THEN SubSeq(callstack, 1, Len(callstack) - 1) ELSE callstack
  BY <1>0, <1>3, TrackedPop
<1>4. CASE EndDocument
  <2>1. /\ stack # <<>> /\ stack' = <<>> /\ callstack' = callstack
        /\ Top.node.type = "document"
    BY <1>4 DEF EndDocument, Done, Ready
  <2>2. Len(stack) = 1
    <3>1. Len(stack) \in 1..Len(stack) /\ stack[Len(stack)].node.type = "document"
      BY <1>0, <2>1, TopFacts
    <3>2. QED
      BY <1>0, <3>1 DEF Rooted
  <2>3. OnCallstack = {} /\ OnCallstack' = {}
    BY <1>0, <2>1, <2>2, TopFacts DEF OnCallstack
  <2>4. QED
    BY <2>1, <2>3 DEF CallstackTracks
<1>5. QED
  BY <1>1, <1>2, <1>3, <1>4, StepTracked DEF Tracked

-----------------------------------------------------------------------------
(* Local connections *)

\* The activations that have a table of connections of their own.
Walks(fr) == fr.node.type \in {"document", "include", "template"}

Conn(i, c) == store["conns"][stack[i].ctx["conns"]][c]
IsLocal(i, c) == store["locals"][stack[i].ctx["locals"]][c]

\* The connections and the names of the local ones are copied together.
Paired ==
    /\ Len(store["conns"]) = Len(store["locals"])
    /\ \A i \in 1..Len(stack) : stack[i].ctx["conns"] = stack[i].ctx["locals"]

\* A walked file has younger connections than everything outside it.
Layered ==
    \A i, k \in 1..Len(stack) :
        (i < k /\ Walks(stack[k])) => stack[i].ctx["conns"] < stack[k].ctx["conns"]

\* Everything but an import has the connections of the file it is in.
Homed ==
    \A i \in 1..Len(stack) :
        stack[i].node.type # "import" =>
            \E h \in 1..i : /\ Walks(stack[h])
                            /\ stack[h].ctx["conns"] = stack[i].ctx["conns"]
                            /\ stack[h].node.file = stack[i].file

\* Where a local connection can be seen, the file that declared it is being
\* walked and lists the name among its local ones.
Held(i, c) ==
    (Conn(i, c) # Unset /\ Conn(i, c).local) =>
        \E h \in 1..i : /\ Walks(stack[h])
                        /\ stack[h].node.file = Conn(i, c).by
                        /\ IsLocal(h, c)
LocalsHeld == \A i \in 1..Len(stack), c \in Conns : Held(i, c)

OwnInv == CallstackTracks /\ Paired /\ Layered /\ Homed /\ LocalsHeld

\* New connections come with a new list of local ones.
LEMMA RenewedPairs ==
    /\ "conns" \in Tables /\ "locals" \in Tables
    /\ "conns" \in Renewed <=> "locals" \in Renewed
    /\ Node.type \in {"include", "template"} => "conns" \in Renewed
    /\ Node.type = "import" => Renewed = {}
BY DEF Renewed, IncludeTables, Tables

\* They stay paired.
LEMMA PairedStep ==
    ASSUME TypeOK, Nested, Paired, Shaped
    PROVE  Paired'
<1>1. "conns" \in Tables /\ "locals" \in Tables
  BY RenewedPairs
<1>2. CASE Takes \/ Stays
  <2>1. SameSizes(store')
    BY <1>2 DEF Takes, Stays
  <2>2. QED
    BY <1>1, <1>2, <2>1, TakesKeeps DEF Paired, KeptFrames, SameFrame, SameSizes
<1>3. CASE Enters
  <2>1. PICK fr : Pushed(fr) /\ fr.ctx = Top.ctx
    BY <1>3, EntersPushes
  <2>2. Top.ctx["conns"] = Top.ctx["locals"]
    BY <1>3, TopFacts DEF Enters, Paired
  <2>3. Len(store'["conns"]) = Len(store'["locals"])
    BY <1>1, <1>3 DEF Enters, SameSizes, Paired
  <2>4. \A i \in 1..Len(stack') : stack'[i].ctx["conns"] = stack'[i].ctx["locals"]
    BY <2>1, <2>2, PushedPositions DEF Paired, SameFrame
  <2>5. QED
    BY <2>3, <2>4 DEF Paired
<1>4. CASE OpensFile
  <2>1. PICK fr : /\ Pushed(fr)
                  /\ \A t \in Tables \ Renewed : fr.ctx[t] = Top.ctx[t]
                  /\ \A t \in Renewed : fr.ctx[t] = Len(store[t]) + 1
    BY <1>4, OpensPushes
  <2>2. Top.ctx["conns"] = Top.ctx["locals"]
    BY <1>4, TopFacts DEF OpensFile, Paired
  <2>3. fr.ctx["conns"] = fr.ctx["locals"]
    BY <1>1, <2>1, <2>2, RenewedPairs DEF Paired
  <2>4. \A t \in Tables : Len(store'[t]) = IF t \in Renewed THEN Len(store[t]) + 1
                                                            ELSE Len(store[t])
    BY <1>4 DEF OpensFile
  <2>5. Len(store'["conns"]) = Len(store'["locals"])
    BY <1>1, <2>4, RenewedPairs DEF Paired
  <2>6. \A i \in 1..Len(stack') : stack'[i].ctx["conns"] = stack'[i].ctx["locals"]
    BY <2>1, <2>3, PushedPositions DEF Paired, SameFrame
  <2>7. QED
    BY <2>5, <2>6 DEF Paired
<1>5. CASE Leaves
  <2>1. \A i \in 1..Len(stack') : stack'[i].ctx["conns"] = stack'[i].ctx["locals"]
    BY <1>5, LeavesPops DEF Paired, SameFrame
  <2>2. Len(stack) > 1 => Below.ctx["conns"] = Below.ctx["locals"]
    BY StackFacts DEF Paired, Below
  <2>3. Len(store'["conns"]) = Len(store'["locals"])
    BY <1>1, <1>5, <2>2 DEF Leaves, SameSizes, Paired
  <2>4. QED
    BY <2>1, <2>3 DEF Paired
<1>6. CASE Ends
  BY <1>1, <1>6 DEF Ends, SameSizes, Paired
<1>7. QED
  BY <1>2, <1>3, <1>4, <1>5, <1>6 DEF Shaped, Shapes

\* A file that is walked gets the youngest connections.
LEMMA LayeredStep ==
    ASSUME TypeOK, Nested, Layered, Shaped
    PROVE  Layered'
<1>1. CASE Takes \/ Stays
  BY <1>1, TakesKeeps DEF Layered, KeptFrames, SameFrame, Walks
<1>2. ASSUME NEW fr, Pushed(fr), stack # <<>>,
             Walks(fr) => fr.ctx["conns"] = Len(store["conns"]) + 1
      PROVE  Layered'
  <2> SUFFICES ASSUME NEW i \in 1..Len(stack'), NEW k \in 1..Len(stack'),
                      i < k, Walks(stack'[k])
               PROVE  stack'[i].ctx["conns"] < stack'[k].ctx["conns"]
    BY DEF Layered, Walks
  <2>1. i \in 1..Len(stack) /\ i < Len(stack) + 1 /\ Len(stack) \in Nat
    BY <1>2, PushedPositions
  <2>2. stack'[i].ctx = stack[i].ctx
    BY <1>2, <2>1 DEF Pushed, SameFrame
  <2>3. CASE k \in 1..Len(stack) /\ SameFrame(stack'[k], stack[k])
    BY <2>1, <2>2, <2>3 DEF Layered, SameFrame, Walks
  <2>4. CASE stack'[k] = fr
    <3>1. "conns" \in Tables
      BY RenewedPairs
    <3>2. /\ stack[i].ctx["conns"] <= Top.ctx["conns"] /\ Top.ctx["conns"] <= Len(store["conns"])
          /\ stack[i].ctx["conns"] \in Nat /\ Top.ctx["conns"] \in Nat
          /\ Len(store["conns"]) \in Nat
      BY <1>2, <2>1, <3>1, TopIsYoungest
    <3>3. fr.ctx["conns"] = Len(store["conns"]) + 1
      BY <1>2, <2>4 DEF Walks
    <3>4. QED
      BY <2>2, <2>4, <3>2, <3>3
  <2>5. QED
    BY <1>2, <2>3, <2>4, PushedPositions
<1>3. CASE Enters
  <2>1. PICK fr : Pushed(fr) /\ fr.node = Node
    BY <1>3, EntersPushes
  <2>2. ~ Walks(fr) /\ stack # <<>>
    BY <1>3, <2>1 DEF Enters, Walks
  <2>3. QED
    BY <1>2, <2>1, <2>2
<1>4. CASE OpensFile
  <2>1. PICK fr : /\ Pushed(fr) /\ fr.node = Node
                  /\ \A t \in Renewed : fr.ctx[t] = Len(store[t]) + 1
    BY <1>4, OpensPushes
  <2>2. stack # <<>> /\ (Walks(fr) => "conns" \in Renewed)
    BY <1>4, <2>1, RenewedPairs DEF OpensFile, Walks
  <2>3. QED
    BY <1>2, <2>1, <2>2
<1>5. CASE Leaves
  BY <1>5, LeavesPops DEF Layered, SameFrame, Walks
<1>6. CASE Ends
  BY <1>6 DEF Ends, Layered
<1>7. QED
  BY <1>1, <1>3, <1>4, <1>5, <1>6 DEF Shaped, Shapes

\* A body is in the file it is walked for, and a file is in itself.
LEMMA HomedStep ==
    ASSUME TypeOK, Nested, Homed, Shaped
    PROVE  Homed'
<1> DEFINE Home(stk, i) == \E h \in 1..i : /\ Walks(stk[h])
                                           /\ stk[h].ctx["conns"] = stk[i].ctx["conns"]
                                           /\ stk[h].node.file = stk[i].file
<1>1. ASSUME NEW i \in 1..Len(stack), \A k \in 1..i : SameFrame(stack'[k], stack[k]),
             stack'[i].node.type # "import"
      PROVE  Home(stack', i)
  <2>1. Home(stack, i)
    BY <1>1 DEF Homed, SameFrame
  <2>2. QED
    BY <1>1, <2>1 DEF SameFrame, Walks
<1>2. CASE Takes \/ Stays
  <2>1. \A i \in 1..Len(stack') : i \in 1..Len(stack) /\ \A k \in 1..i : k \in 1..Len(stack)
    BY <1>2, TakesKeeps, StackFacts DEF KeptFrames
  <2>2. \A i \in 1..Len(stack') : \A k \in 1..i : SameFrame(stack'[k], stack[k])
    BY <1>2, <2>1, TakesKeeps DEF KeptFrames
  <2>3. QED
    BY <1>1, <2>1, <2>2 DEF Homed
<1>3. ASSUME NEW fr, Pushed(fr), stack # <<>>,
             \/ fr.node.type = "import"
             \/ Walks(fr) /\ fr.node.file = fr.file
             \/ fr.ctx = Top.ctx /\ fr.file = Top.file /\ Top.node.type # "import"
      PROVE  Homed'
  <2> SUFFICES ASSUME NEW i \in 1..Len(stack'), stack'[i].node.type # "import"
               PROVE  Home(stack', i)
    BY DEF Homed, Walks
  <2>1. /\ Len(stack) \in Nat /\ Len(stack) \in 1..Len(stack) /\ Top = stack[Len(stack)]
        /\ \A k \in 1..Len(stack) : SameFrame(stack'[k], stack[k])
        /\ stack'[Len(stack) + 1] = fr
    BY <1>3, TopFacts DEF Pushed
  <2>2. CASE i \in 1..Len(stack)
    <3>1. \A k \in 1..i : k \in 1..Len(stack)
      BY <2>1, <2>2
    <3>2. QED
      BY <1>1, <2>1, <2>2, <3>1
  <2>3. CASE i = Len(stack) + 1 /\ Walks(fr) /\ fr.node.file = fr.file
    <3>1. i \in 1..i
      BY <2>1, <2>3
    <3>2. QED
      BY <2>1, <2>3, <3>1
  <2>4. CASE /\ i = Len(stack) + 1
             /\ fr.ctx = Top.ctx /\ fr.file = Top.file /\ Top.node.type # "import"
    <3> DEFINE n == Len(stack)
    <3>1. Home(stack, n)
      BY <2>1, <2>4 DEF Homed
    <3>2. PICK h \in 1..n : /\ Walks(stack[h])
                            /\ stack[h].ctx["conns"] = stack[n].ctx["conns"]
                            /\ stack[h].node.file = stack[n].file
      BY <3>1
    <3>3. SameFrame(stack'[h], stack[h]) /\ h \in 1..i
      BY <2>1, <2>4
    <3>4. QED
      BY <2>1, <2>4, <3>2, <3>3 DEF SameFrame, Walks
  <2>5. QED
    BY <1>3, <2>1, <2>2, <2>3, <2>4, PushedPositions
<1>4. CASE Enters
  <2>1. PICK fr : Pushed(fr) /\ fr.ctx = Top.ctx /\ fr.file = Top.file
    BY <1>4, EntersPushes
  <2>2. QED
    BY <1>3, <1>4, <2>1 DEF Enters
<1>5. CASE OpensFile
  <2>1. PICK fr : Pushed(fr) /\ fr.node = Node /\ fr.file = Node.file
    BY <1>5, OpensPushes
  <2>2. QED
    BY <1>3, <1>5, <2>1 DEF OpensFile, Walks
<1>6. CASE Leaves
  <2>1. \A i \in 1..Len(stack') : i \in 1..Len(stack) /\ SameFrame(stack'[i], stack[i])
    BY <1>6, LeavesPops
  <2>2. \A i \in 1..Len(stack') : \A k \in 1..i : k \in 1..Len(stack')
    BY <1>6, LeavesPops, StackFacts
  <2>3. QED
    BY <1>1, <2>1, <2>2 DEF Homed
<1>7. CASE Ends
  BY <1>7 DEF Ends, Homed
<1>8. QED
  BY <1>2, <1>4, <1>5, <1>6, <1>7 DEF Shaped, Shapes

\* A step that leaves the connections of an activation and the activations up
\* to it as they are, and forgets no local name of theirs, keeps them.
LEMMA HeldKept ==
    ASSUME NEW i \in Nat, NEW c, Held(i, c),
           \A k \in 1..i : stack'[k].node = stack[k].node /\ stack'[k].ctx = stack[k].ctx,
           i \in 1..i,
           Conn(i, c)' = Conn(i, c),
           \A h \in 1..i : IsLocal(h, c) => IsLocal(h, c)'
    PROVE  Held(i, c)'
BY DEF Held, Walks

\* The activation that comes on top with the connections of the one below it,
\* or with a copy of them, sees what that one sees.
LEMMA HeldHandedOn ==
    ASSUME NEW n \in Nat, NEW c, Held(n, c), n \in 1..n,
           \A k \in 1..n : stack'[k].node = stack[k].node /\ stack'[k].ctx = stack[k].ctx,
           Conn(n + 1, c)' = Conn(n, c),
           \A h \in 1..n : IsLocal(h, c) => IsLocal(h, c)'
    PROVE  Held(n + 1, c)'
<1>1. CASE ~ (Conn(n, c) # Unset /\ Conn(n, c).local)
  BY <1>1 DEF Held
<1>2. CASE Conn(n, c) # Unset /\ Conn(n, c).local
  <2>1. PICK h \in 1..n : /\ Walks(stack[h])
                          /\ stack[h].node.file = Conn(n, c).by
                          /\ IsLocal(h, c)
    BY <1>2 DEF Held
  <2>2. h \in 1..(n + 1) /\ Walks(stack'[h]) /\ stack'[h].node.file = Conn(n + 1, c)'.by
    BY <2>1 DEF Walks
  <2>3. IsLocal(h, c)'
    BY <2>1
  <2>4. QED
    BY <2>2, <2>3 DEF Held, Walks
<1>3. QED
  BY <1>1, <1>2

\* The connections and their lists as they were.
Untouched == store'["conns"] = store["conns"] /\ store'["locals"] = store["locals"]

\* An activation copies the connections of the current one and lists none as
\* its own.
Copies ==
    /\ store'["conns"] = Append(store["conns"], Table("conns"))
    /\ store'["locals"] = Append(store["locals"], Blank("locals"))

\* A connection is registered in the current context.
Registers ==
    \E x, l :
        LET conn == [by |-> Top.file, local |-> l] IN
        \/ l = FALSE /\ store' = With("conns", x, conn)
        \/ /\ l = TRUE /\ Top.node.type # "import"
           /\ store' = Twice("conns", x, conn, "locals", x, TRUE)

\* What a step does to the connections.
ConnSteps ==
    \/ Untouched /\ (Takes \/ Stays \/ Leaves)
    \/ Untouched /\ Enters
    \/ Untouched /\ OpensFile /\ Node.type = "import"
    \/ Copies /\ OpensFile /\ Node.type # "import"
    \/ Leaves /\ Len(stack) > 1 /\ store' = Kept(store, Below)
    \/ EndInclude /\ Leaves
    \/ Takes /\ Registers
    \/ stack' = <<>>

\* Writing another table leaves them alone.
LEMMA WithUntouched ==
    ASSUME StoreType(store), NEW t \in Tables \ {"conns", "locals"}, NEW x, NEW v
    PROVE  /\ With(t, x, v)["conns"] = store["conns"]
           /\ With(t, x, v)["locals"] = store["locals"]
BY DEF With, StoreType, Tables

\* A @set writes a text, or a text and a value.
LEMMA SetWrites ==
    ASSUME ExecuteSet
    PROVE  \/ \E x, v : store' = With("env", x, v)
           \/ \E x, v, y, w :
                 store' = [With("env", x, v) EXCEPT !["data"][Top.ctx["data"]][y] = w]
<1> DEFINE typed == IF Node.rhs = "expr" THEN Seen(Node.of) ELSE Node.value
<1>1. CASE Node.rhs = "text"
  BY <1>1 DEF ExecuteSet
<1>2. CASE Node.rhs # "text" /\ typed \in {Unset, Null}
  BY <1>2 DEF ExecuteSet
<1>3. CASE Node.rhs # "text" /\ typed \notin {Unset, Null}
  <2>1. Bind(Node.var, AsText(typed), typed)
    BY <1>3 DEF ExecuteSet
  <2>2. QED
    BY <2>1 DEF Bind
<1>4. QED
  BY <1>1, <1>2, <1>3

\* Every step is of one of these kinds.
LEMMA ConnCases ==
    ASSUME IInv, Next
    PROVE  ConnSteps
<1>0. TypeOK /\ Rooted /\ Nested /\ StoreType(store)
  BY TypeParts DEF IInv
<1>1. ASSUME NEW t \in Tables \ {"conns", "locals"}, NEW x, NEW v, store' = With(t, x, v)
      PROVE  Untouched
  BY <1>0, <1>1, WithUntouched DEF Untouched
<1>2. ASSUME store' = store
      PROVE  Untouched
  BY <1>2 DEF Untouched
<1>3. ASSUME NEW x, NEW v, NEW y, NEW w,
             store' = [With("env", x, v) EXCEPT !["data"][Top.ctx["data"]][y] = w]
      PROVE  Untouched
  BY <1>0, <1>3 DEF Untouched, With, StoreType, Tables
<1>4. CASE ExecuteSet \/ ExecuteLabelled
  <2>1. Takes
    BY <1>0, <1>4, SetShaped, LabelledShaped
  <2>2. Untouched
    <3>1. "env" \in Tables \ {"conns", "locals"}
      BY DEF Tables
    <3>2. CASE ExecuteLabelled
      BY <1>1, <1>3, <3>1, <3>2 DEF ExecuteLabelled
    <3>3. CASE ExecuteSet
      BY <1>1, <1>3, <3>1, <3>3, SetWrites
    <3>4. QED
      BY <1>4, <3>2, <3>3
  <2>3. QED
    BY <2>1, <2>2 DEF ConnSteps
<1>5. CASE HandleConditional \/ HandleSwitch
  BY <1>0, <1>2, <1>5, BranchShaped DEF ConnSteps, HandleConditional, HandleSwitch
<1>6. CASE EndBlock \/ EndSet \/ EndForeach \/ EndPhase \/ EndCall
  <2>1. Leaves
    BY <1>0, <1>6, EndShaped
  <2>2. Untouched
    BY <1>1, <1>2, <1>6 DEF EndBlock, EndSet, EndForeach, EndPhase, EndCall, Tables
  <2>3. QED
    BY <2>1, <2>2 DEF ConnSteps
<1>7. CASE SetFromDirective \/ ExecuteForeach \/ BeginLoop \/ NextItem
  <2>1. Takes \/ Enters \/ Stays \/ Leaves
    BY <1>0, <1>7, SourceShaped, BeginLoopShaped, NextItemShaped
  <2>2. Untouched
    BY <1>1, <1>2, <1>7
       DEF SetFromDirective, ExecuteForeach, Evaluate, BeginLoop, NextItem, Tables
  <2>3. QED
    BY <2>1, <2>2 DEF ConnSteps
<1>8. CASE HandlePhase \/ HandleCall
  BY <1>0, <1>2, <1>8, LabelShaped DEF ConnSteps, HandlePhase, HandleCall
<1>9. CASE WalkDefine \/ ImportDefine
  <2>1. Takes
    BY <1>0, <1>9, DefineShaped
  <2>2. Untouched
    BY <1>1, <1>9 DEF WalkDefine, ImportDefine, Tables
  <2>3. QED
    BY <2>1, <2>2 DEF ConnSteps
<1>10. CASE WalkConnect \/ ImportConnect
  <2>1. Takes
    BY <1>0, <1>10, ConnectShaped
  <2>2. CASE WalkConnect
    <3>1. Node.local \in BOOLEAN /\ Top.node.type # "import"
      BY <1>0, <2>2, TakenFacts, NodeAssumption DEF WalkConnect, At, Ready
    <3>2. CASE Node.local = TRUE
      BY <2>1, <2>2, <3>1, <3>2 DEF WalkConnect, Registers, Twice, ConnSteps
    <3>3. CASE Node.local = FALSE
      BY <2>1, <2>2, <3>3 DEF WalkConnect, Registers, ConnSteps
    <3>4. QED
      BY <3>1, <3>2, <3>3
  <2>3. CASE ImportConnect
    BY <2>1, <2>3 DEF ImportConnect, Registers, ConnSteps
  <2>4. QED
    BY <1>10, <2>2, <2>3
<1>11. CASE WalkTransition \/ WalkEnv \/ WalkUnhandled \/ ImportEnv \/ ImportNothing
  <2>1. Takes
    BY <1>0, <1>11, SkipShaped
  <2>2. store' = store
    BY <1>11 DEF WalkTransition, WalkEnv, WalkUnhandled, ImportEnv, ImportNothing, Skip, Throw
  <2>3. QED
    BY <1>2, <2>1, <2>2 DEF ConnSteps
<1>12. CASE ExecuteInclude \/ ExecuteTemplate \/ ExecuteImport
  <2>0. stack # <<>>
    BY <1>12 DEF ExecuteInclude, ExecuteTemplate, ExecuteImport, At, Ready
  <2>1. (Takes \/ OpensFile) /\ stack # <<>>
    BY <1>0, <1>12, <2>0, FileShaped
  <2>2. OpensFile => stack' # Taken
    <3>1. ASSUME OpensFile PROVE Len(stack') # Len(Taken)
      BY <1>0, <2>1, <3>1, OpensPushes, TakenFacts, TopFacts DEF OpensFile, Pushed
    <3>2. QED
      BY <3>1
  <2>3. CASE Skip \/ \E e : Throw(e)
    <3>1. store' = store /\ stack' = Taken
      BY <2>3 DEF Skip, Throw
    <3>2. QED
      BY <1>2, <2>1, <2>2, <3>1 DEF ConnSteps
  <2>4. CASE ExecuteInclude /\ Open(ForkedCtx(IncludeTables), Forked(IncludeTables))
    <3>1. CASE Throw(AnError)
      BY <2>3, <3>1
    <3>2. CASE ~ Throw(AnError)
      <4>1. store' = Forked(IncludeTables) /\ resolving' = resolving \cup {Node.file}
        BY <2>4, <3>2 DEF Open
      <4>2. Copies
        BY <4>1 DEF Copies, Forked, IncludeTables, Tables
      <4>3. OpensFile
        BY <1>2, <2>1, <2>4, <3>2, <4>2 DEF Open, Takes
      <4>4. QED
        BY <2>4, <4>2, <4>3 DEF ConnSteps, ExecuteInclude, At
    <3>3. QED
      BY <3>1, <3>2
  <2>5. CASE ExecuteTemplate /\ Open(ForkedCtx(Tables), Bound(Forked(Tables)))
    <3>1. CASE Throw(AnError)
      BY <2>3, <3>1
    <3>2. CASE ~ Throw(AnError)
      <4> DEFINE st == Forked(Tables)
      <4>1. store' = Bound(st)
        BY <2>5, <3>2 DEF Open
      <4>2. st["conns"] = Append(store["conns"], Table("conns"))
        BY DEF Forked, Tables
      <4>3. st["locals"] = Append(store["locals"], Blank("locals"))
        BY DEF Forked, Tables
      <4>4. StoreType(st)
        BY <1>0, <2>0, ForkedType
      <4> HIDE DEF st
      <4>5. Bound(st)["conns"] = st["conns"] /\ Bound(st)["locals"] = st["locals"]
        BY <4>4 DEF Bound, StoreType, Tables
      <4>6. Copies
        BY <4>1, <4>2, <4>3, <4>5 DEF Copies
      <4>7. OpensFile
        BY <1>2, <2>1, <2>5, <3>2 DEF Open, Takes
      <4>8. QED
        BY <2>5, <4>6, <4>7 DEF ConnSteps, ExecuteTemplate, At
    <3>3. QED
      BY <3>1, <3>2
  <2>6. CASE ExecuteImport /\ Open(Top.ctx, store)
    <3>1. CASE Throw(AnError)
      BY <2>3, <3>1
    <3>2. CASE ~ Throw(AnError)
      <4>1. store' = store
        BY <2>6, <3>2 DEF Open
      <4>2. Node.type = "import"
        BY <2>6 DEF ExecuteImport
      <4>3. QED
        BY <1>2, <2>1, <4>1, <4>2 DEF ConnSteps
    <3>3. QED
      BY <3>1, <3>2
  <2>7. QED
    BY <1>12, <2>3, <2>4, <2>5, <2>6, FileCases
<1>13. CASE EndInclude
  BY <1>0, <1>13, EndFileShaped DEF ConnSteps
<1>14. CASE EndTemplate \/ Unwind
  <2>1. Leaves /\ store' = Kept(store, Below)
    BY <1>0, <1>14, EndFileShaped, UnwindShaped DEF EndTemplate, Unwind
  <2>2. Len(stack) > 1
    BY <1>0, <1>14, NotAlone DEF EndTemplate, Unwind, Done, Ready
  <2>3. QED
    BY <2>1, <2>2 DEF ConnSteps
<1>15. CASE EndImport \/ Catch
  <2>1. Leaves \/ Stays
    BY <1>0, <1>15, EndFileShaped, CatchShaped
  <2>2. store' = store
    BY <1>15 DEF EndImport, Catch
  <2>3. QED
    BY <1>2, <2>1, <2>2 DEF ConnSteps
<1>16. CASE EndDocument
  BY <1>16 DEF EndDocument, ConnSteps
<1>17. QED
  BY <1>4, <1>5, <1>6, <1>7, <1>8, <1>9, <1>10, <1>11, <1>12, <1>13, <1>14, <1>15,
     <1>16 DEF Next

\* Writing one entry of one table of a list of tables.
LEMMA EntryWritten ==
    ASSUME NEW S, NEW list \in Seq(S), \A p \in 1..Len(list) : DOMAIN list[p] = Conns,
           NEW k \in 1..Len(list), NEW x, NEW v,
           NEW new, new = [list EXCEPT ![k] = [list[k] EXCEPT ![x] = v]]
    PROVE  \A p \in 1..Len(list), c \in Conns :
              new[p][c] = IF p = k /\ c = x THEN v ELSE list[p][c]
OBVIOUS

\* The entries of the tables after a registration.
LEMMA RegisteredEntries ==
    ASSUME TypeOK, stack # <<>>, NEW x, NEW conn,
           \/ store' = With("conns", x, conn)
           \/ store' = Twice("conns", x, conn, "locals", x, TRUE)
    PROVE  /\ \A p \in 1..Len(store["conns"]), c \in Conns :
                 store'["conns"][p][c] = IF p = Top.ctx["conns"] /\ c = x THEN conn
                                         ELSE store["conns"][p][c]
           /\ \A p \in 1..Len(store["locals"]), c \in Conns :
                 store'["locals"][p][c] \in {store["locals"][p][c], TRUE}
           /\ (store' = Twice("conns", x, conn, "locals", x, TRUE) /\ x \in Conns)
              => store'["locals"][Top.ctx["locals"]][x] = TRUE
<1> DEFINE k == Top.ctx["conns"]
           m == Top.ctx["locals"]
<1>1. /\ DOMAIN store = Tables
      /\ store["conns"] \in Seq(Kind("conns")) /\ store["locals"] \in Seq(Kind("locals"))
      /\ "conns" \in Tables /\ "locals" \in Tables
      /\ k \in 1..Len(store["conns"]) /\ m \in 1..Len(store["locals"])
  BY TypeParts, TopFacts DEF StoreType, Tables
<1>2. /\ \A p \in 1..Len(store["conns"]) : store["conns"][p] \in Kind("conns")
      /\ \A p \in 1..Len(store["locals"]) : store["locals"][p] \in Kind("locals")
  BY <1>1
<1>3. /\ \A p \in 1..Len(store["conns"]) : DOMAIN store["conns"][p] = Conns
      /\ \A p \in 1..Len(store["locals"]) : DOMAIN store["locals"][p] = Conns
  BY <1>2 DEF Kind
<1> DEFINE yes == TRUE
           new == store'["locals"]
           list == store["locals"]
           both == Twice("conns", x, conn, "locals", x, TRUE)
<1> HIDE DEF k, m
<1>4. /\ store'["conns"] = [store["conns"] EXCEPT ![k] = [store["conns"][k] EXCEPT ![x] = conn]]
      /\ \/ store' # both /\ new = list
         \/ new = [list EXCEPT ![m] = [list[m] EXCEPT ![x] = yes]]
  <2>1. CASE store' # both /\ store' = With("conns", x, conn)
    BY <1>1, <2>1 DEF With, k
  <2>2. CASE store' = both
    BY <1>1, <2>2 DEF Twice, With, k, m
  <2>3. QED
    BY <2>1, <2>2
<1>5. \A p \in 1..Len(store["conns"]), c \in Conns :
         store'["conns"][p][c] = IF p = k /\ c = x THEN conn ELSE store["conns"][p][c]
  BY <1>1, <1>3, <1>4
<1>6. /\ list \in Seq(Kind("locals")) /\ m \in 1..Len(list)
      /\ \A p \in 1..Len(list) : DOMAIN list[p] = Conns
  BY <1>1, <1>3
<1> HIDE DEF yes, new, list, both
<1>7. \/ store' # both /\ new = list
      \/ \A p \in 1..Len(list), c \in Conns :
            new[p][c] = IF p = m /\ c = x THEN yes ELSE list[p][c]
  BY <1>4, <1>6, EntryWritten
<1>8. /\ \A p \in 1..Len(list), c \in Conns : new[p][c] \in {list[p][c], yes}
      /\ (store' = both /\ x \in Conns) => new[m][x] = yes
  BY <1>6, <1>7
<1>9. QED
  BY <1>5, <1>8 DEF k, m, yes, new, list, both

\* Where a name is registered as local, the file it is local to is walked.
LEMMA RegistersHeld ==
    ASSUME IInv, OwnInv, Takes, Registers
    PROVE  LocalsHeld'
<1>0. TypeOK /\ stack # <<>> /\ Paired /\ Layered /\ Homed /\ LocalsHeld
  BY DEF IInv, OwnInv, Takes
<1>1. PICK x, l : \/ l = FALSE /\ store' = With("conns", x, [by |-> Top.file, local |-> l])
                  \/ /\ l = TRUE /\ Top.node.type # "import"
                     /\ store' = Twice("conns", x, [by |-> Top.file, local |-> l],
                                       "locals", x, TRUE)
  BY DEF Registers
<1> DEFINE conn == [by |-> Top.file, local |-> l]
           n == Len(stack)
           both == Twice("conns", x, conn, "locals", x, TRUE)
<1>2. /\ \A p \in 1..Len(store["conns"]), c \in Conns :
            store'["conns"][p][c] = IF p = Top.ctx["conns"] /\ c = x THEN conn
                                    ELSE store["conns"][p][c]
      /\ \A p \in 1..Len(store["locals"]), c \in Conns :
            store'["locals"][p][c] \in {store["locals"][p][c], TRUE}
      /\ (store' = both /\ x \in Conns) => store'["locals"][Top.ctx["locals"]][x] = TRUE
      /\ l = FALSE \/ (l = TRUE /\ store' = both /\ Top.node.type # "import")
  <2>1. store' = With("conns", x, conn) \/ store' = both
    BY <1>1
  <2>2. l = FALSE \/ (l = TRUE /\ store' = both /\ Top.node.type # "import")
    BY <1>1
  <2> HIDE DEF conn
  <2>3. /\ \A p \in 1..Len(store["conns"]), c \in Conns :
              store'["conns"][p][c] = IF p = Top.ctx["conns"] /\ c = x THEN conn
                                      ELSE store["conns"][p][c]
        /\ \A p \in 1..Len(store["locals"]), c \in Conns :
              store'["locals"][p][c] \in {store["locals"][p][c], TRUE}
        /\ (store' = both /\ x \in Conns) => store'["locals"][Top.ctx["locals"]][x] = TRUE
    BY <1>0, <2>1, RegisteredEntries
  <2>4. QED
    BY <2>2, <2>3
<1>3. /\ n \in Nat /\ n \in 1..n /\ Len(stack') = n /\ Top = stack[n]
      /\ \A k \in 1..n : stack'[k].node = stack[k].node /\ stack'[k].ctx = stack[k].ctx
  BY <1>0, TopFacts, TakesKeeps DEF KeptFrames, SameFrame
<1>4. \A k \in 1..n : /\ stack[k].ctx["conns"] \in 1..Len(store["conns"])
                      /\ stack[k].ctx["locals"] \in 1..Len(store["locals"])
                      /\ stack[k].ctx["conns"] = stack[k].ctx["locals"]
  BY <1>0, StackFacts DEF Paired, Tables
<1>5. conn.by = Top.file /\ conn.local = l
  OBVIOUS
<1> HIDE DEF conn, n, both
<1> SUFFICES ASSUME NEW i \in 1..n, NEW c \in Conns
             PROVE  Held(i, c)'
  BY <1>3 DEF LocalsHeld
<1>6. i \in Nat /\ i \in 1..i /\ \A h \in 1..i : h \in 1..n
  BY <1>3
<1>7. Conn(i, c)' = store'["conns"][stack[i].ctx["conns"]][c]
  BY <1>3 DEF Conn
<1>8. \A h \in 1..i : IsLocal(h, c)' = store'["locals"][stack[h].ctx["locals"]][c]
  BY <1>3, <1>6 DEF IsLocal
<1>9. \A h \in 1..i : IsLocal(h, c) => IsLocal(h, c)'
  <2> SUFFICES ASSUME NEW h \in 1..i PROVE IsLocal(h, c) => IsLocal(h, c)'
    OBVIOUS
  <2> DEFINE p == stack[h].ctx["locals"]
  <2>1. p \in 1..Len(store["locals"])
    BY <1>4, <1>6
  <2>2. store'["locals"][p][c] \in {store["locals"][p][c], TRUE}
    BY <1>2, <2>1
  <2>3. (IsLocal(h, c)' = store'["locals"][p][c]) /\ (IsLocal(h, c) = store["locals"][p][c])
    BY <1>8 DEF IsLocal
  <2> HIDE DEF p
  <2>4. QED
    BY <2>2, <2>3, Zenon
<1>10. CASE stack[i].ctx["conns"] # Top.ctx["conns"] \/ c # x
  <2>1. Conn(i, c)' = Conn(i, c)
    <3> DEFINE p == stack[i].ctx["conns"]
    <3>1. p \in 1..Len(store["conns"])
      BY <1>4
    <3>2. store'["conns"][p][c] = IF p = Top.ctx["conns"] /\ c = x THEN conn
                                  ELSE store["conns"][p][c]
      BY <1>2, <3>1
    <3>3. Conn(i, c)' = store'["conns"][p][c] /\ Conn(i, c) = store["conns"][p][c]
      BY <1>7 DEF Conn
    <3>4. ~ (p = Top.ctx["conns"] /\ c = x)
      BY <1>10
    <3> HIDE DEF p
    <3>5. QED
      BY <3>2, <3>3, <3>4
  <2>2. Held(i, c)
    BY <1>0 DEF LocalsHeld, n
  <2>3. \A k \in 1..i : stack'[k].node = stack[k].node /\ stack'[k].ctx = stack[k].ctx
    BY <1>3, <1>6
  <2>4. QED
    BY <1>6, <1>9, <2>1, <2>2, <2>3, HeldKept
<1>11. CASE stack[i].ctx["conns"] = Top.ctx["conns"] /\ c = x
  <2>1. Conn(i, c)' = conn
    BY <1>2, <1>4, <1>7, <1>11
  <2>2. CASE l = FALSE
    BY <1>5, <2>1, <2>2 DEF Held
  <2>3. CASE l = TRUE /\ store' = both /\ Top.node.type # "import"
    <3>1. PICK h \in 1..n : /\ Walks(stack[h])
                            /\ stack[h].ctx["conns"] = stack[n].ctx["conns"]
                            /\ stack[h].node.file = stack[n].file
      BY <1>0, <1>3, <2>3 DEF Homed, n
    <3>2. ~ (i < h)
      <4>1. i < h => stack[i].ctx["conns"] < stack[h].ctx["conns"]
        BY <1>0, <3>1 DEF Layered, n
      <4>2. stack[i].ctx["conns"] \in Nat /\ stack[h].ctx["conns"] = stack[i].ctx["conns"]
        BY <1>3, <1>4, <1>11, <3>1
      <4>3. QED
        BY <4>1, <4>2
    <3>3. h \in 1..i
      BY <1>3, <1>6, <3>2
    <3>4. stack[h].ctx["locals"] = Top.ctx["locals"]
      BY <1>3, <1>4, <3>1
    <3>5. IsLocal(h, c)' = TRUE
      BY <1>2, <1>8, <1>11, <2>3, <3>3, <3>4
    <3>6. Walks(stack'[h]) /\ stack'[h].node.file = Conn(i, c)'.by
      BY <1>3, <1>5, <2>1, <3>1 DEF Walks
    <3>7. QED
      BY <3>3, <3>5, <3>6 DEF Held, Walks
  <2>4. QED
    BY <1>2, <2>2, <2>3
<1>12. QED
  BY <1>10, <1>11

\* The connections a file hands back are guarded by a file further out: those
\* that are local to the file itself stay behind.
LEMMA BubbledHeld ==
    ASSUME IInv, OwnInv, EndInclude, NEW i \in 1..(Len(stack) - 1), NEW c \in Conns
    PROVE  LET conn == IF stack[i].ctx["conns"] = Below.ctx["conns"] THEN Bubbled[c]
                       ELSE Conn(i, c)
           IN (conn # Unset /\ conn.local) =>
                 \E h \in 1..i : /\ Walks(stack[h])
                                 /\ stack[h].node.file = conn.by
                                 /\ IsLocal(h, c)
<1> DEFINE n == Len(stack)
<1>0. /\ TypeOK /\ stack # <<>> /\ Paired /\ Layered /\ LocalsHeld /\ Nested /\ Rooted
      /\ Top.node.type = "include"
  BY DEF IInv, OwnInv, EndInclude, Done, Ready
<1>1. /\ n \in Nat \ {0} /\ n \in 1..n /\ i \in 1..n /\ Top = stack[n]
      /\ n - 1 \in 1..n /\ Below = stack[n - 1]
  BY <1>0, TopFacts DEF Below
<1>2. \A k \in 1..n : /\ stack[k].ctx["conns"] \in Nat
                      /\ stack[k].ctx["conns"] = stack[k].ctx["locals"]
  BY <1>0, StackFacts DEF Paired, Tables
<1>3. CASE stack[i].ctx["conns"] # Below.ctx["conns"]
  BY <1>0, <1>1, <1>3 DEF LocalsHeld, Held
<1>4. CASE stack[i].ctx["conns"] = Below.ctx["conns"] /\ Table("locals")[c]
  <2>1. Bubbled[c] = Conn(i, c)
    BY <1>4 DEF Bubbled, Conn
  <2>2. QED
    BY <1>0, <1>1, <1>4, <2>1 DEF LocalsHeld, Held
<1>5. CASE stack[i].ctx["conns"] = Below.ctx["conns"] /\ ~ Table("locals")[c]
  <2>1. Bubbled[c] = Conn(n, c)
    BY <1>1, <1>5 DEF Bubbled, Conn, Table
  <2>2. SUFFICES ASSUME Conn(n, c) # Unset, Conn(n, c).local
                 PROVE  \E h \in 1..i : /\ Walks(stack[h])
                                        /\ stack[h].node.file = Conn(n, c).by
                                        /\ IsLocal(h, c)
    BY <1>5, <2>1
  <2>3. PICK h \in 1..n : /\ Walks(stack[h])
                          /\ stack[h].node.file = Conn(n, c).by
                          /\ IsLocal(h, c)
    BY <1>0, <1>1, <2>2 DEF LocalsHeld, Held
  <2>4. h # n
    BY <1>1, <1>5, <2>3 DEF IsLocal, Table
  <2>5. ~ (i < h)
    <3>1. i < h => stack[i].ctx["conns"] < stack[h].ctx["conns"]
      BY <1>0, <1>1, <2>3 DEF Layered
    <3>2. stack[h].ctx["conns"] <= Below.ctx["conns"]
      BY <1>0, <1>1, <2>4 DEF Nested, Tables
    <3>3. stack[i].ctx["conns"] \in Nat /\ stack[h].ctx["conns"] \in Nat
      BY <1>1, <1>2, <2>3
    <3>4. QED
      BY <1>5, <3>1, <3>2, <3>3
  <2>6. QED
    BY <1>1, <2>3, <2>5
<1>6. QED
  BY <1>3, <1>4, <1>5

\* Every step keeps the local connections where their file is walked.
LEMMA LocalsHeldStep ==
    ASSUME IInv, OwnInv, Next
    PROVE  LocalsHeld'
<1>0. TypeOK /\ Rooted /\ Nested /\ LocalsHeld /\ Paired /\ StoreType(store)
  BY TypeParts DEF IInv, OwnInv
<1> DEFINE n == Len(stack)
<1>1. n \in Nat /\ \A i \in 1..n : /\ i \in Nat /\ i \in 1..i
                                   /\ \A h \in 1..i : h \in 1..n
  BY <1>0, StackFacts
<1>2. ASSUME NEW i \in 1..n, NEW c \in Conns,
             \A k \in 1..i : SameFrame(stack'[k], stack[k]),
             store'["conns"][stack[i].ctx["conns"]] = store["conns"][stack[i].ctx["conns"]],
             \A h \in 1..i : store'["locals"][stack[h].ctx["locals"]]
                             = store["locals"][stack[h].ctx["locals"]]
      PROVE  Held(i, c)'
  <2>1. \A k \in 1..i : stack'[k].node = stack[k].node /\ stack'[k].ctx = stack[k].ctx
    BY <1>2 DEF SameFrame
  <2>2. Conn(i, c)' = Conn(i, c)
    BY <1>1, <1>2, <2>1 DEF Conn
  <2>3. \A h \in 1..i : IsLocal(h, c)' = IsLocal(h, c)
    BY <1>2, <2>1 DEF IsLocal
  <2>4. Held(i, c)
    BY <1>0 DEF LocalsHeld
  <2>5. QED
    BY <1>1, <2>1, <2>2, <2>3, <2>4, HeldKept
<1>3. CASE Untouched /\ (Takes \/ Stays)
  <2>1. Len(stack') = n /\ \A i \in 1..n : SameFrame(stack'[i], stack[i])
    BY <1>0, <1>3, TakesKeeps DEF KeptFrames
  <2>2. QED
    BY <1>1, <1>2, <1>3, <2>1 DEF LocalsHeld, Untouched
<1>4. CASE Untouched /\ Leaves
  <2>1. \A i \in 1..Len(stack') : i \in 1..n /\ SameFrame(stack'[i], stack[i])
    BY <1>0, <1>4, LeavesPops
  <2>2. \A i \in 1..Len(stack') : \A k \in 1..i : k \in 1..Len(stack')
    BY <1>0, <1>1, <1>4, LeavesPops
  <2>3. QED
    BY <1>1, <1>2, <1>4, <2>1, <2>2 DEF LocalsHeld, Untouched
<1>5. ASSUME NEW fr, Pushed(fr), stack # <<>>,
             \A i \in 1..n : /\ store'["conns"][stack[i].ctx["conns"]]
                                = store["conns"][stack[i].ctx["conns"]]
                             /\ store'["locals"][stack[i].ctx["locals"]]
                                = store["locals"][stack[i].ctx["locals"]],
             store'["conns"][fr.ctx["conns"]] = Table("conns")
      PROVE  LocalsHeld'
  <2> SUFFICES ASSUME NEW i \in 1..Len(stack'), NEW c \in Conns
               PROVE  Held(i, c)'
    BY DEF LocalsHeld
  <2>1. /\ n \in 1..n /\ Top = stack[n] /\ stack'[n + 1] = fr
        /\ \A k \in 1..n : SameFrame(stack'[k], stack[k])
    BY <1>0, <1>5, TopFacts DEF Pushed
  <2>2. CASE i \in 1..n
    BY <1>1, <1>2, <1>5, <2>1, <2>2
  <2>3. CASE i = n + 1
    <3>0. PICK m \in Nat : m = n
      BY <1>1
    <3>1. Conn(m + 1, c)' = Conn(m, c)
      BY <1>5, <2>1, <3>0 DEF Conn, Table
    <3>2. \A k \in 1..m : stack'[k].node = stack[k].node /\ stack'[k].ctx = stack[k].ctx
      BY <2>1, <3>0 DEF SameFrame
    <3>3. \A h \in 1..m : IsLocal(h, c) => IsLocal(h, c)'
      BY <1>5, <3>0, <3>2 DEF IsLocal
    <3>4. Held(m, c) /\ m \in 1..m
      BY <1>0, <2>1, <3>0 DEF LocalsHeld
    <3>5. Held(m + 1, c)'
      BY <3>1, <3>2, <3>3, <3>4, HeldHandedOn
    <3>6. i = m + 1
      BY <2>3, <3>0
    <3>7. QED
      BY <3>5, <3>6
  <2>4. QED
    BY <1>0, <1>5, <2>2, <2>3, PushedPositions
<1>6. CASE Untouched /\ Enters
  <2>1. PICK fr : Pushed(fr) /\ fr.ctx = Top.ctx
    BY <1>0, <1>6, EntersPushes
  <2>2. QED
    BY <1>5, <1>6, <2>1 DEF Untouched, Enters, Table
<1>7. CASE Untouched /\ OpensFile /\ Node.type = "import"
  <2>1. PICK fr : Pushed(fr) /\ \A t \in Tables \ Renewed : fr.ctx[t] = Top.ctx[t]
    BY <1>0, <1>7, OpensPushes
  <2>2. fr.ctx["conns"] = Top.ctx["conns"]
    BY <1>7, <2>1, RenewedPairs
  <2>3. QED
    BY <1>5, <1>7, <2>1, <2>2 DEF Untouched, OpensFile, Table
<1>8. CASE Copies /\ OpensFile /\ Node.type # "import"
  <2>1. PICK fr : Pushed(fr) /\ \A t \in Renewed : fr.ctx[t] = Len(store[t]) + 1
    BY <1>0, <1>8, OpensPushes
  <2>2. fr.ctx["conns"] = Len(store["conns"]) + 1
    BY <1>8, <2>1, RenewedPairs DEF OpensFile
  <2>3. store["conns"] \in Seq(Kind("conns")) /\ store["locals"] \in Seq(Kind("locals"))
    BY <1>0, RenewedPairs DEF StoreType
  <2>4. store'["conns"][Len(store["conns"]) + 1] = Table("conns")
    BY <1>8, <2>3 DEF Copies
  <2>5. \A i \in 1..n : /\ stack[i].ctx["conns"] \in 1..Len(store["conns"])
                        /\ stack[i].ctx["locals"] \in 1..Len(store["locals"])
    BY <1>0, StackFacts, RenewedPairs
  <2>6. \A i \in 1..n : /\ store'["conns"][stack[i].ctx["conns"]]
                           = store["conns"][stack[i].ctx["conns"]]
                        /\ store'["locals"][stack[i].ctx["locals"]]
                           = store["locals"][stack[i].ctx["locals"]]
    <3>1. \A p \in 1..Len(store["conns"]) : store'["conns"][p] = store["conns"][p]
      BY <1>8, <2>3 DEF Copies
    <3>2. \A p \in 1..Len(store["locals"]) : store'["locals"][p] = store["locals"][p]
      BY <1>8, <2>3 DEF Copies
    <3>3. QED
      BY <2>5, <3>1, <3>2
  <2>7. QED
    BY <1>5, <1>8, <2>1, <2>2, <2>4, <2>6 DEF OpensFile
<1>9. ASSUME Leaves, n > 1, NEW i \in 1..Len(stack')
      PROVE  /\ i \in 1..(n - 1) /\ i \in 1..n
             /\ \A k \in 1..i : /\ k \in 1..(n - 1)
                                /\ SameFrame(stack'[k], stack[k])
                                /\ \A t \in Tables : stack[k].ctx[t] \in 1..Below.ctx[t]
  <2>1. Len(stack') = n - 1 /\ \A k \in 1..(n - 1) : SameFrame(stack'[k], stack[k])
    BY <1>0, <1>9, LeavesPops
  <2>2. i \in 1..(n - 1) /\ i \in 1..n /\ n - 1 \in 1..n /\ \A k \in 1..i : k \in 1..(n - 1)
    BY <1>1, <1>9, <2>1
  <2>3. ASSUME NEW k \in 1..(n - 1), NEW t \in Tables
        PROVE  stack[k].ctx[t] \in 1..Below.ctx[t]
    <3>1. k \in 1..n /\ k <= n - 1
      BY <1>1
    <3>2. stack[k].ctx[t] <= stack[n - 1].ctx[t]
      BY <1>0, <2>2, <3>1 DEF Nested
    <3>3. stack[k].ctx[t] \in 1..Len(store[t]) /\ stack[n - 1].ctx[t] \in 1..Len(store[t])
      BY <1>0, <2>2, <3>1, StackFacts
    <3>4. Len(store[t]) \in Nat
      BY <1>0, StackFacts
    <3>5. QED
      BY <3>2, <3>3, <3>4 DEF Below
  <2>4. QED
    BY <2>1, <2>2, <2>3
<1>10. CASE Leaves /\ n > 1 /\ store' = Kept(store, Below)
  <2>1. \A t \in Tables : \A k \in 1..Below.ctx[t] : store'[t][k] = store[t][k]
    BY <1>0, <1>10, KeptType
  <2> SUFFICES ASSUME NEW i \in 1..Len(stack'), NEW c \in Conns
               PROVE  Held(i, c)'
    BY DEF LocalsHeld
  <2>2. i \in 1..n /\ \A k \in 1..i : SameFrame(stack'[k], stack[k])
    BY <1>9, <1>10
  <2>3. \A k \in 1..i : /\ stack[k].ctx["conns"] \in 1..Below.ctx["conns"]
                        /\ stack[k].ctx["locals"] \in 1..Below.ctx["locals"]
    BY <1>9, <1>10, RenewedPairs
  <2>4. /\ store'["conns"][stack[i].ctx["conns"]] = store["conns"][stack[i].ctx["conns"]]
        /\ \A h \in 1..i : store'["locals"][stack[h].ctx["locals"]]
                           = store["locals"][stack[h].ctx["locals"]]
    BY <1>1, <2>1, <2>2, <2>3, RenewedPairs
  <2>5. QED
    BY <1>2, <2>2, <2>4
<1>11. CASE EndInclude /\ Leaves
  <2> SUFFICES ASSUME NEW i \in 1..Len(stack'), NEW c \in Conns
               PROVE  Held(i, c)'
    BY DEF LocalsHeld
  <2>1. n > 1
    BY <1>0, <1>11, NotAlone DEF EndInclude, Done, Ready
  <2>2. /\ i \in 1..(n - 1) /\ i \in 1..n
        /\ \A k \in 1..i : /\ SameFrame(stack'[k], stack[k])
                           /\ stack[k].ctx["conns"] \in 1..Below.ctx["conns"]
                           /\ stack[k].ctx["locals"] \in 1..Below.ctx["locals"]
    BY <1>9, <1>11, <2>1, RenewedPairs
  <2> DEFINE kept == Kept(store, Below)
             b == Below.ctx["conns"]
             conn == IF stack[i].ctx["conns"] = b THEN Bubbled[c] ELSE Conn(i, c)
  <2>3. /\ DOMAIN kept = Tables /\ kept["conns"] \in Seq(Kind("conns"))
        /\ Len(kept["conns"]) = b
        /\ \A k \in 1..b : kept["conns"][k] = store["conns"][k]
        /\ \A k \in 1..Below.ctx["locals"] : kept["locals"][k] = store["locals"][k]
    BY <1>0, <2>1, KeptType, RenewedPairs DEF StoreType
  <2>4. store' = [kept EXCEPT !["conns"][b] = Bubbled]
    BY <1>11 DEF EndInclude
  <2>5. \A k \in 1..i : stack'[k].node = stack[k].node /\ stack'[k].ctx = stack[k].ctx
    BY <2>2 DEF SameFrame
  <2> HIDE DEF kept
  <2>6. store'["locals"] = kept["locals"]
    BY <2>3, <2>4, RenewedPairs
  <2>7. store'["conns"] = [kept["conns"] EXCEPT ![b] = Bubbled]
    BY <2>3, <2>4, RenewedPairs
  <2>8. Conn(i, c)' = conn
    <3>1. stack'[i].ctx = stack[i].ctx /\ stack[i].ctx["conns"] \in 1..b
      BY <1>1, <2>2, <2>5
    <3>2. QED
      BY <2>3, <2>7, <3>1 DEF Conn
  <2>9. \A h \in 1..i : IsLocal(h, c)' = IsLocal(h, c)
    BY <2>2, <2>3, <2>5, <2>6 DEF IsLocal
  <2>10. (conn # Unset /\ conn.local) =>
            \E h \in 1..i : /\ Walks(stack[h])
                            /\ stack[h].node.file = conn.by
                            /\ IsLocal(h, c)
    BY <1>11, <2>2, BubbledHeld
  <2> HIDE DEF conn
  <2>11. QED
    BY <2>5, <2>8, <2>9, <2>10 DEF Held, Walks
<1>12. CASE Takes /\ Registers
  BY <1>12, RegistersHeld
<1>13. CASE stack' = <<>>
  BY <1>13 DEF LocalsHeld
<1>14. QED
  BY <1>3, <1>4, <1>6, <1>7, <1>8, <1>10, <1>11, <1>12, <1>13, ConnCases DEF ConnSteps

\* The invariant holds initially ...
LEMMA InitOwn == Init => OwnInv
<1> SUFFICES ASSUME Init PROVE OwnInv
  OBVIOUS
<1>1. PICK request \in Requests :
         stack = <<Frame(Document, source[Main].nodes, Main, [t \in Tables |-> 1], request)>>
  BY DEF Init
<1> DEFINE fr == Frame(Document, source[Main].nodes, Main, [t \in Tables |-> 1], request)
<1>2. fr.node = Document /\ fr.file = Main /\ fr.ctx = [t \in Tables |-> 1]
  BY DEF Frame
<1>3. stack = <<fr>>
  BY <1>1
<1> HIDE DEF fr
<1>4. Len(stack) = 1 /\ stack[1] = fr /\ \A i \in 1..Len(stack) : i = 1
  BY <1>3
<1>5. Document.type = "document" /\ Document.file = Main
  BY DEF Document
<1>6. /\ store["conns"] = <<Blank("conns")>> /\ store["locals"] = <<Blank("locals")>>
      /\ "conns" \in Tables /\ "locals" \in Tables
  BY DEF Init, Tables
<1>7. CallstackTracks
  <2>1. OnCallstack = {}
    BY <1>2, <1>4, <1>5 DEF OnCallstack
  <2>2. callstack = <<>>
    BY DEF Init
  <2>3. QED
    BY <2>1, <2>2, FS_EmptySet DEF CallstackTracks
<1>8. Paired
  BY <1>2, <1>4, <1>6 DEF Paired
<1>9. Layered /\ Homed
  BY <1>2, <1>4, <1>5 DEF Layered, Homed, Walks
<1>10. LocalsHeld
  <2>1. \A c \in Conns : Conn(1, c) = Unset
    BY <1>2, <1>4, <1>6 DEF Conn, Blank
  <2>2. QED
    BY <1>4, <2>1 DEF LocalsHeld, Held
<1>11. QED
  BY <1>7, <1>8, <1>9, <1>10 DEF OwnInv

\* ... and every step preserves it.
LEMMA NextOwn == IInv /\ OwnInv /\ [Next]_vars => OwnInv'
<1> SUFFICES ASSUME IInv, OwnInv, [Next]_vars PROVE OwnInv'
  OBVIOUS
<1>1. CASE Next
  <2>1. /\ TypeOK /\ Rooted /\ Nested
        /\ CallstackTracks /\ Paired /\ Layered /\ Homed
    BY DEF IInv, OwnInv
  <2>2. Shaped
    BY <1>1, <2>1, StepShaped
  <2>3. CallstackTracks' /\ LocalsHeld'
    BY <1>1, <2>1, CallstackStep, LocalsHeldStep
  <2>4. Paired' /\ Layered' /\ Homed'
    BY <2>1, <2>2, PairedStep, LayeredStep, HomedStep
  <2>5. QED
    BY <2>3, <2>4 DEF OwnInv
<1>2. CASE UNCHANGED vars
  <2>1. stack' = stack /\ store' = store /\ callstack' = callstack
    BY <1>2 DEF vars
  <2>2. CallstackTracks'
    BY <2>1 DEF OwnInv, CallstackTracks, OnCallstack
  <2>3. Paired' /\ Layered' /\ Homed'
    BY <2>1 DEF OwnInv, Paired, Layered, Homed, Walks
  <2>4. LocalsHeld'
    BY <2>1 DEF OwnInv, LocalsHeld, Held, Conn, IsLocal, Walks
  <2>5. QED
    BY <2>2, <2>3, <2>4 DEF OwnInv
<1>3. QED
  BY <1>1, <1>2

\* A walk that ends, in whatever way, takes with it what it marked and what
\* was local to it: the callstack is that of the activations there are, and a
\* local connection is seen only while the file that declared it is walked
\* (engine.ts:273 and 462-485, engine-include.ts:142-153).
THEOREM FramesKeep == Spec => []FramesKeepTheirOwn
<1>1. OwnInv => LocalConnectionsStay
  BY DEF OwnInv, LocalsHeld, Held, Conn, Walks, Opens, LocalConnectionsStay
<1>2. IInv /\ OwnInv => FramesKeepTheirOwn
  BY <1>1 DEF IInv, OwnInv, FramesKeepTheirOwn
<1>3. QED
  BY <1>2, InitOwn, NextOwn, Invariance, PTL DEF Spec

=============================================================================
