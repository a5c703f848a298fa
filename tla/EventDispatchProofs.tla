------------------------ MODULE EventDispatchProofs ------------------------
(***************************************************************************)
(* Events, for any number of processes and documents and any               *)
(* configuration.                                                          *)
(***************************************************************************)
EXTENDS EventDispatch, NaturalLemmas, SequenceTheorems

-----------------------------------------------------------------------------
(* Concatenation *)

Joins(f, ss, n) ==
    f = [i \in 1..n |-> IF i = 1 THEN ss[i] ELSE f[i - 1] \o ss[i]]

\* The recursion of FlattenSeq has a solution.
LEMMA JoinsExist ==
    ASSUME NEW ss, NEW n \in Nat
    PROVE  \E f : Joins(f, ss, n)
<1> DEFINE J == { m \in Nat : \E f : Joins(f, ss, m) }
<1>1. \A m \in Nat : m \in J <=> \E f : Joins(f, ss, m)
  OBVIOUS
<1> HIDE DEF J
<1>2. 0 \in J /\ 1 \in J
  <2>1. Joins(<<>>, ss, 0) /\ Joins([i \in 1..1 |-> ss[1]], ss, 1)
    BY DEF Joins
  <2>2. QED
    BY <2>1, <1>1
<1>3. ASSUME NEW m \in 1..n, m \in J
      PROVE  m + 1 \in J
  <2>1. PICK g : Joins(g, ss, m)
    BY <1>1, <1>3
  <2> DEFINE h == [i \in 1..(m + 1) |-> IF i = 1 THEN ss[i] ELSE g[i - 1] \o ss[i]]
  <2>2. \A i \in 1..m : g[i] = IF i = 1 THEN ss[i] ELSE g[i - 1] \o ss[i]
    BY <2>1, Zenon DEF Joins
  <2>3. \A i \in 1..(m + 1) : h[i] = IF i = 1 THEN ss[i] ELSE g[i - 1] \o ss[i]
    BY Zenon
  <2>4. h = [i \in 1..(m + 1) |-> h[i]]
    OBVIOUS
  <2> HIDE DEF h
  <2>5. \A i \in 1..(m + 1) : h[i] = IF i = 1 THEN ss[i] ELSE h[i - 1] \o ss[i]
    BY <2>2, <2>3
  <2>6. Joins(h, ss, m + 1)
    BY <2>4, <2>5 DEF Joins
  <2>7. QED
    BY <2>6, <1>1
<1>4. \A i \in 1..n : i \in J
  BY <1>2, <1>3, HandedOn
<1>5. n \in J
  BY <1>2, <1>4
<1>6. QED
  BY <1>1, <1>5

\* Concat is the last of the sequences joined so far.
LEMMA ConcatJoins ==
    ASSUME NEW ss, Len(ss) \in Nat, Len(ss) # 0
    PROVE  \E f : /\ Concat(ss) = f[Len(ss)]
                  /\ f[1] = ss[1]
                  /\ \A i \in 1..Len(ss) : i < Len(ss) => f[i + 1] = f[i] \o ss[i + 1]
<1> DEFINE g == CHOOSE f : Joins(f, ss, Len(ss))
<1>1. Joins(g, ss, Len(ss))
  BY JoinsExist
<1>2. Concat(ss) = g[Len(ss)]
  BY DEF Concat, FlattenSeq, Joins
<1> HIDE DEF g
<1>3. \A i \in 1..Len(ss) : g[i] = IF i = 1 THEN ss[i] ELSE g[i - 1] \o ss[i]
  BY <1>1, Zenon DEF Joins
<1>4. g[1] = ss[1]
  BY <1>3
<1>5. ASSUME NEW i \in 1..Len(ss), i < Len(ss)
      PROVE  g[i + 1] = g[i] \o ss[i + 1]
  <2>1. i + 1 \in 1..Len(ss) /\ i + 1 # 1 /\ (i + 1) - 1 = i
    BY <1>5
  <2>2. QED
    BY <2>1, <1>3
<1>6. QED
  BY <1>2, <1>4, <1>5

\* Sequences over a set are concatenated to one over that set.
LEMMA ConcatType ==
    ASSUME NEW S, NEW ss \in Seq(Seq(S))
    PROVE  Concat(ss) \in Seq(S)
<1> Len(ss) \in Nat /\ DOMAIN ss = 1..Len(ss)
  OBVIOUS
<1>1. CASE Len(ss) = 0
  BY <1>1 DEF Concat, FlattenSeq
<1>2. CASE Len(ss) # 0
  <2>1. PICK f : /\ Concat(ss) = f[Len(ss)]
                 /\ f[1] = ss[1]
                 /\ \A i \in 1..Len(ss) : i < Len(ss) => f[i + 1] = f[i] \o ss[i + 1]
    BY <1>2, ConcatJoins
  <2> DEFINE J == { i \in 1..Len(ss) : f[i] \in Seq(S) }
  <2>2. 1 \in J
    BY <2>1, <1>2
  <2>3. ASSUME NEW i \in 1..Len(ss), i < Len(ss), i \in J
        PROVE  i + 1 \in J
    <3>1. i + 1 \in 1..Len(ss) /\ ss[i + 1] \in Seq(S) /\ f[i] \in Seq(S)
      BY <2>3
    <3>2. f[i] \o ss[i + 1] \in Seq(S)
      BY <3>1
    <3>3. QED
      BY <3>1, <3>2, <2>1, <2>3
  <2> HIDE DEF J
  <2>4. \A i \in 1..Len(ss) : i \in J
    BY <2>2, <2>3, HandedOn
  <2>5. QED
    BY <2>1, <2>4, <1>2 DEF J
<1>3. QED
  BY <1>1, <1>2

-----------------------------------------------------------------------------
(* The payload *)

\* A text read so far whose halves come in pairs, the last perhaps to come.
HalfWhole(s) ==
    \A k \in 1..Len(s) : /\ s[k] = "S" => k = Len(s) \/ s[k + 1] = "T"
                         /\ s[k] = "T" => k > 1 /\ s[k - 1] = "S"

LEMMA HalfWholeGrows ==
    ASSUME NEW s \in Seq(Parts), Len(s) > 0, HalfWhole(s),
           NEW x \in Parts, s[Len(s)] = "S" <=> x = "T"
    PROVE  /\ Append(s, x) \in Seq(Parts) /\ Len(Append(s, x)) > 0 /\ HalfWhole(Append(s, x))
           /\ Append(s, x)[Len(Append(s, x))] = x
<1> DEFINE n == Len(s)
           t == Append(s, x)
<1>1. n \in Nat /\ t \in Seq(Parts) /\ Len(t) = n + 1 /\ t[n + 1] = x /\ \A k \in 1..n : t[k] = s[k]
  BY AppendProperties
<1> HIDE DEF t
<1>2. ASSUME NEW k \in 1..n, t[k] = "S"
      PROVE  t[k + 1] = "T"
  <2>1. s[k] = "S"
    BY <1>1, <1>2
  <2>2. k = n \/ (k + 1 \in 1..n /\ s[k + 1] = "T")
    BY <1>1, <2>1 DEF HalfWhole
  <2>3. QED
    BY <1>1, <2>1, <2>2
<1>3. ASSUME NEW k \in 1..n, t[k] = "T"
      PROVE  k > 1 /\ t[k - 1] = "S"
  <2>1. s[k] = "T"
    BY <1>1, <1>3
  <2>2. k > 1 /\ k - 1 \in 1..n /\ s[k - 1] = "S"
    BY <1>1, <2>1 DEF HalfWhole
  <2>3. QED
    BY <1>1, <2>2
<1>4. x = "T" => n + 1 > 1 /\ t[(n + 1) - 1] = "S"
  BY <1>1
<1>5. \A k \in 1..(n + 1) : k \in 1..n \/ k = n + 1
  BY <1>1
<1>6. HalfWhole(t)
  <2> HIDE DEF n
  <2>1. QED
    BY <1>1, <1>2, <1>3, <1>4, <1>5 DEF HalfWhole
<1>7. QED
  BY <1>1, <1>6 DEF t

\* Evaluation leaves no half of a secret by itself.
LEMMA EvaluatedIsWhole ==
    ASSUME NEW d \in Seq(Parts), Whole(d)
    PROVE  Evaluated(d) \in Seq(Parts) /\ Whole(Evaluated(d))
<1> DEFINE ss == [i \in DOMAIN d |-> IF d[i] = "E" THEN <<"S", "T">> ELSE <<d[i]>>]
<1> Len(d) \in Nat /\ DOMAIN d = 1..Len(d)
  OBVIOUS
<1>1. \A i \in 1..Len(d) : d[i] \in Parts
  OBVIOUS
<1>2. DOMAIN ss = 1..Len(d) /\ \A i \in 1..Len(d) : ss[i] = IF d[i] = "E" THEN <<"S", "T">> ELSE <<d[i]>>
  OBVIOUS
<1>3. Evaluated(d) = Concat(ss)
  BY DEF Evaluated
<1>a. ss = [i \in 1..Len(d) |-> ss[i]]
  OBVIOUS
<1> HIDE DEF ss
<1>4. \A i \in 1..Len(d) : ss[i] \in Seq(Parts)
  <2>1. <<"S", "T">> \in Seq(Parts)
    BY DEF Parts
  <2>2. \A x \in Parts : <<x>> \in Seq(Parts)
    OBVIOUS
  <2>3. QED
    BY <1>1, <1>2, <2>1, <2>2
<1>5. ss \in [1..Len(d) -> Seq(Parts)]
  BY <1>4, <1>a
<1>6. Len(ss) = Len(d)
  BY <1>5
<1>7. CASE Len(d) = 0
  <2>1. Concat(ss) = ss /\ ss = <<>>
    BY <1>5, <1>6, <1>7 DEF Concat, FlattenSeq
  <2>2. Whole(<<>>) /\ <<>> \in Seq(Parts)
    BY DEF Whole
  <2>3. QED
    BY <2>1, <2>2, <1>3
<1>8. CASE Len(d) # 0
  <2>1. PICK f : /\ Concat(ss) = f[Len(ss)]
                 /\ f[1] = ss[1]
                 /\ \A i \in 1..Len(ss) : i < Len(ss) => f[i + 1] = f[i] \o ss[i + 1]
    BY <1>6, <1>8, ConcatJoins
  <2> DEFINE Sound(i) ==
        /\ f[i] \in Seq(Parts) /\ Len(f[i]) > 0 /\ HalfWhole(f[i])
        /\ (f[i][Len(f[i])] = "S") <=> (d[i] = "S")
      J == { i \in 1..Len(d) : Sound(i) }
  <2>2. Sound(1)
    <3>1. 1 \in 1..Len(d) /\ d[1] # "T" /\ d[1] \in Parts
      <4>1. 1 \in DOMAIN d
        BY <1>8
      <4>2. QED
        BY <1>1, <4>1 DEF Whole
    <3>2. f[1] = IF d[1] = "E" THEN <<"S", "T">> ELSE <<d[1]>>
      BY <2>1, <3>1, <1>2
    <3>3. CASE d[1] = "E"
      BY <3>2, <3>3 DEF Parts, HalfWhole
    <3>4. CASE d[1] # "E"
      <4>1. f[1] = <<d[1]>>
        BY <3>2, <3>4
      <4>2. Len(f[1]) = 1 /\ f[1][1] = d[1] /\ f[1] \in Seq(Parts)
        BY <4>1, <3>1
      <4>3. QED
        BY <4>2, <3>1 DEF HalfWhole
    <3>5. QED
      BY <3>3, <3>4
  <2>3. ASSUME NEW i \in 1..Len(d), i < Len(d), Sound(i)
        PROVE  Sound(i + 1)
    <3>1. i + 1 \in 1..Len(d) /\ (i + 1) - 1 = i /\ i + 1 > 1
      BY <2>3
    <3>2. d[i] = "S" <=> d[i + 1] = "T"
      BY <2>3, <3>1 DEF Whole
    <3>3. f[i + 1] = f[i] \o ss[i + 1] /\ d[i + 1] \in Parts
      BY <2>1, <2>3, <1>1, <1>6, <3>1
    <3> DEFINE s == f[i]
    <3>4. s \in Seq(Parts) /\ Len(s) > 0 /\ HalfWhole(s) /\ (s[Len(s)] = "S" <=> d[i] = "S")
      BY <2>3
    <3> HIDE DEF s
    <3>5. CASE d[i + 1] = "E"
      <4>1. f[i + 1] = s \o <<"S", "T">>
        BY <1>2, <3>1, <3>3, <3>5 DEF s
      <4> DEFINE t == Append(s, "S")
                 u == Append(t, "T")
      <4>2. /\ t \in Seq(Parts) /\ Len(t) > 0 /\ HalfWhole(t) /\ t[Len(t)] = "S"
        BY <3>2, <3>4, <3>5, HalfWholeGrows DEF Parts
      <4>3. u = s \o <<"S", "T">>
        <5>1. /\ \A x \in Parts : Append(s, x) \in Seq(Parts)
              /\ u \in Seq(Parts) /\ s \o <<"S", "T">> \in Seq(Parts)
          BY <3>4 DEF Parts
        <5>2. QED
          BY <3>4, <5>1 DEF Parts
      <4> HIDE DEF t
      <4>4. u \in Seq(Parts) /\ Len(u) > 0 /\ HalfWhole(u) /\ u[Len(u)] = "T"
        BY <4>2, HalfWholeGrows DEF Parts
      <4>5. QED
        BY <4>1, <4>3, <4>4, <3>5
    <3>6. CASE d[i + 1] # "E"
      <4>1. f[i + 1] = s \o <<d[i + 1]>>
        BY <1>2, <3>1, <3>3, <3>6 DEF s
      <4> DEFINE t == Append(s, d[i + 1])
      <4>2. t \in Seq(Parts) /\ Len(t) > 0 /\ HalfWhole(t) /\ t[Len(t)] = d[i + 1]
        BY <3>2, <3>3, <3>4, HalfWholeGrows
      <4>3. t = s \o <<d[i + 1]>>
        BY <3>3, <3>4, AppendIsConcat
      <4>4. QED
        BY <4>1, <4>2, <4>3
    <3>7. QED
      BY <3>5, <3>6
  <2>4. Sound(Len(d))
    <3>1. \A i \in 1..Len(d) : i \in J <=> Sound(i)
      OBVIOUS
    <3> HIDE DEF Sound, J
    <3>2. 1 \in J /\ \A i \in 1..Len(d) : i < Len(d) /\ i \in J => i + 1 \in J
      <4>1. \A i \in 1..Len(d) : i < Len(d) => i + 1 \in 1..Len(d)
        OBVIOUS
      <4>2. QED
        BY <2>2, <2>3, <3>1, <4>1, <1>8
    <3>3. \A i \in 1..Len(d) : i \in J
      BY <3>2, HandedOn
    <3>4. QED
      BY <3>1, <3>3, <1>8
  <2>5. d[Len(d)] # "S"
    <3>1. Len(d) \in DOMAIN d
      BY <1>8
    <3>2. QED
      BY <3>1, SMTT(30) DEF Whole
  <2>6. Evaluated(d) = f[Len(d)]
    BY <1>6, <1>3, <2>1
  <2> DEFINE e == f[Len(d)]
  <2>7. e \in Seq(Parts) /\ HalfWhole(e) /\ e[Len(e)] # "S"
    BY <2>4, <2>5
  <2> HIDE DEF e
  <2>8. Whole(e)
    <3>1. ASSUME NEW i \in DOMAIN e
          PROVE  /\ e[i] = "S" => i < Len(e) /\ e[i + 1] = "T"
                 /\ e[i] = "T" => i > 1 /\ e[i - 1] = "S"
      <4>1. i \in 1..Len(e) /\ Len(e) \in Nat
        BY <2>7
      <4>2. e[i] = "S" => i # Len(e)
        BY <2>7
      <4>3. QED
        BY <2>7, <4>1, <4>2 DEF HalfWhole
    <3>2. QED
      BY <3>1, Zenon DEF Whole
  <2>9. QED
    BY <2>6, <2>7, <2>8 DEF e
<1>9. QED
  BY <1>7, <1>8

\* Masking a text whose halves come in pairs leaves none.
LEMMA MaskedIsClean ==
    ASSUME NEW d \in Seq(Parts), Whole(d)
    PROVE  Masked(d) \in Seq(Parts \ {"S", "T"})
<1> DEFINE P == Parts \ {"S", "T"}
           ss == [i \in DOMAIN d |->
                     IF d[i] = "S" /\ i < Len(d) /\ d[i + 1] = "T" THEN <<"*">>
                     ELSE IF d[i] = "T" /\ i > 1 /\ d[i - 1] = "S" THEN <<>> ELSE <<d[i]>>]
<1> Len(d) \in Nat /\ DOMAIN d = 1..Len(d)
  OBVIOUS
<1>1. Masked(d) = Concat(ss)
  BY DEF Masked
<1>2. \A i \in 1..Len(d) : ss[i] = IF d[i] = "S" THEN <<"*">> ELSE IF d[i] = "T" THEN <<>> ELSE <<d[i]>>
  BY DEF Whole
<1>3. ss = [i \in 1..Len(d) |-> ss[i]]
  OBVIOUS
<1> HIDE DEF ss
<1>4. \A i \in 1..Len(d) : ss[i] \in Seq(P)
  <2>1. <<>> \in Seq(P) /\ <<"*">> \in Seq(P) /\ \A x \in P : <<x>> \in Seq(P)
    BY DEF Parts
  <2>2. \A i \in 1..Len(d) : d[i] \in Parts
    OBVIOUS
  <2>3. QED
    BY <1>2, <2>1, <2>2
<1> HIDE DEF P
<1>5. ss \in [1..Len(d) -> Seq(P)]
  BY <1>3, <1>4
<1>6. ss \in Seq(Seq(P))
  BY <1>5
<1>7. QED
  BY <1>1, <1>6, ConcatType DEF P

\* What leaves holds no half of a secret.
LEMMA PayloadIsClean ==
    ASSUME NEW d \in Seq(Parts), Whole(d), cfg \in Configs
    PROVE  Payload(d) \in Seq(Parts) /\ Clean(Payload(d))
<1> DEFINE m == Masked(Interpolated(d))
           P == Parts \ {"S", "T"}
<1>1. m \in Seq(P)
  BY EvaluatedIsWhole, MaskedIsClean DEF Interpolated
<1>2. MaxLength \in Nat
  BY EventAssumption DEF MaxLength
<1>3. Payload(d) = Capped(m)
  BY DEF Payload
<1> HIDE DEF m, P
<1>4. Capped(m) \in Seq(P)
  <2>1. CASE Len(m) > MaxLength
    <3>1. \A i \in 1..MaxLength : m[i] \in P
      BY <1>1, <1>2, <2>1
    <3>2. SubSeq(m, 1, MaxLength) \in Seq(P)
      BY <1>2, <3>1, SubSeqProperties
    <3>3. QED
      BY <2>1, <3>2 DEF Capped
  <2>2. QED
    BY <1>1, <2>1 DEF Capped
<1>5. \A e \in Seq(P) : e \in Seq(Parts) /\ Clean(e)
  BY DEF P, Clean
<1>6. QED
  BY <1>3, <1>4, <1>5

-----------------------------------------------------------------------------
(* Types, and where a render stands *)

Places == [node : 1..(Width + 1), transport : 1..Width]

\* A render stands at a transport of a node, or at the beginning of one.
Within ==
    \A p \in Procs : at[p].node \in DOMAIN doc[p] =>
        at[p].transport = 1 \/ at[p].transport \in DOMAIN Node(p).transports

LEMMA NodeFacts ==
    ASSUME TypeOK, NEW p \in Procs, at[p].node \in DOMAIN doc[p]
    PROVE  /\ at[p].node \in 1..Width /\ at[p].transport \in 1..Width
           /\ Node(p).data \in Seq(Parts) /\ Whole(Node(p).data)
           /\ Node(p).transports \in Seq(STRING) /\ Len(Node(p).transports) <= Width
           /\ Slot(p) \in Slots
<1> DEFINE d == doc[p]
           n == at[p].node
<1>1. d \in Documents[p]
  BY DEF TypeOK
<1>2. /\ d \in Seq([data : Seq(Parts), transports : Seq(STRING)]) /\ Len(d) <= Width
      /\ Len(d[n].transports) <= Width /\ Whole(d[n].data)
  BY <1>1, EventAssumption
<1>3. at[p] \in Places /\ Width \in Nat \ {0}
  BY EventAssumption DEF TypeOK, Places
<1> HIDE DEF d
<1>4. n \in 1..Len(d) /\ Len(d) \in Nat
  BY <1>2 DEF d
<1>5. d[n] \in [data : Seq(Parts), transports : Seq(STRING)]
  BY <1>2, <1>4, ElementOfSeq
<1>6. n \in 1..Width /\ at[p].transport \in 1..Width
  BY <1>2, <1>3, <1>4 DEF Places
<1>7. renders[p] \in Renders
  <2>1. renders[p] \in 1..MaxRenders[p]
    BY DEF TypeOK
  <2>2. QED
    BY <2>1, Zenon DEF Renders
<1>8. Slot(p) \in Slots
  BY <1>6, <1>7 DEF Slot, Slots
<1>9. QED
  BY <1>2, <1>5, <1>6, <1>8 DEF Node, d

\* A copy about to be handed over is a clean one of a transport of its node.
LEMMA HereFacts ==
    ASSUME TypeOK, Within, NEW p \in Procs, Handles(p)
    PROVE  /\ cfg \in Configs
           /\ at[p].transport \in 1..Len(Node(p).transports)
           /\ Copy(p) \in Copies /\ Copy(p).slot = Slot(p) /\ Clean(Copy(p).data)
<1>1. at[p].node \in DOMAIN doc[p] /\ cfg # NoConfig /\ Node(p).transports # <<>>
  BY DEF Handles, Rendering
<1>2. cfg \in Configs
  BY <1>1 DEF TypeOK
<1>3. at[p].transport \in 1..Len(Node(p).transports)
  <2>1. DOMAIN Node(p).transports = 1..Len(Node(p).transports) /\ 1 \in 1..Len(Node(p).transports)
    BY <1>1, NodeFacts
  <2>2. QED
    BY <1>1, <2>1 DEF Within
<1>4. Transport(p) \in STRING
  BY <1>1, <1>3, NodeFacts DEF Transport
<1>5. Payload(Node(p).data) \in Seq(Parts) /\ Clean(Payload(Node(p).data))
  BY <1>1, <1>2, NodeFacts, PayloadIsClean
<1>6. QED
  BY <1>1, <1>2, <1>3, <1>4, <1>5, NodeFacts DEF Copy, Copies

\* What a render may pass to.
LEMMA PassesTo ==
    ASSUME TypeOK, Within, NEW p \in Procs, at[p].node \in DOMAIN doc[p]
    PROVE  /\ NextNode(p) \in Places
           /\ Handles(p) => NextTransport(p) \in Places
           /\ Handles(p) /\ NextTransport(p) # NextNode(p) =>
                /\ NextTransport(p) = [node |-> at[p].node, transport |-> at[p].transport + 1]
                /\ NextTransport(p).transport \in DOMAIN Node(p).transports
<1>1. /\ at[p] \in Places /\ at[p].node \in 1..Width /\ Width \in Nat \ {0}
      /\ Node(p).transports \in Seq(STRING) /\ Len(Node(p).transports) <= Width
  BY NodeFacts, EventAssumption DEF TypeOK, Places
<1>2. NextNode(p) \in Places
  BY <1>1 DEF NextNode, Places
<1>3. ASSUME Handles(p), NextTransport(p) # NextNode(p)
      PROVE  /\ NextTransport(p) = [node |-> at[p].node, transport |-> at[p].transport + 1]
             /\ NextTransport(p).transport \in DOMAIN Node(p).transports
             /\ NextTransport(p) \in Places
  <2>1. at[p].transport \in 1..Len(Node(p).transports) /\ at[p].transport < Len(Node(p).transports)
    BY <1>3, HereFacts DEF NextTransport
  <2>2. NextTransport(p) = [at[p] EXCEPT !.transport = @ + 1]
    BY <2>1 DEF NextTransport
  <2>3. NextTransport(p) = [node |-> at[p].node, transport |-> at[p].transport + 1]
    BY <1>1, <2>2 DEF Places
  <2>4. at[p].transport + 1 \in 1..Len(Node(p).transports) /\ at[p].transport + 1 \in 1..Width
    BY <1>1, <2>1
  <2>5. QED
    BY <1>1, <2>3, <2>4 DEF Places
<1>4. QED
  BY <1>2, <1>3

\* What a step of a render does to where it stands.
LEMMA WalkMoves ==
    ASSUME TypeOK, Within, NEW p \in Procs, Walk(p)
    PROVE  /\ at[p].node \in DOMAIN doc[p]
           /\ \E w \in Places :
                /\ at' = [at EXCEPT ![p] = w]
                /\ w = NextNode(p) \/ (Handles(p) /\ w = NextTransport(p))
           /\ UNCHANGED <<cfg, doc, renders, up, flying, got>>
<1>1. at[p].node \in DOMAIN doc[p]
  BY DEF Walk, Ignore, NamesNone, NotAllowlisted, FireMcp, DispatchExternal, Handles, Rendering
<1>2. UNCHANGED <<cfg, doc, renders, up, flying, got>>
  BY DEF Walk, Ignore, NamesNone, NotAllowlisted, FireMcp, DispatchExternal, Advance
<1>3. \E w : /\ at' = [at EXCEPT ![p] = w]
             /\ w = NextNode(p) \/ (Handles(p) /\ w = NextTransport(p))
  BY DEF Walk, Ignore, NamesNone, NotAllowlisted, FireMcp, DispatchExternal, Advance
<1>4. QED
  BY <1>1, <1>2, <1>3, PassesTo

TypeInv == TypeOK /\ Within /\ NoHalfSecret

Words == {"masked", "truncated", "not allowlisted"}

Entries == [action : {"MASKED", "ALLOWED"}, slot : Slots, data : Seq(Parts)]

LEMMA NoticesType ==
    ASSUME TypeOK, NEW p \in Procs
    PROVE  NoticesAt(p) \in Seq(Words)
<1> DEFINE d == Node(p).data
<1>1. /\ <<>> \in Seq(Words) /\ <<"masked">> \in Seq(Words) /\ <<"truncated">> \in Seq(Words)
      /\ <<"masked">> \o <<>> \in Seq(Words) /\ <<>> \o <<"truncated">> \in Seq(Words)
      /\ <<"masked">> \o <<"truncated">> \in Seq(Words) /\ <<>> \o <<>> \in Seq(Words)
  BY DEF Words
<1>2. Notices(d) \in Seq(Words)
  <2> HIDE DEF d
  <2>1. QED
    BY <1>1, Zenon DEF Notices
<1>3. QED
  BY <1>1, <1>2 DEF NoticesAt

LEMMA EntriesType ==
    ASSUME TypeOK, Within, NEW p \in Procs, at[p].node \in DOMAIN doc[p]
    PROVE  /\ MaskAudit(p) \subseteq Entries /\ \A e \in MaskAudit(p) : Clean(e.data)
           /\ Handles(p) => /\ DispatchAudit(p) \subseteq Entries
                            /\ \A e \in DispatchAudit(p) : Clean(e.data)
<1>1. Slot(p) \in Slots
  BY NodeFacts
<1>2. <<>> \in Seq(Parts) /\ Clean(<<>>)
  BY DEF Clean
<1>3. MaskAudit(p) \subseteq Entries /\ \A e \in MaskAudit(p) : Clean(e.data)
  <2>1. [action |-> "MASKED", slot |-> Slot(p), data |-> <<>>] \in Entries
    BY <1>1, <1>2 DEF Entries
  <2>2. \A e \in MaskAudit(p) : e = [action |-> "MASKED", slot |-> Slot(p), data |-> <<>>]
    BY DEF MaskAudit
  <2>3. QED
    BY <1>2, <2>1, <2>2
<1>4. Handles(p) => Payload(Node(p).data) \in Seq(Parts) /\ Clean(Payload(Node(p).data))
  BY HereFacts DEF Copy, Copies
<1>5. QED
  BY <1>1, <1>3, <1>4 DEF DispatchAudit, Entries

\* Where a copy for t may end up.
LEMMA SinkFacts ==
    ASSUME cfg \in Configs, NEW t \in STRING
    PROVE  /\ SinkOf(t) = "" \/ SinkOf(t) \in Sinks
           /\ TypeOf(t) = "http" /\ SinkOf(t) # "" => SinkOf(t) \in Urls
<1>1. "file" \in DOMAIN cfg.transports => cfg.transports["file"].target \in Paths \cup {""}
  BY EventAssumption
<1>2. "http" \in DOMAIN cfg.transports => cfg.transports["http"].target \in Urls \cup {""}
  BY EventAssumption
<1>3. Configured("file").target \in Paths \cup {""} /\ Configured("http").target \in Urls \cup {""}
  BY <1>1, <1>2 DEF Configured
<1>4. CASE TypeOf(t) = "http"
  BY <1>3, <1>4 DEF SinkOf, Sinks
<1>5. CASE TypeOf(t) = "file"
  BY <1>3, <1>5 DEF SinkOf, Sinks
<1>6. CASE TypeOf(t) \notin {"http", "file"}
  BY <1>6 DEF SinkOf, Sinks
<1>7. QED
  BY <1>4, <1>5, <1>6

\* What a step of a render notes is of the right kind, and clean.
LEMMA WalkNotes ==
    ASSUME TypeInv, NEW p \in Procs, Walk(p)
    PROVE  /\ warnings' \in [Procs -> Seq(Words)]
           /\ audit' \subseteq Entries /\ \A e \in audit' : Clean(e.data)
           /\ Within'
<1> USE DEF TypeInv
<1>1. /\ at[p].node \in DOMAIN doc[p] /\ UNCHANGED <<cfg, doc>>
      /\ warnings \in [Procs -> Seq(Words)] /\ audit \subseteq Entries
      /\ \A e \in audit : Clean(e.data)
  BY WalkMoves DEF TypeOK, Words, Entries, NoHalfSecret
<1>2. \E x \in Seq(Words) : warnings' = [warnings EXCEPT ![p] = @ \o x]
  <2>1. NoticesAt(p) \in Seq(Words) /\ <<>> \in Seq(Words)
    BY NoticesType
  <2>2. NoticesAt(p) \o (IF cfg.onError = "warn" THEN <<"not allowlisted">> ELSE <<>>) \in Seq(Words)
    <3>1. <<"not allowlisted">> \in Seq(Words) /\ <<>> \in Seq(Words)
      BY DEF Words
    <3>2. \A x, y \in Seq(Words) : x \o y \in Seq(Words)
      OBVIOUS
    <3>3. QED
      BY <2>1, <3>1, <3>2, Zenon
  <2>3. QED
    BY <2>1, <2>2 DEF Walk, Ignore, NamesNone, NotAllowlisted, FireMcp, DispatchExternal, Advance
<1>3. warnings' \in [Procs -> Seq(Words)]
  BY <1>1, <1>2
<1>4. \E E : /\ audit' = audit \cup E
             /\ E = {} \/ E = MaskAudit(p) \/ (Handles(p) /\ E = MaskAudit(p) \cup DispatchAudit(p))
  BY DEF Walk, Ignore, NamesNone, NotAllowlisted, FireMcp, DispatchExternal, Advance
<1>5. audit' \subseteq Entries /\ \A e \in audit' : Clean(e.data)
  BY <1>1, <1>4, EntriesType
<1>6. Within'
  <2>1. PICK w \in Places : /\ at' = [at EXCEPT ![p] = w]
                            /\ w = NextNode(p) \/ (Handles(p) /\ w = NextTransport(p))
    BY WalkMoves
  <2>2. w.transport = 1 \/ (w.node = at[p].node /\ w.transport \in DOMAIN Node(p).transports)
    <3>1. CASE w = NextNode(p)
      BY <3>1 DEF NextNode
    <3>2. CASE w # NextNode(p)
      <4>1. /\ w = [node |-> at[p].node, transport |-> at[p].transport + 1]
            /\ w.transport \in DOMAIN Node(p).transports
        BY <1>1, <2>1, <3>2, PassesTo
      <4>2. w.node = at[p].node
        BY <4>1
      <4>3. QED
        BY <4>1, <4>2
    <3>3. QED
      BY <3>1, <3>2
  <2>3. at'[p] = w /\ \A q \in Procs : q # p => at'[q] = at[q]
    BY <2>1 DEF TypeOK
  <2>4. ASSUME NEW q \in Procs, at'[q].node \in DOMAIN doc'[q]
        PROVE  at'[q].transport = 1 \/ at'[q].transport \in DOMAIN Node(q)'.transports
    BY <1>1, <2>2, <2>3, <2>4 DEF Within, Node
  <2>5. QED
    BY <2>4 DEF Within
<1>7. QED
  BY <1>3, <1>5, <1>6

LEMMA InitTypes == Init => TypeInv
<1> SUFFICES ASSUME Init
             PROVE  TypeInv
  OBVIOUS
<1>1. Width \in Nat \ {0} /\ MaxRenders \in [Procs -> Nat \ {0}]
  BY EventAssumption
<1>2. DOMAIN doc = Procs /\ \A p \in Procs : doc[p] \in Documents[p]
  BY DEF Init
<1>3. renders \in [Procs -> Nat] /\ \A p \in Procs : renders[p] \in 1..MaxRenders[p]
  BY <1>1 DEF Init
<1>4. at \in [Procs -> [node : 1..(Width + 1), transport : 1..Width]]
  BY <1>1 DEF Init
<1>5. TypeOK
  BY <1>2, <1>3, <1>4 DEF Init, TypeOK
<1>6. Within /\ NoHalfSecret
  BY DEF Init, Within, NoHalfSecret
<1>7. QED
  BY <1>5, <1>6 DEF TypeInv

\* Types hold, and everything stays clean, through the steps of a render.
LEMMA WalkTypes ==
    ASSUME TypeInv, NEW p \in Procs, Walk(p)
    PROVE  TypeInv'
<1> USE DEF TypeInv
<1>1. /\ UNCHANGED <<cfg, doc, renders, up, flying, got>>
      /\ at' \in [Procs -> Places]
  BY WalkMoves, ZenonT(30) DEF TypeOK, Places
<1>2. warnings' \in [Procs -> Seq(Words)] /\ audit' \subseteq Entries /\ Within'
  BY WalkNotes
<1>3. worker' \in [Procs -> BOOLEAN]
  BY DEF TypeOK, Walk, Ignore, NamesNone, NotAllowlisted, FireMcp, DispatchExternal
<1>4. Handles(p) => Copy(p) \in Copies /\ Slot(p) \in Slots /\ Clean(Copy(p).data)
  BY HereFacts DEF Copies
<1>5. sent' = sent \/ (Handles(p) /\ sent' = [sent EXCEPT ![p] = Append(@, Slot(p))])
  BY DEF Walk, Ignore, NamesNone, NotAllowlisted, FireMcp, DispatchExternal
<1>6. queue' = queue \/ (Handles(p) /\ queue' = [queue EXCEPT ![p] = Append(@, Copy(p))])
  BY DEF Walk, Ignore, NamesNone, NotAllowlisted, FireMcp, DispatchExternal
<1>7. events' = events \/ (Handles(p) /\ events' = [events EXCEPT ![p] = Append(@, Copy(p))])
  BY DEF Walk, Ignore, NamesNone, NotAllowlisted, FireMcp, DispatchExternal
<1>8. sent' \in [Procs -> Seq(Slots)]
  <2>1. sent \in [Procs -> Seq(Slots)]
    BY DEF TypeOK
  <2>2. CASE sent' = sent
    BY <2>1, <2>2
  <2>3. CASE Handles(p) /\ sent' = [sent EXCEPT ![p] = Append(@, Slot(p))]
    <3>1. Append(sent[p], Slot(p)) \in Seq(Slots)
      BY <1>4, <2>1, <2>3
    <3>2. QED
      BY <2>1, <2>3, <3>1
  <2>4. QED
    BY <1>5, <2>2, <2>3
<1>9. ASSUME NEW Q \in [Procs -> Seq(Copies)], \A q \in Procs : \A i \in DOMAIN Q[q] : Clean(Q[q][i].data),
             Handles(p)
      PROVE  /\ [Q EXCEPT ![p] = Append(@, Copy(p))] \in [Procs -> Seq(Copies)]
             /\ \A q \in Procs : \A i \in DOMAIN [Q EXCEPT ![p] = Append(@, Copy(p))][q] :
                    Clean([Q EXCEPT ![p] = Append(@, Copy(p))][q][i].data)
  <2> DEFINE R == [Q EXCEPT ![p] = Append(@, Copy(p))]
  <2>1. R \in [Procs -> Seq(Copies)] /\ R[p] = Append(Q[p], Copy(p)) /\ \A q \in Procs : q # p => R[q] = Q[q]
    BY <1>4, <1>9
  <2> HIDE DEF R
  <2>2. \A i \in DOMAIN R[p] : Clean(R[p][i].data)
    <3>1. Q[p] \in Seq(Copies) /\ DOMAIN R[p] = 1..(Len(Q[p]) + 1) /\ DOMAIN Q[p] = 1..Len(Q[p])
      BY <2>1, <1>9
    <3>2. \A i \in 1..(Len(Q[p]) + 1) : R[p][i] = IF i = Len(Q[p]) + 1 THEN Copy(p) ELSE Q[p][i]
      BY <2>1, <3>1, <1>4, <1>9
    <3>3. QED
      BY <1>4, <1>9, <3>1, <3>2
  <2>3. QED
    BY <1>9, <2>1, <2>2 DEF R
<1>10. queue' \in [Procs -> Seq(Copies)] /\ \A q \in Procs : \A i \in DOMAIN queue'[q] : Clean(queue'[q][i].data)
  <2>1. /\ queue \in [Procs -> Seq(Copies)]
        /\ \A q \in Procs : \A i \in DOMAIN queue[q] : Clean(queue[q][i].data)
    BY DEF TypeOK, NoHalfSecret
  <2>2. CASE queue' = queue
    BY <2>1, <2>2
  <2>3. CASE Handles(p) /\ queue' = [queue EXCEPT ![p] = Append(@, Copy(p))]
    BY <2>1, <2>3, <1>9
  <2>4. QED
    BY <1>6, <2>2, <2>3
<1>11. events' \in [Procs -> Seq(Copies)] /\ \A q \in Procs : \A i \in DOMAIN events'[q] : Clean(events'[q][i].data)
  <2>1. /\ events \in [Procs -> Seq(Copies)]
        /\ \A q \in Procs : \A i \in DOMAIN events[q] : Clean(events[q][i].data)
    BY DEF TypeOK, NoHalfSecret
  <2>2. CASE events' = events
    BY <2>1, <2>2
  <2>3. CASE Handles(p) /\ events' = [events EXCEPT ![p] = Append(@, Copy(p))]
    BY <2>1, <2>3, <1>9
  <2>4. QED
    BY <1>7, <2>2, <2>3
<1>12. TypeOK'
  BY <1>1, <1>2, <1>3, <1>8, <1>10, <1>11 DEF TypeOK, Places, Words, Entries
<1>13. NoHalfSecret'
  BY <1>1, <1>10, <1>11, WalkNotes DEF NoHalfSecret
<1>14. QED
  BY <1>2, <1>12, <1>13

LEMMA RenderTypes ==
    ASSUME TypeInv, NEW p \in Procs, Render(p)
    PROVE  TypeInv'
<1> USE DEF TypeInv
<1>1. UNCHANGED <<cfg, up, worker, audit, sent, queue, flying, got>>
  BY DEF Render
<1>2. /\ DOMAIN doc' = Procs /\ \A q \in Procs : doc'[q] \in Documents[q]
      /\ \A q \in Procs : q # p => doc'[q] = doc[q]
  BY DEF Render, TypeOK
<1>3. renders' \in [Procs -> Nat] /\ \A q \in Procs : renders'[q] \in 1..MaxRenders[q]
  <2>1. renders \in [Procs -> Nat] /\ \A q \in Procs : renders[q] \in 1..MaxRenders[q]
    BY DEF TypeOK
  <2>2. MaxRenders \in [Procs -> Nat \ {0}] /\ renders[p] < MaxRenders[p]
    BY EventAssumption DEF Render
  <2>3. renders' = [renders EXCEPT ![p] = @ + 1] /\ renders[p] + 1 \in 1..MaxRenders[p]
    BY <2>1, <2>2 DEF Render
  <2>4. QED
    BY <2>1, <2>3
<1>4. [node |-> 1, transport |-> 1] \in Places
  <2>1. Width \in Nat \ {0}
    BY EventAssumption
  <2>2. 1 \in 1..Width /\ 1 \in 1..(Width + 1)
    BY <2>1
  <2>3. QED
    BY <2>2 DEF Places
<1>5. /\ at' \in [Procs -> Places] /\ at'[p] = [node |-> 1, transport |-> 1]
      /\ \A q \in Procs : q # p => at'[q] = at[q]
  BY <1>4 DEF Render, TypeOK, Places
<1>6. /\ events' \in [Procs -> Seq(Copies)] /\ events'[p] = <<>>
      /\ \A q \in Procs : q # p => events'[q] = events[q]
  <2>1. events \in [Procs -> Seq(Copies)] /\ events' = [events EXCEPT ![p] = <<>>]
    BY DEF Render, TypeOK
  <2>2. <<>> \in Seq(Copies)
    BY EmptySeq
  <2>3. QED
    BY <2>1, <2>2
<1>7. warnings' \in [Procs -> Seq(Words)]
  <2>1. warnings \in [Procs -> Seq(Words)] /\ warnings' = [warnings EXCEPT ![p] = <<>>]
    BY DEF Render, TypeOK, Words
  <2>2. <<>> \in Seq(Words)
    BY EmptySeq
  <2>3. QED
    BY <2>1, <2>2
<1>8. TypeOK'
  BY <1>1, <1>2, <1>3, <1>5, <1>6, <1>7 DEF TypeOK, Places, Words
<1>9. NoHalfSecret'
  <2>1. \A q \in Procs : \A i \in DOMAIN events'[q] : Clean(events'[q][i].data)
    BY <1>6 DEF NoHalfSecret
  <2>2. QED
    BY <1>1, <2>1 DEF NoHalfSecret
<1>10. Within'
  <2>1. at'[p].transport = 1
    BY <1>5
  <2>2. \A q \in Procs : at'[q].node \in DOMAIN doc'[q] =>
            at'[q].transport = 1 \/ at'[q].transport \in DOMAIN doc'[q][at'[q].node].transports
    BY <1>2, <1>5, <2>1 DEF Within, Node
  <2>3. QED
    BY <2>2 DEF Within, Node
<1>11. QED
  BY <1>8, <1>9, <1>10

\* The steps behind the render touch only what was handed over, the requests
\* and the sinks.
LEMMA BusTypes ==
    ASSUME TypeInv,
           UNCHANGED <<cfg, doc, renders, at, worker, events, warnings, audit, sent>>,
           up' \in [Procs -> BOOLEAN], queue' \in [Procs -> Seq(Copies)],
           flying' \subseteq Copies, got' \in [Sinks -> Seq(Slots)],
           \A q \in Procs : \A i \in DOMAIN queue'[q] : Clean(queue'[q][i].data),
           \A c \in flying' : Clean(c.data)
    PROVE  TypeInv'
<1>1. TypeOK'
  BY DEF TypeInv, TypeOK
<1>2. Within'
  BY DEF TypeInv, Within, Node
<1>3. NoHalfSecret'
  BY DEF TypeInv, NoHalfSecret
<1>4. QED
  BY <1>1, <1>2, <1>3 DEF TypeInv

\* What Work takes.
LEMMA WorkTakes ==
    ASSUME TypeInv, NEW p \in Procs, Work(p)
    PROVE  /\ Head(queue[p]) \in Copies /\ Head(queue[p]) = queue[p][1] /\ 1 \in DOMAIN queue[p]
           /\ queue' \in [Procs -> Seq(Copies)]
           /\ \A q \in Procs : q # p => queue'[q] = queue[q]
           /\ \A i \in DOMAIN queue'[p] : i + 1 \in DOMAIN queue[p] /\ queue'[p][i] = queue[p][i + 1]
<1>1. queue \in [Procs -> Seq(Copies)] /\ queue[p] # <<>> /\ queue' = [queue EXCEPT ![p] = Tail(@)]
  BY DEF TypeInv, TypeOK, Work
<1> DEFINE s == queue[p]
<1>2. s \in Seq(Copies) /\ s # <<>>
  BY <1>1
<1>3. queue' \in [Procs -> Seq(Copies)] /\ queue'[p] = Tail(s) /\ \A q \in Procs : q # p => queue'[q] = queue[q]
  BY <1>1
<1> HIDE DEF s
<1>4. Head(s) \in Copies /\ Head(s) = s[1] /\ 1 \in DOMAIN s
  BY <1>2
<1>5. \A i \in DOMAIN Tail(s) : i + 1 \in DOMAIN s /\ Tail(s)[i] = s[i + 1]
  BY <1>2
<1>6. QED
  BY <1>3, <1>4, <1>5 DEF s

LEMMA WorkTypes ==
    ASSUME TypeInv, NEW p \in Procs, Work(p)
    PROVE  TypeInv'
<1> DEFINE c == Head(queue[p])
<1>1. UNCHANGED <<cfg, doc, renders, at, up, worker, events, warnings, audit, sent>>
  BY DEF Work, render
<1>2. c \in Copies /\ Clean(c.data) /\ c.slot \in Slots
  BY WorkTakes DEF TypeInv, NoHalfSecret, Copies
<1>3. /\ flying' = flying \/ flying' = flying \cup {c}
      /\ got' = got \/ got' = [got EXCEPT ![SinkOf(c.transport)] = Append(@, c.slot)]
  BY DEF Work
<1>4. queue' \in [Procs -> Seq(Copies)] /\ \A q \in Procs : \A i \in DOMAIN queue'[q] : Clean(queue'[q][i].data)
  BY WorkTakes DEF TypeInv, NoHalfSecret
<1> HIDE DEF c
<1>5. flying' \subseteq Copies /\ \A e \in flying' : Clean(e.data)
  BY <1>2, <1>3 DEF TypeInv, TypeOK, NoHalfSecret
<1>6. got' \in [Sinks -> Seq(Slots)]
  <2>1. got \in [Sinks -> Seq(Slots)]
    BY DEF TypeInv, TypeOK
  <2>2. \A s \in Sinks : Append(got[s], c.slot) \in Seq(Slots)
    BY <1>2, <2>1
  <2>3. QED
    BY <1>3, <2>1, <2>2
<1>7. up' \in [Procs -> BOOLEAN]
  BY <1>1 DEF TypeInv, TypeOK
<1>8. QED
  BY <1>1, <1>4, <1>5, <1>6, <1>7, BusTypes

LEMMA ExitTypes ==
    ASSUME TypeInv, NEW p \in Procs, Exit(p)
    PROVE  TypeInv'
<1>1. UNCHANGED <<cfg, doc, renders, at, worker, events, warnings, audit, sent, got>>
  BY DEF Exit
<1>2. queue' \in [Procs -> Seq(Copies)] /\ \A q \in Procs : queue'[q] = <<>> \/ queue'[q] = queue[q]
  <2>1. queue \in [Procs -> Seq(Copies)] /\ queue' = [queue EXCEPT ![p] = <<>>]
    BY DEF Exit, TypeInv, TypeOK
  <2>2. <<>> \in Seq(Copies)
    BY EmptySeq
  <2>3. QED
    BY <2>1, <2>2
<1>3. \A q \in Procs : \A i \in DOMAIN queue'[q] : Clean(queue'[q][i].data)
  BY <1>2 DEF TypeInv, NoHalfSecret
<1>4. flying' \subseteq flying
  BY DEF Exit
<1>5. up' \in [Procs -> BOOLEAN] /\ got' \in [Sinks -> Seq(Slots)]
  BY <1>1 DEF Exit, TypeInv, TypeOK
<1>6. flying' \subseteq Copies /\ \A c \in flying' : Clean(c.data)
  BY <1>4 DEF TypeInv, TypeOK, NoHalfSecret
<1>7. QED
  BY <1>1, <1>2, <1>3, <1>5, <1>6, BusTypes

LEMMA LandsTypes ==
    ASSUME TypeInv, NEW c \in flying, Arrives(c) \/ Fails(c)
    PROVE  TypeInv'
<1>1. UNCHANGED <<cfg, doc, renders, at, up, worker, events, warnings, audit, sent, queue>>
  BY DEF Arrives, Fails, render
<1>2. flying' \subseteq flying
  BY DEF Arrives, Fails
<1>3. c.slot \in Slots /\ got \in [Sinks -> Seq(Slots)]
  BY DEF TypeInv, TypeOK, Copies
<1>4. got' \in [Sinks -> Seq(Slots)]
  <2>1. \A s \in Sinks : Append(got[s], c.slot) \in Seq(Slots)
    BY <1>3
  <2>2. QED
    BY <1>3, <2>1 DEF Arrives, Fails
<1>5. flying' \subseteq Copies /\ \A e \in flying' : Clean(e.data)
  BY <1>2 DEF TypeInv, TypeOK, NoHalfSecret
<1>6. /\ queue' \in [Procs -> Seq(Copies)] /\ up' \in [Procs -> BOOLEAN]
      /\ \A q \in Procs : \A i \in DOMAIN queue'[q] : Clean(queue'[q][i].data)
  BY <1>1 DEF TypeInv, TypeOK, NoHalfSecret
<1>7. QED
  BY <1>1, <1>4, <1>5, <1>6, BusTypes

LEMMA IdleTypes == TypeInv /\ UNCHANGED vars => TypeInv'
<1> SUFFICES ASSUME TypeInv, UNCHANGED vars
             PROVE  TypeInv'
  OBVIOUS
<1>1. TypeOK'
  BY DEF vars, render, TypeInv, TypeOK
<1>2. Within'
  BY DEF vars, render, TypeInv, Within, Node
<1>3. NoHalfSecret'
  BY DEF vars, render, TypeInv, NoHalfSecret
<1>4. QED
  BY <1>1, <1>2, <1>3 DEF TypeInv

\* The kinds of steps.
LEMMA Steps ==
    ASSUME [Next]_vars
    PROVE  \/ \E p \in Procs : Walk(p) \/ Render(p) \/ Work(p) \/ Exit(p)
           \/ \E c \in flying : Arrives(c) \/ Fails(c)
           \/ UNCHANGED vars
BY DEF Next, Walk

LEMMA NextTypes == TypeInv /\ [Next]_vars => TypeInv'
BY Steps, WalkTypes, RenderTypes, WorkTypes, ExitTypes, LandsTypes, IdleTypes

\* Masking comes after the evaluation and before the cut: nothing that is
\* handed over, returned or audited holds half a secret (executeEvent, event.ts
\* 15-81), whatever the documents, the configuration and the processes.
THEOREM NothingHalf == Spec => []NoHalfSecret
<1>1. TypeInv => NoHalfSecret
  BY DEF TypeInv
<1>2. QED
  BY InitTypes, NextTypes, <1>1, PTL DEF Spec

-----------------------------------------------------------------------------
(* Order *)

\* Everything of p is behind the place where its render stands.
SentSound(p) ==
    /\ Ordered(sent[p])
    /\ \A i \in DOMAIN sent[p] : sent[p][i].from = p /\ Earlier(sent[p][i], Slot(p))

EventsSound(p) ==
    /\ Ordered(SlotsOf(events[p]))
    /\ \A i \in DOMAIN events[p] : Earlier(events[p][i].slot, Slot(p))

PlacesIn(slots, r) == { Place(slots[i]) : i \in { i \in DOMAIN slots : slots[i].render = r } }

PlacesOf(copies) == { Place(copies[i].slot) : i \in DOMAIN copies }

DueSound(p) == PlacesOf(events[p]) = Due(p, TRUE) /\ PlacesIn(sent[p], renders[p]) = Due(p, FALSE)

\* A refused transport ends its event when onError is "fail".
FailStops(p) ==
    cfg # NoConfig /\ cfg.onError = "fail" /\ at[p].node \in DOMAIN doc[p] =>
        \A k \in 1..(at[p].transport - 1) : Node(p).transports[k] \in cfg.allowed_transports

OrderInv == \A p \in Procs : SentSound(p) /\ EventsSound(p) /\ DueSound(p) /\ FailStops(p)

LEMMA EarlierIsTransitive ==
    ASSUME NEW a, NEW b, NEW c, Earlier(a, b), Earlier(b, c),
           \A s \in {a, b, c} : s.render \in Int /\ s.node \in Int /\ s.nth \in Int
    PROVE  Earlier(a, c)
BY DEF Earlier

LEMMA OrderedGrows ==
    ASSUME NEW s \in Seq(Slots), Ordered(s), NEW x \in Slots,
           \A i \in DOMAIN s : Earlier(s[i], x)
    PROVE  Ordered(Append(s, x))
<1> DEFINE t == Append(s, x)
<1>1. /\ Len(s) \in Nat /\ DOMAIN s = 1..Len(s) /\ DOMAIN t = 1..(Len(s) + 1)
      /\ t[Len(s) + 1] = x /\ \A i \in 1..Len(s) : t[i] = s[i]
  BY AppendProperties, LenProperties
<1> HIDE DEF t
<1>2. ASSUME NEW i \in DOMAIN t, NEW j \in DOMAIN t, i < j
      PROVE  Earlier(t[i], t[j])
  <2>1. i \in DOMAIN s /\ t[i] = s[i]
    BY <1>1, <1>2
  <2>2. CASE j = Len(s) + 1
    BY <1>1, <2>1, <2>2
  <2>3. CASE j \in DOMAIN s
    BY <1>1, <1>2, <2>1, <2>3 DEF Ordered
  <2>4. QED
    BY <1>1, <2>2, <2>3
<1>3. QED
  BY <1>2 DEF Ordered, t

LEMMA SlotsOfType ==
    ASSUME NEW q \in Seq(Copies)
    PROVE  /\ SlotsOf(q) \in Seq(Slots) /\ DOMAIN SlotsOf(q) = DOMAIN q /\ Len(SlotsOf(q)) = Len(q)
           /\ \A i \in DOMAIN q : SlotsOf(q)[i] = q[i].slot
<1>1. Len(q) \in Nat /\ DOMAIN q = 1..Len(q) /\ \A i \in 1..Len(q) : q[i].slot \in Slots
  <2>1. \A i \in 1..Len(q) : q[i] \in Copies
    OBVIOUS
  <2>2. \A c \in Copies : c.slot \in Slots
    BY DEF Copies
  <2>3. QED
    BY <2>1, <2>2
<1>2. SlotsOf(q) = [i \in 1..Len(q) |-> q[i].slot]
  BY <1>1, Zenon DEF SlotsOf
<1>3. QED
  BY <1>1, <1>2

LEMMA SlotsOfGrows ==
    ASSUME NEW q \in Seq(Copies), NEW c \in Copies
    PROVE  SlotsOf(Append(q, c)) = Append(SlotsOf(q), c.slot)
<1> DEFINE a == SlotsOf(q)
           r == Append(q, c)
           b == SlotsOf(r)
<1>1. /\ Len(q) \in Nat /\ DOMAIN q = 1..Len(q) /\ r \in Seq(Copies) /\ Len(r) = Len(q) + 1
      /\ r[Len(q) + 1] = c /\ \A i \in 1..Len(q) : r[i] = q[i]
  BY AppendProperties, LenProperties
<1> HIDE DEF r
<1>2. /\ a \in Seq(Slots) /\ Len(a) = Len(q) /\ \A i \in 1..Len(q) : a[i] = q[i].slot
      /\ b \in Seq(Slots) /\ Len(b) = Len(q) + 1 /\ \A i \in 1..(Len(q) + 1) : b[i] = r[i].slot
  <2>1. DOMAIN r = 1..(Len(q) + 1)
    BY <1>1
  <2>2. QED
    BY <1>1, <2>1, SlotsOfType
<1>3. c.slot \in Slots
  BY DEF Copies
<1> HIDE DEF a, b
<1>4. /\ Append(a, c.slot) \in Seq(Slots) /\ Len(Append(a, c.slot)) = Len(q) + 1
      /\ \A i \in 1..(Len(q) + 1) : Append(a, c.slot)[i] = b[i]
  BY <1>1, <1>2, <1>3, AppendProperties
<1>5. b = Append(a, c.slot)
  BY <1>2, <1>4, SeqEqual
<1>6. QED
  BY <1>5 DEF a, b, r

LEMMA PlacesGrow ==
    /\ \A s \in Seq(Slots), x \in Slots : PlacesIn(Append(s, x), x.render) = PlacesIn(s, x.render) \cup {Place(x)}
    /\ \A q \in Seq(Copies), c \in Copies : PlacesOf(Append(q, c)) = PlacesOf(q) \cup {Place(c.slot)}
<1>1. ASSUME NEW S, NEW s \in Seq(S), NEW x \in S
      PROVE  /\ DOMAIN Append(s, x) = DOMAIN s \cup {Len(s) + 1} /\ Append(s, x)[Len(s) + 1] = x
             /\ \A i \in DOMAIN s : Append(s, x)[i] = s[i]
  BY AppendProperties, LenProperties
<1>2. ASSUME NEW s \in Seq(Slots), NEW x \in Slots
      PROVE  PlacesIn(Append(s, x), x.render) = PlacesIn(s, x.render) \cup {Place(x)}
  BY <1>1 DEF PlacesIn
<1>3. ASSUME NEW q \in Seq(Copies), NEW c \in Copies
      PROVE  PlacesOf(Append(q, c)) = PlacesOf(q) \cup {Place(c.slot)}
  BY <1>1 DEF PlacesOf
<1>4. QED
  BY <1>2, <1>3

\* What the document asks of x, whatever the render has left behind.
Asked(p, x, forMcp) ==
    LET transports == doc[p][x.node].transports IN
    /\ x.nth \in DOMAIN transports
    /\ cfg # NoConfig /\ LetThrough(transports, x.nth)
    /\ (transports[x.nth] = "mcp") = forMcp

LEMMA DueIsAsked ==
    ASSUME NEW p \in Procs, NEW b \in BOOLEAN
    PROVE  Due(p, b) = { x \in [node : DOMAIN doc[p], nth : 1..Width] :
                             Asked(p, x, b) /\ Passed(p, x.node, x.nth) }
BY Zenon DEF Due, Asked

LEMMA DocumentFacts ==
    ASSUME TypeOK, NEW p \in Procs, NEW x \in [node : DOMAIN doc[p], nth : 1..Width]
    PROVE  /\ x.node \in Nat \ {0} /\ x.nth \in Nat \ {0}
           /\ doc[p][x.node].transports \in Seq(STRING)
<1>1. doc[p] \in Documents[p]
  BY DEF TypeOK
<1>2. doc[p] \in Seq([data : Seq(Parts), transports : Seq(STRING)])
  BY <1>1, EventAssumption
<1> DEFINE d == doc[p]
<1>3. x.node \in DOMAIN d /\ x.nth \in 1..Width
  OBVIOUS
<1>4. d \in Seq([data : Seq(Parts), transports : Seq(STRING)])
  BY <1>2
<1> HIDE DEF d
<1>5. x.node \in 1..Len(d) /\ Len(d) \in Nat
  BY <1>3, <1>4
<1>6. d[x.node] \in [data : Seq(Parts), transports : Seq(STRING)]
  BY <1>4, <1>5, ElementOfSeq
<1>7. x.node \in Nat \ {0} /\ x.nth \in Nat \ {0}
  BY <1>3, <1>5
<1>8. QED
  BY <1>6, <1>7 DEF d

\* What is left behind on passing to the next node, and to the next transport.
LEMMA LeavesNode ==
    ASSUME TypeOK, NEW p \in Procs, at[p].node \in DOMAIN doc[p],
           at' = [at EXCEPT ![p] = NextNode(p)],
           NEW x \in [node : DOMAIN doc[p], nth : 1..Width]
    PROVE  Passed(p, x.node, x.nth)' <=> Passed(p, x.node, x.nth) \/ x.node = at[p].node
<1>1. at'[p] = NextNode(p) /\ NextNode(p).node = at[p].node + 1 /\ NextNode(p).transport = 1
  BY DEF TypeOK, NextNode
<1>2. at[p].node \in Nat /\ x.node \in Nat /\ x.nth \in Nat \ {0}
  <2>1. at[p].node \in 1..Width
    BY NodeFacts
  <2>2. x.node \in Nat /\ x.nth \in Nat \ {0}
    BY DocumentFacts
  <2>3. QED
    BY <2>1, <2>2
<1>3. Passed(p, x.node, x.nth)' <=> x.node < at[p].node + 1 \/ (x.node = at[p].node + 1 /\ x.nth < 1)
  BY <1>1 DEF Passed
<1>4. QED
  BY <1>2, <1>3 DEF Passed

LEMMA LeavesTransport ==
    ASSUME TypeOK, Within, NEW p \in Procs, Handles(p),
           at' = [at EXCEPT ![p] = NextTransport(p)],
           NEW x \in [node : DOMAIN doc[p], nth : 1..Width],
           x.nth \in DOMAIN doc[p][x.node].transports
    PROVE  Passed(p, x.node, x.nth)' <=>
               Passed(p, x.node, x.nth) \/ (x.node = at[p].node /\ x.nth = at[p].transport)
<1>1. at[p].node \in DOMAIN doc[p] /\ at'[p] = NextTransport(p)
  BY DEF Handles, Rendering, TypeOK
<1>2. at[p].node \in Nat /\ at[p].transport \in Nat /\ x.node \in Nat /\ x.nth \in Nat
  <2>1. at[p].node \in 1..Width /\ at[p].transport \in 1..Width
    BY <1>1, NodeFacts
  <2>2. x.node \in Nat /\ x.nth \in Nat
    BY DocumentFacts
  <2>3. QED
    BY <2>1, <2>2
<1>3. CASE NextTransport(p) = NextNode(p)
  <2>1. ~ (at[p].transport < Len(Node(p).transports))
    <3>1. SUFFICES ASSUME at[p].transport < Len(Node(p).transports)
                   PROVE  NextTransport(p).node # NextNode(p).node
      BY <1>3
    <3>2. NextTransport(p) = [at[p] EXCEPT !.transport = @ + 1]
      BY <3>1 DEF NextTransport
    <3>3. NextTransport(p).node = at[p].node
      <4>1. at[p] \in Places
        BY DEF TypeOK, Places
      <4>2. \A a \in Places : [a EXCEPT !.transport = @ + 1].node = a.node
        BY DEF Places
      <4>3. QED
        BY <3>2, <4>1, <4>2
    <3>4. QED
      BY <1>2, <3>3 DEF NextNode
  <2>2. x.node = at[p].node => x.nth <= at[p].transport
    <3>1. x.node = at[p].node => x.nth <= Len(Node(p).transports)
      BY <1>1, NodeFacts DEF Node
    <3>2. Len(Node(p).transports) \in Nat
      BY <1>1, NodeFacts
    <3>3. QED
      BY <1>2, <2>1, <3>1, <3>2
  <2>3. Passed(p, x.node, x.nth)' <=> Passed(p, x.node, x.nth) \/ x.node = at[p].node
    BY <1>1, <1>3, LeavesNode
  <2>4. QED
    BY <1>2, <2>2, <2>3 DEF Passed
<1>4. CASE NextTransport(p) # NextNode(p)
  <2>1. NextTransport(p) = [node |-> at[p].node, transport |-> at[p].transport + 1]
    BY <1>1, <1>4, PassesTo
  <2>2. at'[p].node = at[p].node /\ at'[p].transport = at[p].transport + 1
    BY <1>1, <2>1
  <2>3. QED
    BY <1>2, <2>2 DEF Passed
<1>5. QED
  BY <1>3, <1>4

\* What becomes due of a render that passes on, and of the others nothing.
LEMMA DueOfOthers ==
    ASSUME NEW p \in Procs, NEW q \in Procs, NEW b \in BOOLEAN,
           UNCHANGED <<cfg, doc>>, at'[q] = at[q]
    PROVE  Due(q, b)' = Due(q, b)
BY DEF Due, Passed, LetThrough

LEMMA DueAfterNode ==
    ASSUME TypeOK, NEW p \in Procs, NEW b \in BOOLEAN,
           at[p].node \in DOMAIN doc[p], UNCHANGED <<cfg, doc>>,
           at' = [at EXCEPT ![p] = NextNode(p)],
           \A x \in [node : DOMAIN doc[p], nth : 1..Width] :
               x.node = at[p].node /\ Asked(p, x, b) => Passed(p, x.node, x.nth)
    PROVE  Due(p, b)' = Due(p, b)
<1>1. Due(p, b)' = { x \in [node : DOMAIN doc[p], nth : 1..Width] :
                         Asked(p, x, b) /\ Passed(p, x.node, x.nth)' }
  BY Zenon DEF Due, Asked, LetThrough, Passed
<1>2. \A x \in [node : DOMAIN doc[p], nth : 1..Width] :
          Asked(p, x, b) => (Passed(p, x.node, x.nth)' <=> Passed(p, x.node, x.nth))
  BY LeavesNode
<1>3. QED
  BY <1>1, <1>2, DueIsAsked

LEMMA DueAfterTransport ==
    ASSUME TypeOK, Within, NEW p \in Procs, NEW b \in BOOLEAN, Handles(p),
           UNCHANGED <<cfg, doc>>, at' = [at EXCEPT ![p] = NextTransport(p)]
    PROVE  Due(p, b)' = Due(p, b) \cup { x \in {Place(Slot(p))} : Asked(p, x, b) }
<1> DEFINE X == [node : DOMAIN doc[p], nth : 1..Width]
<1>1. Due(p, b)' = { x \in X : Asked(p, x, b) /\ Passed(p, x.node, x.nth)' }
  BY Zenon DEF Due, Asked, LetThrough, Passed
<1>2. \A x \in X : Asked(p, x, b) =>
          (Passed(p, x.node, x.nth)' <=>
               Passed(p, x.node, x.nth) \/ (x.node = at[p].node /\ x.nth = at[p].transport))
  BY LeavesTransport DEF Asked
<1>3. Place(Slot(p)) = [node |-> at[p].node, nth |-> at[p].transport]
  BY DEF Place, Slot
<1>4. at[p].node \in DOMAIN doc[p] /\ at[p].transport \in 1..Width
  BY NodeFacts DEF Handles, Rendering
<1>5. \A x \in X : x.node = at[p].node /\ x.nth = at[p].transport <=> x = Place(Slot(p))
  BY <1>3
<1>6. Place(Slot(p)) \in X
  BY <1>3, <1>4
<1> HIDE DEF X
<1>7. Due(p, b) = { x \in X : Asked(p, x, b) /\ Passed(p, x.node, x.nth) }
  BY DueIsAsked DEF X
<1>8. QED
  BY <1>1, <1>2, <1>5, <1>6, <1>7

LEMMA AskedHere ==
    ASSUME TypeOK, Within, NEW p \in Procs, NEW b \in BOOLEAN, Handles(p)
    PROVE  Asked(p, Place(Slot(p)), b) <=>
               LetThrough(Node(p).transports, at[p].transport) /\ ((Transport(p) = "mcp") = b)
<1>1. Place(Slot(p)).node = at[p].node /\ Place(Slot(p)).nth = at[p].transport
  BY DEF Place, Slot
<1>2. cfg # NoConfig /\ at[p].transport \in DOMAIN Node(p).transports
  BY HereFacts, NodeFacts DEF Handles, Rendering
<1>3. QED
  BY <1>1, <1>2 DEF Asked, Node, Transport

\* The place of a render only advances.
LEMMA SlotAdvances ==
    ASSUME TypeOK, Within, NEW p \in Procs, Walk(p)
    PROVE  /\ \A s \in Slots : Earlier(s, Slot(p)) => Earlier(s, Slot(p)')
           /\ Slot(p) \in Slots /\ Earlier(Slot(p), Slot(p)')
<1>1. Slot(p) \in Slots /\ at[p].node \in DOMAIN doc[p]
  BY WalkMoves, NodeFacts
<1>2. PICK w \in Places : /\ at' = [at EXCEPT ![p] = w] /\ UNCHANGED renders
                          /\ w = NextNode(p) \/ (Handles(p) /\ w = NextTransport(p))
  BY WalkMoves
<1>3. /\ Slot(p)' = [from |-> p, render |-> renders[p], node |-> w.node, nth |-> w.transport]
      /\ Slot(p) = [from |-> p, render |-> renders[p], node |-> at[p].node, nth |-> at[p].transport]
  BY <1>2 DEF Slot, TypeOK
<1>4. /\ at[p].node \in Int /\ at[p].transport \in Int /\ renders[p] \in Int
      /\ w.node \in Int /\ w.transport \in Int
  <2>1. at[p] \in Places /\ renders[p] \in Nat
    BY DEF TypeOK, Places
  <2>2. QED
    BY <1>2, <2>1 DEF Places
<1>5. w.node > at[p].node \/ (w.node = at[p].node /\ w.transport > at[p].transport)
  <2>1. CASE w = NextNode(p)
    BY <1>4, <2>1 DEF NextNode
  <2>2. CASE w # NextNode(p)
    <3>1. w = [node |-> at[p].node, transport |-> at[p].transport + 1]
      BY <1>1, <1>2, <2>2, PassesTo
    <3>2. QED
      BY <1>4, <3>1
  <2>3. QED
    BY <2>1, <2>2
<1>6. Earlier(Slot(p), Slot(p)')
  BY <1>3, <1>4, <1>5 DEF Earlier
<1>7. ASSUME NEW s \in Slots, Earlier(s, Slot(p))
      PROVE  Earlier(s, Slot(p)')
  <2>1. s.render \in Int /\ s.node \in Int /\ s.nth \in Int
    <3>1. s.render \in Renders /\ s.node \in 1..Width /\ s.nth \in 1..Width
      BY DEF Slots
    <3>2. s.render \in Int
      BY <3>1 DEF Renders
    <3>3. QED
      BY <3>1, <3>2
  <2>2. QED
    BY <1>3, <1>4, <1>6, <1>7, <2>1 DEF Earlier
<1>8. QED
  BY <1>1, <1>6, <1>7

\* What is handed over keeps its order while the place advances.
LEMMA WalkKeepsSlots ==
    ASSUME TypeInv, OrderInv, NEW p \in Procs, Walk(p), NEW s \in Seq(Slots),
           Ordered(s), \A i \in DOMAIN s : Earlier(s[i], Slot(p))
    PROVE  /\ \A i \in DOMAIN s : Earlier(s[i], Slot(p)')
           /\ Ordered(Append(s, Slot(p)))
           /\ \A i \in DOMAIN Append(s, Slot(p)) : Earlier(Append(s, Slot(p))[i], Slot(p)')
<1>1. /\ \A x \in Slots : Earlier(x, Slot(p)) => Earlier(x, Slot(p)')
      /\ Slot(p) \in Slots /\ Earlier(Slot(p), Slot(p)')
  BY SlotAdvances DEF TypeInv
<1>2. \A i \in DOMAIN s : s[i] \in Slots
  OBVIOUS
<1>3. \A i \in DOMAIN s : Earlier(s[i], Slot(p)')
  BY <1>1, <1>2
<1>4. Ordered(Append(s, Slot(p)))
  BY <1>1, OrderedGrows
<1>5. /\ DOMAIN Append(s, Slot(p)) = DOMAIN s \cup {Len(s) + 1}
      /\ Append(s, Slot(p))[Len(s) + 1] = Slot(p)
      /\ \A i \in DOMAIN s : Append(s, Slot(p))[i] = s[i]
  BY <1>1, AppendProperties, LenProperties
<1>6. QED
  BY <1>1, <1>3, <1>4, <1>5

\* The renders a step of p does not concern.
LEMMA WalkOthers ==
    ASSUME TypeInv, OrderInv, NEW p \in Procs, NEW q \in Procs, q # p, Walk(p)
    PROVE  SentSound(q)' /\ EventsSound(q)' /\ DueSound(q)' /\ FailStops(q)'
<1>1. /\ at'[q] = at[q] /\ UNCHANGED <<cfg, doc, renders>>
  BY WalkMoves DEF TypeInv, TypeOK
<1>2. sent'[q] = sent[q] /\ events'[q] = events[q]
  BY DEF Walk, Ignore, NamesNone, NotAllowlisted, FireMcp, DispatchExternal, TypeInv, TypeOK
<1>3. Slot(q)' = Slot(q)
  BY <1>1 DEF Slot
<1>4. Due(q, TRUE)' = Due(q, TRUE) /\ Due(q, FALSE)' = Due(q, FALSE)
  BY <1>1, DueOfOthers
<1>5. SentSound(q)'
  BY <1>2, <1>3 DEF OrderInv, SentSound
<1>6. EventsSound(q)'
  BY <1>2, <1>3 DEF OrderInv, EventsSound
<1>7. DueSound(q)'
  BY <1>1, <1>2, <1>4 DEF OrderInv, DueSound, PlacesOf, PlacesIn
<1>8. FailStops(q)'
  BY <1>1 DEF OrderInv, FailStops, Node
<1>9. QED
  BY <1>5, <1>6, <1>7, <1>8

\* What a step of p leaves to show: what became due, and that only what is let
\* through is left behind when a refusal ends an event.
LEMMA WalkOrdered ==
    ASSUME TypeInv, OrderInv, NEW p \in Procs, Walk(p), DueSound(p)', FailStops(p)',
           \/ UNCHANGED <<sent, events>>
           \/ Handles(p) /\ UNCHANGED sent /\ events' = [events EXCEPT ![p] = Append(@, Copy(p))]
           \/ Handles(p) /\ UNCHANGED events /\ sent' = [sent EXCEPT ![p] = Append(@, Slot(p))]
    PROVE  OrderInv'
<1>1. /\ sent \in [Procs -> Seq(Slots)] /\ events \in [Procs -> Seq(Copies)]
      /\ Slot(p) \in Slots /\ Slot(p).from = p
      /\ Handles(p) => Copy(p) \in Copies /\ Copy(p).slot = Slot(p)
  BY SlotAdvances, HereFacts DEF TypeInv, TypeOK, Slot
<1>2. SentSound(p)'
  <2>1. /\ \A i \in DOMAIN sent[p] : Earlier(sent[p][i], Slot(p)')
        /\ Ordered(sent[p]) /\ Ordered(Append(sent[p], Slot(p)))
        /\ \A i \in DOMAIN Append(sent[p], Slot(p)) : Earlier(Append(sent[p], Slot(p))[i], Slot(p)')
    <3>1. sent[p] \in Seq(Slots) /\ Ordered(sent[p]) /\ \A i \in DOMAIN sent[p] : Earlier(sent[p][i], Slot(p))
      BY <1>1 DEF OrderInv, SentSound
    <3>2. QED
      BY <3>1, WalkKeepsSlots
  <2>2. /\ \A i \in DOMAIN sent[p] : sent[p][i].from = p
        /\ \A i \in DOMAIN Append(sent[p], Slot(p)) : Append(sent[p], Slot(p))[i].from = p
    <3>1. \A i \in DOMAIN sent[p] : sent[p][i].from = p
      BY DEF OrderInv, SentSound
    <3>2. sent[p] \in Seq(Slots)
      BY <1>1
    <3>3. /\ DOMAIN Append(sent[p], Slot(p)) = DOMAIN sent[p] \cup {Len(sent[p]) + 1}
          /\ Append(sent[p], Slot(p))[Len(sent[p]) + 1] = Slot(p)
          /\ \A i \in DOMAIN sent[p] : Append(sent[p], Slot(p))[i] = sent[p][i]
      BY <1>1, <3>2, AppendProperties, LenProperties
    <3>4. QED
      BY <1>1, <3>1, <3>3
  <2>3. sent'[p] = sent[p] \/ sent'[p] = Append(sent[p], Slot(p))
    BY <1>1
  <2>4. QED
    BY <2>1, <2>2, <2>3 DEF SentSound
<1>3. EventsSound(p)'
  <2> DEFINE s == SlotsOf(events[p])
  <2>1. events[p] \in Seq(Copies)
    BY <1>1
  <2>2. s \in Seq(Slots) /\ DOMAIN s = DOMAIN events[p]
    BY <2>1, SlotsOfType
  <2>3. Ordered(s) /\ \A i \in DOMAIN s : s[i] = events[p][i].slot /\ Earlier(s[i], Slot(p))
    BY <2>2 DEF OrderInv, EventsSound, SlotsOf
  <2>4. /\ \A i \in DOMAIN s : Earlier(s[i], Slot(p)')
        /\ Ordered(Append(s, Slot(p)))
        /\ \A i \in DOMAIN Append(s, Slot(p)) : Earlier(Append(s, Slot(p))[i], Slot(p)')
    <3> HIDE DEF s
    <3>1. QED
      BY <2>2, <2>3, WalkKeepsSlots
  <2>5. CASE events' = events
    BY <2>2, <2>3, <2>4, <2>5 DEF EventsSound
  <2>6. CASE Handles(p) /\ events' = [events EXCEPT ![p] = Append(@, Copy(p))]
    <3>1. events'[p] = Append(events[p], Copy(p)) /\ Copy(p) \in Copies /\ Copy(p).slot = Slot(p)
      BY <1>1, <2>6
    <3>2. SlotsOf(events'[p]) = Append(s, Slot(p))
      BY <2>1, <3>1, SlotsOfGrows
    <3>3. \A i \in DOMAIN events'[p] : i \in DOMAIN SlotsOf(events'[p]) /\ SlotsOf(events'[p])[i] = events'[p][i].slot
      BY DEF SlotsOf
    <3>4. QED
      BY <2>4, <3>2, <3>3 DEF EventsSound
  <2>7. QED
    BY <2>5, <2>6
<1>4. QED
  BY <1>2, <1>3, WalkOthers DEF OrderInv

\* Without a configuration nothing is ever due.
LEMMA NothingDue ==
    ASSUME NEW p \in Procs, NEW b \in BOOLEAN, cfg = NoConfig
    PROVE  Due(p, b) = {}
BY DEF Due

LEMMA IgnoreOrder ==
    ASSUME TypeInv, OrderInv, NEW p \in Procs, Ignore(p)
    PROVE  OrderInv'
<1>1. Walk(p) /\ cfg = NoConfig /\ UNCHANGED <<sent, events, cfg, doc, renders>>
  BY DEF Walk, Ignore, Advance
<1>2. Due(p, TRUE) = {} /\ Due(p, FALSE) = {} /\ Due(p, TRUE)' = {} /\ Due(p, FALSE)' = {}
  BY <1>1, NothingDue DEF Due
<1>3. DueSound(p)'
  BY <1>1, <1>2 DEF OrderInv, DueSound, PlacesOf, PlacesIn
<1>4. FailStops(p)'
  BY <1>1 DEF FailStops
<1>5. QED
  BY <1>1, <1>3, <1>4, WalkOrdered

\* At the beginning of a node nothing of it was refused.
LEMMA FreshNode ==
    ASSUME TypeOK, NEW p \in Procs, at' = [at EXCEPT ![p] = NextNode(p)]
    PROVE  FailStops(p)'
<1>1. at'[p].transport = 1
  BY DEF TypeOK, NextNode
<1>2. QED
  BY <1>1 DEF FailStops

LEMMA NamesNoneOrder ==
    ASSUME TypeInv, OrderInv, NEW p \in Procs, NamesNone(p)
    PROVE  OrderInv'
<1>1. /\ Walk(p) /\ UNCHANGED <<sent, events, cfg, doc, renders>>
      /\ at' = [at EXCEPT ![p] = NextNode(p)] /\ at[p].node \in DOMAIN doc[p]
      /\ Node(p).transports = <<>>
  BY DEF Walk, NamesNone, Advance, Rendering
<1>2. \A b \in BOOLEAN : \A x \in [node : DOMAIN doc[p], nth : 1..Width] :
          ~ (x.node = at[p].node /\ Asked(p, x, b))
  BY <1>1 DEF Asked, Node
<1>3. Due(p, TRUE)' = Due(p, TRUE) /\ Due(p, FALSE)' = Due(p, FALSE)
  BY <1>1, <1>2, DueAfterNode DEF TypeInv
<1>4. DueSound(p)'
  BY <1>1, <1>3 DEF OrderInv, DueSound, PlacesOf, PlacesIn
<1>5. QED
  BY <1>1, <1>4, FreshNode, WalkOrdered DEF TypeInv

LEMMA NotAllowlistedOrder ==
    ASSUME TypeInv, OrderInv, NEW p \in Procs, NotAllowlisted(p)
    PROVE  OrderInv'
<1>1. /\ Walk(p) /\ UNCHANGED <<sent, events, cfg, doc, renders>>
      /\ Handles(p) /\ Transport(p) \notin cfg.allowed_transports /\ at[p].node \in DOMAIN doc[p]
      /\ at' = [at EXCEPT ![p] = IF cfg.onError = "fail" THEN NextNode(p) ELSE NextTransport(p)]
  BY DEF Walk, NotAllowlisted, Advance, Handles, Rendering
<1>2. CASE cfg.onError = "fail"
  <2>1. at' = [at EXCEPT ![p] = NextNode(p)]
    BY <1>1, <1>2
  <2>2. \A b \in BOOLEAN : \A x \in [node : DOMAIN doc[p], nth : 1..Width] :
            x.node = at[p].node /\ Asked(p, x, b) => Passed(p, x.node, x.nth)
    <3> SUFFICES ASSUME NEW b \in BOOLEAN, NEW x \in [node : DOMAIN doc[p], nth : 1..Width],
                        x.node = at[p].node, Asked(p, x, b)
                 PROVE  Passed(p, x.node, x.nth)
      OBVIOUS
    <3>1. x.nth \in Nat /\ at[p].transport \in 1..Width
      BY <1>1, DocumentFacts, NodeFacts DEF TypeInv
    <3>2. ~ (at[p].transport \in 1..(x.nth - 1)) /\ x.nth # at[p].transport
      BY <1>1, <1>2 DEF Asked, LetThrough, Transport, Node
    <3>3. x.nth < at[p].transport
      BY <3>1, <3>2
    <3>4. QED
      BY <3>3 DEF Passed
  <2>3. Due(p, TRUE)' = Due(p, TRUE) /\ Due(p, FALSE)' = Due(p, FALSE)
    <3>1. TypeOK /\ at[p].node \in DOMAIN doc[p] /\ UNCHANGED <<cfg, doc>>
      BY <1>1 DEF TypeInv
    <3>2. QED
      BY <2>1, <2>2, <3>1, DueAfterNode
  <2>4. DueSound(p)'
    BY <1>1, <2>3 DEF OrderInv, DueSound, PlacesOf, PlacesIn
  <2>5. QED
    BY <1>1, <2>1, <2>4, FreshNode, WalkOrdered DEF TypeInv
<1>3. CASE cfg.onError # "fail"
  <2>1. at' = [at EXCEPT ![p] = NextTransport(p)]
    BY <1>1, <1>3
  <2>2. \A b \in BOOLEAN : ~ Asked(p, Place(Slot(p)), b)
    BY <1>1, AskedHere DEF LetThrough, Transport, TypeInv
  <2>3. Due(p, TRUE)' = Due(p, TRUE) /\ Due(p, FALSE)' = Due(p, FALSE)
    <3>1. \A b \in BOOLEAN : { x \in {Place(Slot(p))} : Asked(p, x, b) } = {}
      BY <2>2
    <3>2. TypeOK /\ Within /\ Handles(p) /\ UNCHANGED <<cfg, doc>>
      BY <1>1 DEF TypeInv
    <3>3. \A b \in BOOLEAN : Due(p, b)' = Due(p, b) \cup { x \in {Place(Slot(p))} : Asked(p, x, b) }
      BY <2>1, <3>2, DueAfterTransport
    <3>4. QED
      BY <3>1, <3>3
  <2>4. DueSound(p)'
    BY <1>1, <2>3 DEF OrderInv, DueSound, PlacesOf, PlacesIn
  <2>5. FailStops(p)'
    BY <1>1, <1>3 DEF FailStops
  <2>6. QED
    BY <1>1, <2>4, <2>5, WalkOrdered
<1>4. QED
  BY <1>2, <1>3

\* What an allowed transport is given was let through, and is due from now on.
LEMMA AllowedHere ==
    ASSUME TypeInv, OrderInv, NEW p \in Procs, Handles(p), Transport(p) \in cfg.allowed_transports,
           UNCHANGED <<cfg, doc>>, at' = [at EXCEPT ![p] = NextTransport(p)]
    PROVE  /\ FailStops(p)'
           /\ \A b \in BOOLEAN :
                  Due(p, b)' = Due(p, b) \cup (IF (Transport(p) = "mcp") = b THEN {Place(Slot(p))} ELSE {})
<1>1. /\ at[p].node \in DOMAIN doc[p] /\ cfg # NoConfig
      /\ at[p].transport \in Nat /\ at[p].transport \in 1..Width
  <2>1. at[p].node \in DOMAIN doc[p] /\ cfg # NoConfig
    BY DEF Handles, Rendering
  <2>2. at[p].transport \in 1..Width
    BY <2>1, NodeFacts DEF TypeInv
  <2>3. QED
    BY <2>1, <2>2
<1>2. cfg.onError = "fail" => \A k \in 1..(at[p].transport - 1) : Node(p).transports[k] \in cfg.allowed_transports
  BY <1>1 DEF OrderInv, FailStops
<1>3. LetThrough(Node(p).transports, at[p].transport)
  BY <1>2 DEF LetThrough, Transport
<1>4. \A b \in BOOLEAN : Asked(p, Place(Slot(p)), b) <=> ((Transport(p) = "mcp") = b)
  BY <1>3, AskedHere DEF TypeInv
<1>5. ASSUME NEW b \in BOOLEAN
      PROVE  Due(p, b)' = Due(p, b) \cup (IF (Transport(p) = "mcp") = b THEN {Place(Slot(p))} ELSE {})
  <2>1. Due(p, b)' = Due(p, b) \cup { x \in {Place(Slot(p))} : Asked(p, x, b) }
    BY DueAfterTransport DEF TypeInv
  <2>2. QED
    BY <1>4, <2>1
<1>6. FailStops(p)'
  <2>1. SUFFICES ASSUME cfg.onError = "fail", at'[p].node \in DOMAIN doc[p],
                        NEW k \in 1..(at'[p].transport - 1)
                 PROVE  doc[p][at'[p].node].transports[k] \in cfg.allowed_transports
    BY DEF FailStops, Node
  <2>2. at'[p] = NextTransport(p)
    BY DEF TypeInv, TypeOK
  <2>3. CASE NextTransport(p) = NextNode(p)
    BY <2>1, <2>2, <2>3 DEF NextNode
  <2>4. CASE NextTransport(p) # NextNode(p)
    <3>1. NextTransport(p) = [node |-> at[p].node, transport |-> at[p].transport + 1]
      BY <1>1, <2>4, PassesTo DEF TypeInv
    <3>2. k \in 1..at[p].transport /\ at'[p].node = at[p].node
      BY <1>1, <2>1, <2>2, <3>1
    <3>3. k \in 1..(at[p].transport - 1) \/ k = at[p].transport
      BY <1>1, <3>2
    <3>4. QED
      BY <1>2, <2>1, <3>2, <3>3 DEF Transport, Node
  <2>5. QED
    BY <2>3, <2>4
<1>7. QED
  BY <1>5, <1>6

LEMMA FireMcpOrder ==
    ASSUME TypeInv, OrderInv, NEW p \in Procs, FireMcp(p)
    PROVE  OrderInv'
<1>1. /\ Walk(p) /\ UNCHANGED <<sent, cfg, doc, renders>>
      /\ Handles(p) /\ Transport(p) \in cfg.allowed_transports /\ Transport(p) = "mcp"
      /\ at' = [at EXCEPT ![p] = NextTransport(p)]
      /\ events' = [events EXCEPT ![p] = Append(@, Copy(p))]
  BY DEF Walk, FireMcp, Advance
<1>2. FailStops(p)' /\ Due(p, TRUE)' = Due(p, TRUE) \cup {Place(Slot(p))} /\ Due(p, FALSE)' = Due(p, FALSE)
  BY <1>1, AllowedHere
<1>3. events[p] \in Seq(Copies) /\ events'[p] = Append(events[p], Copy(p))
  BY <1>1 DEF TypeInv, TypeOK
<1>4. Copy(p) \in Copies /\ Copy(p).slot = Slot(p)
  BY <1>1, HereFacts DEF TypeInv
<1>5. PlacesOf(events'[p]) = PlacesOf(events[p]) \cup {Place(Slot(p))}
  BY <1>3, <1>4, PlacesGrow
<1>6. DueSound(p)'
  BY <1>1, <1>2, <1>5 DEF OrderInv, DueSound
<1>7. QED
  BY <1>1, <1>2, <1>6, WalkOrdered

LEMMA DispatchExternalOrder ==
    ASSUME TypeInv, OrderInv, NEW p \in Procs, DispatchExternal(p)
    PROVE  OrderInv'
<1>1. /\ Walk(p) /\ UNCHANGED <<events, cfg, doc, renders>>
      /\ Handles(p) /\ Transport(p) \in cfg.allowed_transports /\ Transport(p) # "mcp"
      /\ at' = [at EXCEPT ![p] = NextTransport(p)]
      /\ sent' = [sent EXCEPT ![p] = Append(@, Slot(p))]
  BY DEF Walk, DispatchExternal, Advance
<1>2. FailStops(p)' /\ Due(p, FALSE)' = Due(p, FALSE) \cup {Place(Slot(p))} /\ Due(p, TRUE)' = Due(p, TRUE)
  BY <1>1, AllowedHere
<1>3. sent[p] \in Seq(Slots) /\ sent'[p] = Append(sent[p], Slot(p))
  BY <1>1 DEF TypeInv, TypeOK
<1>4. Slot(p) \in Slots /\ Slot(p).render = renders[p]
  BY <1>1, SlotAdvances DEF TypeInv, Slot
<1>5. PlacesIn(sent'[p], renders[p]) = PlacesIn(sent[p], renders[p]) \cup {Place(Slot(p))}
  BY <1>3, <1>4, PlacesGrow
<1>6. DueSound(p)'
  BY <1>1, <1>2, <1>5 DEF OrderInv, DueSound
<1>7. QED
  BY <1>1, <1>2, <1>6, WalkOrdered

LEMMA RenderOrder ==
    ASSUME TypeInv, OrderInv, NEW p \in Procs, Render(p)
    PROVE  OrderInv'
<1>1. /\ UNCHANGED <<cfg, sent>>
      /\ renders' = [renders EXCEPT ![p] = @ + 1]
      /\ at' = [at EXCEPT ![p] = [node |-> 1, transport |-> 1]]
      /\ events' = [events EXCEPT ![p] = <<>>]
      /\ \E d \in Documents[p] : doc' = [doc EXCEPT ![p] = d]
  BY DEF Render
<1>2. /\ renders'[p] = renders[p] + 1 /\ renders[p] \in Nat
      /\ at'[p] = [node |-> 1, transport |-> 1] /\ events'[p] = <<>>
      /\ \A q \in Procs : q # p => /\ renders'[q] = renders[q] /\ at'[q] = at[q]
                                   /\ events'[q] = events[q] /\ doc'[q] = doc[q]
  BY <1>1 DEF TypeInv, TypeOK
<1>3. ASSUME NEW q \in Procs, q # p
      PROVE  SentSound(q)' /\ EventsSound(q)' /\ DueSound(q)' /\ FailStops(q)'
  <2>1. Slot(q)' = Slot(q)
    BY <1>2, <1>3 DEF Slot
  <2>2. Due(q, TRUE)' = Due(q, TRUE) /\ Due(q, FALSE)' = Due(q, FALSE)
    BY <1>1, <1>2, <1>3 DEF Due, Passed, LetThrough
  <2>3. SentSound(q)' /\ EventsSound(q)'
    BY <1>1, <1>2, <1>3, <2>1 DEF OrderInv, SentSound, EventsSound
  <2>4. DueSound(q)'
    <3>1. sent'[q] = sent[q] /\ events'[q] = events[q] /\ renders'[q] = renders[q]
      BY <1>1, <1>2, <1>3
    <3>2. DueSound(q)
      BY DEF OrderInv
    <3>3. QED
      BY <2>2, <3>1, <3>2, Zenon DEF DueSound, PlacesOf, PlacesIn
  <2>5. FailStops(q)'
    BY <1>1, <1>2, <1>3 DEF OrderInv, FailStops, Node
  <2>6. QED
    BY <2>3, <2>4, <2>5
<1>4. \A i \in DOMAIN sent[p] : /\ sent[p][i].render \in Int /\ sent[p][i].render <= renders[p]
                                /\ sent[p][i].from = p
  <2>1. sent[p] \in Seq(Slots)
    BY DEF TypeInv, TypeOK
  <2>2. \A i \in DOMAIN sent[p] : sent[p][i].render \in Renders
    <3>1. \A i \in DOMAIN sent[p] : sent[p][i] \in Slots
      BY <2>1
    <3>2. QED
      BY <3>1 DEF Slots
  <2>3. \A i \in DOMAIN sent[p] : sent[p][i].render \in Int
    BY <2>2 DEF Renders
  <2>4. \A i \in DOMAIN sent[p] : Earlier(sent[p][i], Slot(p)) /\ sent[p][i].from = p
    BY DEF OrderInv, SentSound
  <2>5. Slot(p).render = renders[p]
    BY DEF Slot
  <2>6. QED
    BY <1>2, <2>3, <2>4, <2>5 DEF Earlier
<1>5. SentSound(p)'
  <2>1. Slot(p)'.render = renders[p] + 1
    BY <1>2 DEF Slot
  <2>2. \A i \in DOMAIN sent[p] : Earlier(sent[p][i], Slot(p)')
    BY <1>2, <1>4, <2>1 DEF Earlier
  <2>3. QED
    BY <1>1, <1>4, <2>2 DEF OrderInv, SentSound
<1>6. EventsSound(p)' /\ PlacesOf(events'[p]) = {}
  BY <1>2 DEF EventsSound, SlotsOf, Ordered, PlacesOf
<1>7. PlacesIn(sent'[p], renders'[p]) = {}
  BY <1>1, <1>2, <1>4 DEF PlacesIn
<1>8. Due(p, TRUE)' = {} /\ Due(p, FALSE)' = {}
  <2>1. TypeOK'
    BY RenderTypes DEF TypeInv
  <2>2. \A x \in [node : DOMAIN doc'[p], nth : 1..Width] : x.node \in Nat \ {0} /\ x.nth \in Nat \ {0}
    <3>1. doc'[p] \in Documents[p]
      BY <2>1 DEF TypeOK
    <3>2. doc'[p] \in Seq([data : Seq(Parts), transports : Seq(STRING)])
      BY <3>1, EventAssumption
    <3>3. DOMAIN doc'[p] = 1..Len(doc'[p])
      BY <3>2
    <3>4. QED
      BY <3>3
  <2>3. \A x \in [node : DOMAIN doc'[p], nth : 1..Width] : ~ Passed(p, x.node, x.nth)'
    BY <1>2, <2>2 DEF Passed
  <2>4. QED
    BY <2>3 DEF Due
<1>9. DueSound(p)' /\ FailStops(p)'
  <2>1. DueSound(p)'
    BY <1>6, <1>7, <1>8, Zenon DEF DueSound, PlacesOf, PlacesIn
  <2>2. FailStops(p)'
    BY <1>2 DEF FailStops
  <2>3. QED
    BY <2>1, <2>2
<1>10. QED
  BY <1>3, <1>5, <1>6, <1>9 DEF OrderInv

LEMMA StillOrder ==
    ASSUME TypeInv, OrderInv, UNCHANGED <<cfg, doc, renders, at, events, sent>>
    PROVE  OrderInv'
<1> SUFFICES ASSUME NEW p \in Procs
             PROVE  SentSound(p)' /\ EventsSound(p)' /\ DueSound(p)' /\ FailStops(p)'
  BY DEF OrderInv
<1>1. Slot(p)' = Slot(p) /\ Due(p, TRUE)' = Due(p, TRUE) /\ Due(p, FALSE)' = Due(p, FALSE)
  BY DEF Slot, Due, Passed, LetThrough
<1>2. SentSound(p)' /\ EventsSound(p)'
  BY <1>1 DEF OrderInv, SentSound, EventsSound
<1>3. DueSound(p)'
  BY <1>1 DEF OrderInv, DueSound, PlacesOf, PlacesIn
<1>4. FailStops(p)'
  BY DEF OrderInv, FailStops, Node
<1>5. QED
  BY <1>2, <1>3, <1>4

LEMMA InitOrder == Init => OrderInv
<1> SUFFICES ASSUME Init, NEW p \in Procs
             PROVE  SentSound(p) /\ EventsSound(p) /\ DueSound(p) /\ FailStops(p)
  BY DEF OrderInv
<1>1. events[p] = <<>> /\ sent[p] = <<>> /\ at[p] = [node |-> 1, transport |-> 1]
  BY DEF Init
<1>2. Due(p, TRUE) = {} /\ Due(p, FALSE) = {}
  <2>1. \A x \in [node : DOMAIN doc[p], nth : 1..Width] : x.node \in Nat \ {0} /\ x.nth \in Nat \ {0}
    BY InitTypes, DocumentFacts DEF TypeInv
  <2>2. QED
    BY <1>1, <2>1 DEF Due, Passed
<1>3. SentSound(p) /\ EventsSound(p)
  BY <1>1 DEF SentSound, EventsSound, Ordered, SlotsOf
<1>4. DueSound(p)
  <2>1. PlacesOf(events[p]) = {} /\ PlacesIn(sent[p], renders[p]) = {}
    BY <1>1 DEF PlacesOf, PlacesIn
  <2>2. QED
    BY <1>2, <2>1 DEF DueSound
<1>5. FailStops(p)
  BY <1>1 DEF FailStops
<1>6. QED
  BY <1>3, <1>4, <1>5

LEMMA NextOrder == TypeInv /\ OrderInv /\ [Next]_vars => OrderInv'
<1> SUFFICES ASSUME TypeInv, OrderInv, [Next]_vars
             PROVE  OrderInv'
  OBVIOUS
<1>1. ASSUME NEW p \in Procs, Walk(p)
      PROVE  OrderInv'
  BY <1>1, IgnoreOrder, NamesNoneOrder, NotAllowlistedOrder, FireMcpOrder, DispatchExternalOrder DEF Walk
<1>2. ASSUME NEW p \in Procs, Work(p) \/ Exit(p)
      PROVE  OrderInv'
  BY <1>2, StillOrder DEF Work, Exit, render
<1>3. ASSUME NEW c \in flying, Arrives(c) \/ Fails(c)
      PROVE  OrderInv'
  BY <1>3, StillOrder DEF Arrives, Fails, render
<1>4. UNCHANGED vars => OrderInv'
  BY StillOrder DEF vars, render
<1>5. QED
  BY Steps, RenderOrder, <1>1, <1>2, <1>3, <1>4

\* Every event reaches exactly the transports the configuration lets through,
\* once each and in the order of the text, in every render of every process
\* (executeEvent and handleNotAllowlisted, event.ts 52-92).
THEOREM DeliveredAsWritten == Spec => []AsTheDocumentSays
<1>1. TypeInv /\ OrderInv => AsTheDocumentSays
  BY DEF TypeInv, OrderInv, AsTheDocumentSays, SentSound, EventsSound, DueSound, PlacesOf, PlacesIn
<1>2. QED
  BY InitTypes, NextTypes, InitOrder, NextOrder, <1>1, PTL DEF Spec

-----------------------------------------------------------------------------
(* What becomes of the copies *)

Given(s, slots) == s.from \in Procs /\ \E i \in DOMAIN slots[s.from] : slots[s.from][i] = s

\* s comes before everything that its process still has to write.
Before(s, waiting) == \A j \in DOMAIN waiting[s.from] : Earlier(s, waiting[s.from][j].slot)

QueueSound ==
    \A p \in Procs :
        /\ Ordered(SlotsOf(queue[p])) /\ (queue[p] # <<>> => cfg \in Configs)
        /\ \A i \in DOMAIN queue[p] : queue[p][i].slot.from = p /\ Given(queue[p][i].slot, sent)

FlyingSound ==
    \A c \in flying :
        /\ Given(c.slot, sent) /\ Before(c.slot, queue) /\ SinkOf(c.transport) \in Urls
        /\ \A e \in flying : e.slot = c.slot => e = c

GotSound ==
    \A s \in Sinks : \A i \in DOMAIN got[s] :
        /\ Given(got[s][i], sent) /\ Before(got[s][i], queue)
        /\ \A c \in flying : c.slot # got[s][i]

BusInv == QueueSound /\ FlyingSound /\ GotSound

LEMMA EarlierIsStrict ==
    ASSUME NEW a \in Slots
    PROVE  ~ Earlier(a, a)
<1>1. a.render \in Renders /\ a.node \in 1..Width /\ a.nth \in 1..Width
  BY DEF Slots
<1>2. a.render \in Int
  BY <1>1 DEF Renders
<1>3. QED
  BY <1>1, <1>2 DEF Earlier

LEMMA SlotsHaveOneOrder ==
    ASSUME NEW a \in Slots, NEW b \in Slots, Earlier(a, b)
    PROVE  ~ Earlier(b, a)
<1>1. /\ a.render \in Renders /\ a.node \in 1..Width /\ a.nth \in 1..Width
      /\ b.render \in Renders /\ b.node \in 1..Width /\ b.nth \in 1..Width
  BY DEF Slots
<1>2. a.render \in Int /\ b.render \in Int
  BY <1>1 DEF Renders
<1>3. QED
  BY <1>1, <1>2 DEF Earlier

\* What was sent stays sent.
LEMMA SentStays ==
    ASSUME TypeInv, NEW s, Given(s, sent),
           sent' = sent \/ \E p \in Procs, x \in Slots : sent' = [sent EXCEPT ![p] = Append(@, x)]
    PROVE  Given(s, sent')
<1>1. CASE sent' = sent
  BY <1>1 DEF Given
<1>2. ASSUME NEW p \in Procs, NEW x \in Slots, sent' = [sent EXCEPT ![p] = Append(@, x)]
      PROVE  Given(s, sent')
  <2>1. PICK i \in DOMAIN sent[s.from] : sent[s.from][i] = s /\ s.from \in Procs
    BY DEF Given
  <2>2. sent \in [Procs -> Seq(Slots)]
    BY DEF TypeInv, TypeOK
  <2>3. CASE s.from = p
    <3>1. sent[p] \in Seq(Slots) /\ sent'[p] = Append(sent[p], x)
      BY <1>2, <2>2
    <3>2. i \in DOMAIN sent'[p] /\ sent'[p][i] = s
      BY <2>1, <2>3, <3>1, AppendProperties, LenProperties
    <3>3. QED
      BY <2>1, <2>3, <3>2 DEF Given
  <2>4. CASE s.from # p
    BY <1>2, <2>1, <2>2, <2>4 DEF Given
  <2>5. QED
    BY <2>3, <2>4
<1>3. QED
  BY <1>1, <1>2

\* What was sent is behind the place of its render.
LEMMA SentIsBehind ==
    ASSUME TypeInv, OrderInv, NEW s, Given(s, sent)
    PROVE  s \in Slots /\ Earlier(s, Slot(s.from))
<1>1. PICK i \in DOMAIN sent[s.from] : sent[s.from][i] = s /\ s.from \in Procs
  BY DEF Given
<1>2. sent[s.from] \in Seq(Slots)
  BY <1>1 DEF TypeInv, TypeOK
<1>3. s \in Slots
  BY <1>1, <1>2
<1>4. QED
  BY <1>1, <1>3 DEF OrderInv, SentSound

\* Handing a copy over.
LEMMA DispatchBus ==
    ASSUME TypeInv, OrderInv, BusInv, NEW p \in Procs, DispatchExternal(p)
    PROVE  BusInv'
<1>1. /\ Handles(p) /\ UNCHANGED <<cfg, flying, got>>
      /\ queue' = [queue EXCEPT ![p] = Append(@, Copy(p))]
      /\ sent' = [sent EXCEPT ![p] = Append(@, Slot(p))]
  BY DEF DispatchExternal, Advance
<1>2. /\ cfg \in Configs /\ Copy(p) \in Copies /\ Copy(p).slot = Slot(p) /\ Slot(p) \in Slots
      /\ Slot(p).from = p
  BY <1>1, HereFacts DEF TypeInv, Copies, Slot
<1>3. \A s : Given(s, sent) => Given(s, sent')
  BY <1>1, <1>2, SentStays
<1>4. queue \in [Procs -> Seq(Copies)] /\ sent \in [Procs -> Seq(Slots)]
  BY DEF TypeInv, TypeOK
<1> DEFINE q == queue[p]
<1>5. /\ q \in Seq(Copies) /\ queue'[p] = Append(q, Copy(p))
      /\ \A r \in Procs : r # p => queue'[r] = queue[r]
  BY <1>1, <1>4
<1>6. /\ DOMAIN queue'[p] = DOMAIN q \cup {Len(q) + 1} /\ queue'[p][Len(q) + 1] = Copy(p)
      /\ \A i \in DOMAIN q : queue'[p][i] = q[i]
  BY <1>2, <1>5, AppendProperties, LenProperties
<1>7. Given(Slot(p), sent')
  <2>1. sent[p] \in Seq(Slots) /\ sent'[p] = Append(sent[p], Slot(p))
    BY <1>1, <1>4
  <2>2. Len(sent[p]) + 1 \in DOMAIN sent'[p] /\ sent'[p][Len(sent[p]) + 1] = Slot(p)
    BY <1>2, <2>1, AppendProperties, LenProperties
  <2>3. QED
    BY <1>2, <2>2 DEF Given
<1>8. ASSUME NEW s, Given(s, sent), Before(s, queue)
      PROVE  Before(s, queue')
  <2>1. Earlier(s, Slot(s.from)) /\ s.from \in Procs
    BY <1>8, SentIsBehind DEF Given
  <2>2. CASE s.from = p
    BY <1>2, <1>6, <1>8, <2>1, <2>2 DEF Before
  <2>3. CASE s.from # p
    BY <1>5, <1>8, <2>1, <2>3 DEF Before
  <2>4. QED
    BY <2>2, <2>3
<1>9. QueueSound'
  <2>1. Ordered(SlotsOf(queue'[p]))
    <3>1. /\ SlotsOf(q) \in Seq(Slots) /\ DOMAIN SlotsOf(q) = DOMAIN q
          /\ \A i \in DOMAIN q : SlotsOf(q)[i] = q[i].slot
      BY <1>5, SlotsOfType
    <3>2. \A i \in DOMAIN q : Earlier(q[i].slot, Slot(p))
      <4>1. \A i \in DOMAIN q : q[i].slot.from = p /\ Given(q[i].slot, sent)
        BY DEF BusInv, QueueSound
      <4>2. QED
        BY <4>1, SentIsBehind
    <3>3. Ordered(SlotsOf(q))
      BY DEF BusInv, QueueSound
    <3>4. SlotsOf(queue'[p]) = Append(SlotsOf(q), Slot(p))
      BY <1>2, <1>5, SlotsOfGrows
    <3>5. QED
      BY <1>2, <3>1, <3>2, <3>3, <3>4, OrderedGrows
  <2>2. \A i \in DOMAIN queue'[p] : queue'[p][i].slot.from = p /\ Given(queue'[p][i].slot, sent')
    <3>1. \A i \in DOMAIN q : q[i].slot.from = p /\ Given(q[i].slot, sent')
      BY <1>3 DEF BusInv, QueueSound
    <3>2. QED
      BY <1>2, <1>6, <1>7, <3>1
  <2>3. ASSUME NEW r \in Procs, r # p
        PROVE  /\ Ordered(SlotsOf(queue'[r]))
               /\ \A i \in DOMAIN queue'[r] : queue'[r][i].slot.from = r /\ Given(queue'[r][i].slot, sent')
    BY <1>3, <1>5, <2>3 DEF BusInv, QueueSound
  <2>4. QED
    BY <1>1, <1>2, <2>1, <2>2, <2>3 DEF QueueSound
<1>10. FlyingSound'
  <2>1. ASSUME NEW c \in flying
        PROVE  /\ Given(c.slot, sent') /\ Before(c.slot, queue') /\ SinkOf(c.transport)' = SinkOf(c.transport)
               /\ SinkOf(c.transport) \in Urls /\ \A e \in flying : e.slot = c.slot => e = c
    <3>1. /\ Given(c.slot, sent) /\ Before(c.slot, queue) /\ SinkOf(c.transport) \in Urls
          /\ \A e \in flying : e.slot = c.slot => e = c
      BY DEF BusInv, FlyingSound
    <3>2. SinkOf(c.transport)' = SinkOf(c.transport)
      BY <1>1 DEF SinkOf, TypeOf, Configured
    <3>3. QED
      BY <1>3, <1>8, <3>1, <3>2
  <2>2. QED
    BY <1>1, <2>1 DEF FlyingSound
<1>11. GotSound'
  <2>1. ASSUME NEW s \in Sinks, NEW i \in DOMAIN got[s]
        PROVE  /\ Given(got[s][i], sent') /\ Before(got[s][i], queue')
               /\ \A c \in flying : c.slot # got[s][i]
    BY <1>3, <1>8 DEF BusInv, GotSound
  <2>2. QED
    BY <1>1, <2>1 DEF GotSound
<1>12. QED
  BY <1>9, <1>10, <1>11 DEF BusInv

\* Steps that hand nothing over, write nothing and add nothing to the queues.
LEMMA QuietBus ==
    ASSUME TypeInv, BusInv, UNCHANGED <<cfg, got, sent>>, flying' \subseteq flying,
           \A p \in Procs : queue'[p] = queue[p] \/ queue'[p] = <<>>
    PROVE  BusInv'
<1>1. \A s : Given(s, sent) => Given(s, sent')
  BY DEF Given
<1>2. ASSUME NEW s, Given(s, sent), Before(s, queue)
      PROVE  Before(s, queue')
  BY <1>2 DEF Given, Before
<1>3. QueueSound'
  <2>1. ASSUME NEW p \in Procs
        PROVE  /\ Ordered(SlotsOf(queue'[p])) /\ (queue'[p] # <<>> => cfg' \in Configs)
               /\ \A i \in DOMAIN queue'[p] : queue'[p][i].slot.from = p /\ Given(queue'[p][i].slot, sent')
    <3> USE DEF BusInv, QueueSound
    <3>1. CASE queue'[p] = queue[p]
      BY <1>1, <3>1
    <3>2. CASE queue'[p] = <<>>
      BY <3>2 DEF Ordered, SlotsOf
    <3>3. QED
      BY <3>1, <3>2
  <2>2. QED
    BY <2>1 DEF QueueSound
<1>4. FlyingSound'
  <2>1. ASSUME NEW c \in flying
        PROVE  /\ Given(c.slot, sent') /\ Before(c.slot, queue') /\ SinkOf(c.transport)' \in Urls
               /\ \A e \in flying : e.slot = c.slot => e = c
    <3>1. SinkOf(c.transport)' = SinkOf(c.transport)
      BY DEF SinkOf, TypeOf, Configured
    <3>2. QED
      BY <1>1, <1>2, <3>1 DEF BusInv, FlyingSound
  <2>2. QED
    BY <2>1 DEF FlyingSound
<1>5. GotSound'
  <2>1. ASSUME NEW s \in Sinks, NEW i \in DOMAIN got[s]
        PROVE  /\ Given(got[s][i], sent') /\ Before(got[s][i], queue')
               /\ \A c \in flying : c.slot # got[s][i]
    BY <1>1, <1>2 DEF BusInv, GotSound
  <2>2. QED
    BY <2>1 DEF GotSound
<1>6. QED
  BY <1>3, <1>4, <1>5 DEF BusInv

LEMMA GotType ==
    ASSUME TypeInv
    PROVE  \A s \in Sinks : \A i \in DOMAIN got[s] : got[s][i] \in Slots
<1>1. \A s \in Sinks : got[s] \in Seq(Slots)
  BY DEF TypeInv, TypeOK
<1>2. QED
  BY <1>1

\* What the worker takes next: nobody has it yet, and it comes before the rest.
LEMMA WorkFacts ==
    ASSUME TypeInv, OrderInv, BusInv, NEW p \in Procs, Work(p), NEW c, c = Head(queue[p])
    PROVE  /\ c \in Copies /\ c.slot \in Slots /\ c.slot.from = p /\ Given(c.slot, sent)
           /\ SinkOf(c.transport) = "" \/ SinkOf(c.transport) \in Sinks
           /\ TypeOf(c.transport) = "http" /\ SinkOf(c.transport) # "" => SinkOf(c.transport) \in Urls
           /\ Before(c.slot, queue')
           /\ \A s : Before(s, queue) /\ s.from \in Procs => Before(s, queue')
           /\ \A s \in Slots : Before(s, queue) => s # c.slot /\ (s.from = p => Earlier(s, c.slot))
           /\ QueueSound'
<1>1. /\ c \in Copies /\ c = queue[p][1] /\ 1 \in DOMAIN queue[p] /\ queue[p] # <<>>
      /\ queue \in [Procs -> Seq(Copies)] /\ queue' \in [Procs -> Seq(Copies)]
      /\ \A q \in Procs : q # p => queue'[q] = queue[q]
      /\ \A i \in DOMAIN queue'[p] : i + 1 \in DOMAIN queue[p] /\ queue'[p][i] = queue[p][i + 1]
  BY WorkTakes DEF TypeInv, TypeOK, Work
<1>2. /\ c.slot.from = p /\ Given(c.slot, sent) /\ cfg \in Configs /\ Ordered(SlotsOf(queue[p]))
      /\ \A q \in Procs : \A i \in DOMAIN queue[q] : queue[q][i].slot.from = q /\ Given(queue[q][i].slot, sent)
  BY <1>1 DEF BusInv, QueueSound
<1>3. c.slot \in Slots /\ c.transport \in STRING
  BY <1>1 DEF Copies
<1>4. /\ SinkOf(c.transport) = "" \/ SinkOf(c.transport) \in Sinks
      /\ TypeOf(c.transport) = "http" /\ SinkOf(c.transport) # "" => SinkOf(c.transport) \in Urls
  BY <1>2, <1>3, SinkFacts
<1>5. UNCHANGED <<cfg, sent>>
  BY DEF Work, render
<1>6. \A i, j \in DOMAIN queue[p] : i < j => Earlier(queue[p][i].slot, queue[p][j].slot)
  <2>1. queue[p] \in Seq(Copies)
    BY <1>1
  <2>2. DOMAIN SlotsOf(queue[p]) = DOMAIN queue[p] /\ \A i \in DOMAIN queue[p] : SlotsOf(queue[p])[i] = queue[p][i].slot
    BY <2>1, SlotsOfType
  <2>3. QED
    BY <1>2, <2>2 DEF Ordered
<1>7. DOMAIN queue'[p] \subseteq Nat \ {0}
  BY <1>1
<1>8. Before(c.slot, queue')
  <2>1. ASSUME NEW j \in DOMAIN queue'[p]
        PROVE  Earlier(c.slot, queue'[p][j].slot)
    <3>1. j + 1 \in DOMAIN queue[p] /\ 1 < j + 1 /\ queue'[p][j] = queue[p][j + 1]
      BY <1>1, <1>7
    <3>2. QED
      BY <1>1, <1>6, <3>1
  <2>2. QED
    BY <1>2, <2>1 DEF Before
<1>9. ASSUME NEW s, Before(s, queue), s.from \in Procs
      PROVE  Before(s, queue')
  <2>1. CASE s.from = p
    BY <1>1, <1>9, <2>1 DEF Before
  <2>2. CASE s.from # p
    BY <1>1, <1>9, <2>2 DEF Before
  <2>3. QED
    BY <2>1, <2>2
<1>10. ASSUME NEW s \in Slots, Before(s, queue)
       PROVE  s # c.slot /\ (s.from = p => Earlier(s, c.slot))
  <2>1. s.from = p => Earlier(s, c.slot)
    BY <1>1, <1>10 DEF Before
  <2>2. QED
    BY <1>2, <1>3, <2>1, EarlierIsStrict
<1>11. QueueSound'
  <2>1. Ordered(SlotsOf(queue'[p]))
    <3>1. queue'[p] \in Seq(Copies)
      BY <1>1
    <3>2. /\ DOMAIN SlotsOf(queue'[p]) = DOMAIN queue'[p]
          /\ \A i \in DOMAIN queue'[p] : SlotsOf(queue'[p])[i] = queue'[p][i].slot
      BY <3>1, SlotsOfType
    <3>3. ASSUME NEW i \in DOMAIN queue'[p], NEW j \in DOMAIN queue'[p], i < j
          PROVE  Earlier(queue'[p][i].slot, queue'[p][j].slot)
      <4>1. i + 1 \in DOMAIN queue[p] /\ j + 1 \in DOMAIN queue[p] /\ i + 1 < j + 1
        BY <1>1, <1>7, <3>3
      <4>2. QED
        BY <1>1, <1>6, <4>1
    <3>4. QED
      BY <3>2, <3>3 DEF Ordered
  <2>2. \A i \in DOMAIN queue'[p] : queue'[p][i].slot.from = p /\ Given(queue'[p][i].slot, sent)
    BY <1>1, <1>2
  <2>3. \A q \in Procs : q # p => Ordered(SlotsOf(queue'[q]))
    BY <1>1 DEF BusInv, QueueSound
  <2>4. QED
    BY <1>1, <1>2, <1>5, <2>1, <2>2, <2>3 DEF QueueSound
<1>12. QED
  BY <1>1, <1>2, <1>3, <1>4, <1>8, <1>9, <1>10, <1>11

\* A copy that reaches a sink, and is not under way any more.
LEMMA GotGrows ==
    ASSUME TypeInv, BusInv, NEW s \in Sinks, NEW x \in Slots, UNCHANGED sent,
           got' = [got EXCEPT ![s] = Append(@, x)], flying' \subseteq flying,
           Given(x, sent), Before(x, queue'), \A c \in flying' : c.slot # x,
           \A y : Before(y, queue) /\ y.from \in Procs => Before(y, queue')
    PROVE  GotSound'
<1>1. got \in [Sinks -> Seq(Slots)]
  BY DEF TypeInv, TypeOK
<1>2. /\ got'[s] = Append(got[s], x) /\ got[s] \in Seq(Slots)
      /\ \A t \in Sinks : t # s => got'[t] = got[t]
  BY <1>1
<1>3. /\ DOMAIN got'[s] = DOMAIN got[s] \cup {Len(got[s]) + 1} /\ got'[s][Len(got[s]) + 1] = x
      /\ \A i \in DOMAIN got[s] : got'[s][i] = got[s][i]
  BY <1>2, AppendProperties, LenProperties
<1>4. ASSUME NEW t \in Sinks, NEW i \in DOMAIN got[t]
      PROVE  /\ Given(got[t][i], sent) /\ Before(got[t][i], queue')
             /\ \A c \in flying' : c.slot # got[t][i]
  <2>1. /\ Given(got[t][i], sent) /\ Before(got[t][i], queue)
        /\ \A c \in flying : c.slot # got[t][i]
    BY <1>4 DEF BusInv, GotSound
  <2>2. QED
    BY <2>1 DEF Given
<1>5. ASSUME NEW t \in Sinks, NEW i \in DOMAIN got'[t]
      PROVE  /\ Given(got'[t][i], sent') /\ Before(got'[t][i], queue')
             /\ \A c \in flying' : c.slot # got'[t][i]
  <2>1. CASE t = s /\ i = Len(got[s]) + 1
    BY <1>3, <2>1
  <2>2. CASE t # s
    BY <1>2, <1>4, <1>5, <2>2
  <2>3. CASE t = s /\ i \in DOMAIN got[s]
    BY <1>3, <1>4, <2>3
  <2>4. QED
    BY <1>3, <1>5, <2>1, <2>2, <2>3
<1>6. QED
  BY <1>5 DEF GotSound

LEMMA WorkBus ==
    ASSUME TypeInv, OrderInv, BusInv, NEW p \in Procs, Work(p)
    PROVE  BusInv'
<1> DEFINE c == Head(queue[p])
<1>1. /\ c \in Copies /\ c.slot \in Slots /\ c.slot.from = p /\ Given(c.slot, sent)
      /\ SinkOf(c.transport) = "" \/ SinkOf(c.transport) \in Sinks
      /\ TypeOf(c.transport) = "http" /\ SinkOf(c.transport) # "" => SinkOf(c.transport) \in Urls
      /\ Before(c.slot, queue') /\ QueueSound'
      /\ \A s : Before(s, queue) /\ s.from \in Procs => Before(s, queue')
      /\ \A s \in Slots : Before(s, queue) => s # c.slot
  BY WorkFacts
<1>2. UNCHANGED <<cfg, sent>>
  BY DEF Work, render
<1>3. \/ /\ TypeOf(c.transport) = "http" /\ SinkOf(c.transport) # ""
         /\ flying' = flying \cup {c} /\ UNCHANGED got
      \/ UNCHANGED <<flying, got>>
      \/ /\ SinkOf(c.transport) # "" /\ UNCHANGED flying
         /\ got' = [got EXCEPT ![SinkOf(c.transport)] = Append(@, c.slot)]
  BY DEF Work
<1>4. \A e \in flying : /\ e.slot # c.slot /\ Given(e.slot, sent) /\ Before(e.slot, queue')
                        /\ SinkOf(e.transport) \in Urls
                        /\ \A f \in flying : f.slot = e.slot => f = e
  <2>1. flying \subseteq Copies
    BY DEF TypeInv, TypeOK
  <2>2. \A e \in flying : e.slot \in Slots
    BY <2>1 DEF Copies
  <2>3. \A e \in flying : /\ Given(e.slot, sent) /\ Before(e.slot, queue) /\ SinkOf(e.transport) \in Urls
                          /\ \A f \in flying : f.slot = e.slot => f = e
    BY DEF BusInv, FlyingSound
  <2>4. QED
    BY <1>1, <2>2, <2>3 DEF Given
<1> HIDE DEF c
<1>5. \A t : SinkOf(t)' = SinkOf(t)
  BY <1>2 DEF SinkOf, TypeOf, Configured
<1>6. FlyingSound'
  <2>1. CASE flying' = flying
    BY <1>2, <1>4, <1>5, <2>1 DEF FlyingSound
  <2>2. CASE flying' = flying \cup {c} /\ SinkOf(c.transport) \in Urls
    BY <1>1, <1>2, <1>4, <1>5, <2>2 DEF FlyingSound
  <2>3. QED
    BY <1>1, <1>3, <2>1, <2>2
<1>7. GotSound'
  <2>1. \A s \in Sinks : \A i \in DOMAIN got[s] :
            /\ Given(got[s][i], sent) /\ Before(got[s][i], queue') /\ got[s][i] # c.slot
            /\ \A e \in flying : e.slot # got[s][i]
    <3>1. \A s \in Sinks : \A i \in DOMAIN got[s] :
              /\ Given(got[s][i], sent) /\ Before(got[s][i], queue)
              /\ \A e \in flying : e.slot # got[s][i]
      BY DEF BusInv, GotSound
    <3>2. \A s \in Sinks : \A i \in DOMAIN got[s] : got[s][i] \in Slots
      BY GotType
    <3>3. QED
      BY <1>1, <3>1, <3>2 DEF Given
  <2>2. CASE got' = got
    BY <1>2, <1>3, <2>1, <2>2 DEF GotSound
  <2>3. CASE /\ SinkOf(c.transport) # "" /\ UNCHANGED flying
             /\ got' = [got EXCEPT ![SinkOf(c.transport)] = Append(@, c.slot)]
    BY <1>1, <1>2, <1>4, <2>3, GotGrows
  <2>4. QED
    BY <1>3, <2>2, <2>3
<1>8. QED
  BY <1>1, <1>6, <1>7 DEF BusInv

LEMMA ArrivesBus ==
    ASSUME TypeInv, OrderInv, BusInv, NEW c \in flying, Arrives(c)
    PROVE  BusInv'
<1>1. /\ UNCHANGED <<cfg, sent, queue>> /\ flying' = flying \ {c}
      /\ got' = [got EXCEPT ![SinkOf(c.transport)] = Append(@, c.slot)]
  BY DEF Arrives, render
<1>2. /\ Given(c.slot, sent) /\ Before(c.slot, queue) /\ SinkOf(c.transport) \in Sinks
      /\ \A e \in flying : e.slot = c.slot => e = c
  BY DEF BusInv, FlyingSound, Sinks
<1>3. c.slot \in Slots
  BY DEF TypeInv, TypeOK, Copies
<1>4. GotSound'
  BY <1>1, <1>2, <1>3, GotGrows
<1>5. \A t : SinkOf(t)' = SinkOf(t)
  BY <1>1 DEF SinkOf, TypeOf, Configured
<1>6. FlyingSound'
  BY <1>1, <1>5 DEF BusInv, FlyingSound
<1>7. QueueSound'
  BY <1>1 DEF BusInv, QueueSound
<1>8. QED
  BY <1>4, <1>6, <1>7 DEF BusInv

LEMMA InitBus == Init => BusInv
<1> SUFFICES ASSUME Init
             PROVE  BusInv
  OBVIOUS
<1>1. QueueSound
  BY DEF Init, QueueSound, Ordered, SlotsOf
<1>2. FlyingSound /\ GotSound
  BY DEF Init, FlyingSound, GotSound
<1>3. QED
  BY <1>1, <1>2 DEF BusInv

LEMMA NextBus == TypeInv /\ OrderInv /\ BusInv /\ [Next]_vars => BusInv'
<1> SUFFICES ASSUME TypeInv, OrderInv, BusInv, [Next]_vars
             PROVE  BusInv'
  OBVIOUS
<1>1. ASSUME NEW p \in Procs, Walk(p)
      PROVE  BusInv'
  <2>1. CASE DispatchExternal(p)
    BY <2>1, DispatchBus
  <2>2. CASE Ignore(p) \/ NamesNone(p) \/ NotAllowlisted(p) \/ FireMcp(p)
    BY <2>2, QuietBus DEF Ignore, NamesNone, NotAllowlisted, FireMcp, Advance
  <2>3. QED
    BY <1>1, <2>1, <2>2 DEF Walk
<1>2. ASSUME NEW p \in Procs, Render(p)
      PROVE  BusInv'
  BY <1>2, QuietBus DEF Render
<1>3. ASSUME NEW p \in Procs, Exit(p)
      PROVE  BusInv'
  <2>1. UNCHANGED <<cfg, got, sent>> /\ flying' \subseteq flying
    BY <1>3 DEF Exit
  <2>2. \A q \in Procs : queue'[q] = queue[q] \/ queue'[q] = <<>>
    BY <1>3 DEF Exit, TypeInv, TypeOK
  <2>3. QED
    BY <2>1, <2>2, QuietBus
<1>4. ASSUME NEW c \in flying, Fails(c)
      PROVE  BusInv'
  BY <1>4, QuietBus DEF Fails, render
<1>5. CASE UNCHANGED vars
  BY <1>5, QuietBus DEF vars, render
<1>6. QED
  BY Steps, WorkBus, ArrivesBus, <1>1, <1>2, <1>3, <1>4, <1>5

-----------------------------------------------------------------------------
(* The bus *)

\* Of two that were given, the earlier was given first.
LEMMA EarlierIsFirst ==
    ASSUME TypeInv, OrderInv, NEW a, NEW b, Given(a, sent), Given(b, sent),
           a.from = b.from, Earlier(a, b)
    PROVE  \E j \in DOMAIN sent[b.from] : \E i \in 1..(j - 1) : sent[b.from][i] = a /\ sent[b.from][j] = b
<1> DEFINE s == sent[b.from]
<1>1. b.from \in Procs /\ s \in Seq(Slots) /\ Ordered(s)
  BY DEF Given, TypeInv, TypeOK, OrderInv, SentSound
<1>2. PICK i \in DOMAIN s, j \in DOMAIN s : s[i] = a /\ s[j] = b
  BY DEF Given
<1> HIDE DEF s
<1>3. a \in Slots /\ b \in Slots /\ i \in 1..Len(s) /\ j \in 1..Len(s) /\ Len(s) \in Nat
  BY <1>1, <1>2
<1>4. i # j /\ ~ (j < i)
  BY <1>1, <1>2, <1>3, EarlierIsStrict, SlotsHaveOneOrder DEF Ordered
<1>5. i \in 1..(j - 1)
  BY <1>3, <1>4
<1>6. QED
  BY <1>2, <1>5 DEF s

\* Nothing that was not handed over, or that came already, reaches a sink.
LEMMA ArriveStep ==
    ASSUME TypeInv, OrderInv, BusInv, NEW s \in Sinks, NEW x \in Slots, Given(x, sent),
           \A t \in Sinks : \A i \in DOMAIN got[t] : got[t][i] # x,
           s \notin Urls => \A i \in DOMAIN got[s] : got[s][i].from = x.from => Earlier(got[s][i], x),
           got' = [got EXCEPT ![s] = Append(@, x)], UNCHANGED sent
    PROVE  Bus!Next
<1>1. \E j \in DOMAIN sent[Owner(x)] : sent[Owner(x)][j] = x
  BY DEF Given, Owner
<1>2. s \notin Urls => \A i \in DOMAIN got[s] : Bus!Precedes(got[s][i], x)
  <2>1. SUFFICES ASSUME s \notin Urls, NEW i \in DOMAIN got[s], got[s][i].from = x.from
                 PROVE  \E j \in DOMAIN sent[x.from] : \E k \in 1..(j - 1) :
                            sent[x.from][k] = got[s][i] /\ sent[x.from][j] = x
    BY DEF Bus!Precedes, Owner
  <2>2. Given(got[s][i], sent) /\ Earlier(got[s][i], x)
    BY <2>1 DEF BusInv, GotSound
  <2>3. QED
    BY <2>1, <2>2, EarlierIsFirst
<1>3. Bus!Arrive(s, x)
  BY <1>1, <1>2 DEF Bus!Arrive
<1>4. QED
  BY <1>3 DEF Bus!Next

LEMMA BusStep ==
    ASSUME TypeInv, OrderInv, BusInv, [Next]_vars
    PROVE  [Bus!Next]_(Bus!vars)
<1>1. ASSUME NEW p \in Procs, Walk(p)
      PROVE  [Bus!Next]_(Bus!vars)
  <2>1. CASE DispatchExternal(p)
    <3>1. Handles(p) /\ sent' = [sent EXCEPT ![p] = Append(@, Slot(p))] /\ UNCHANGED got
      BY <2>1 DEF DispatchExternal
    <3>2. Slot(p) \in Slots /\ Slot(p).from = p
      BY <3>1, HereFacts DEF TypeInv, Copies, Slot
    <3>3. Bus!Send(p, Slot(p))
      BY <3>1, <3>2 DEF Bus!Send, Owner
    <3>4. QED
      BY <3>2, <3>3 DEF Bus!Next
  <2>2. CASE Ignore(p) \/ NamesNone(p) \/ NotAllowlisted(p) \/ FireMcp(p)
    BY <2>2 DEF Ignore, NamesNone, NotAllowlisted, FireMcp, Bus!vars
  <2>3. QED
    BY <1>1, <2>1, <2>2 DEF Walk
<1>2. ASSUME NEW p \in Procs, Render(p) \/ Exit(p)
      PROVE  [Bus!Next]_(Bus!vars)
  BY <1>2 DEF Render, Exit, Bus!vars
<1>3. ASSUME NEW p \in Procs, Work(p)
      PROVE  [Bus!Next]_(Bus!vars)
  <2> DEFINE c == Head(queue[p])
             s == SinkOf(c.transport)
  <2>1. UNCHANGED sent
    BY <1>3 DEF Work, render
  <2>2. UNCHANGED got \/ (s # "" /\ got' = [got EXCEPT ![s] = Append(@, c.slot)])
    BY <1>3 DEF Work
  <2>3. CASE UNCHANGED got
    BY <2>1, <2>3 DEF Bus!vars
  <2>4. CASE s # "" /\ got' = [got EXCEPT ![s] = Append(@, c.slot)]
    <3>1. /\ c.slot \in Slots /\ c.slot.from = p /\ Given(c.slot, sent) /\ (s = "" \/ s \in Sinks)
          /\ \A x \in Slots : Before(x, queue) => x # c.slot /\ (x.from = p => Earlier(x, c.slot))
      BY <1>3, WorkFacts
    <3>2. \A t \in Sinks : \A i \in DOMAIN got[t] : got[t][i] \in Slots /\ Before(got[t][i], queue)
      BY GotType DEF BusInv, GotSound
    <3>3. \A t \in Sinks : \A i \in DOMAIN got[t] :
              got[t][i] # c.slot /\ (got[t][i].from = p => Earlier(got[t][i], c.slot))
      BY <3>1, <3>2
    <3> HIDE DEF c
    <3>4. Bus!Next
      <4>1. \A i \in DOMAIN got[s] : got[s][i].from = c.slot.from => Earlier(got[s][i], c.slot)
        BY <2>4, <3>1, <3>3
      <4>2. s \in Sinks /\ \A t \in Sinks : \A i \in DOMAIN got[t] : got[t][i] # c.slot
        BY <2>4, <3>1, <3>3
      <4>3. c.slot \in Slots /\ Given(c.slot, sent) /\ got' = [got EXCEPT ![s] = Append(@, c.slot)]
        BY <2>4, <3>1
      <4> HIDE DEF s
      <4>4. QED
        BY <2>1, <4>1, <4>2, <4>3, ArriveStep
    <3>5. QED
      BY <3>4
  <2>5. QED
    BY <2>2, <2>3, <2>4
<1>4. ASSUME NEW c \in flying, Arrives(c)
      PROVE  [Bus!Next]_(Bus!vars)
  <2>1. UNCHANGED sent /\ got' = [got EXCEPT ![SinkOf(c.transport)] = Append(@, c.slot)]
    BY <1>4 DEF Arrives, render
  <2>2. /\ Given(c.slot, sent) /\ SinkOf(c.transport) \in Urls /\ SinkOf(c.transport) \in Sinks
        /\ \A t \in Sinks : \A i \in DOMAIN got[t] : got[t][i] # c.slot
    BY DEF BusInv, FlyingSound, GotSound, Sinks
  <2>3. c.slot \in Slots
    BY DEF TypeInv, TypeOK, Copies
  <2>4. QED
    BY <2>1, <2>2, <2>3, ArriveStep
<1>5. ASSUME NEW c \in flying, Fails(c)
      PROVE  [Bus!Next]_(Bus!vars)
  BY <1>5 DEF Fails, render, Bus!vars
<1>6. CASE UNCHANGED vars
  BY <1>6 DEF vars, render, Bus!vars
<1>7. QED
  BY Steps, <1>1, <1>2, <1>3, <1>4, <1>5, <1>6

\* Dispatch implements the bus: a copy is handed over once, reaches one sink at
\* most once, and only requests overtake each other (transports/index.ts 12-30,
\* dispatch-worker.ts 19-81).
THEOREM DispatchIsABus == Spec => ImplementsBus
<1>1. Init => Bus!Init
  BY DEF Init, Bus!Init
<1>2. TypeInv /\ OrderInv /\ BusInv /\ [Next]_vars => [Bus!Next]_(Bus!vars)
  BY BusStep
<1>3. QED
  BY InitTypes, NextTypes, InitOrder, NextOrder, InitBus, NextBus, <1>1, <1>2, PTL
  DEF Spec, ImplementsBus, Bus!Spec

=============================================================================
