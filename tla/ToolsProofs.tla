---------------------------- MODULE ToolsProofs ----------------------------
(***************************************************************************)
(* What the tools beside the server keep.  An installation (Setup): for    *)
(* any number of runs, any options and any files the first of them may     *)
(* find.  The tools that follow a document (Authoring): mai watch and mai  *)
(* render for any drafts and budgets, the editor for any lines an author   *)
(* may write.  The plugins a directive loads (Plugins): for any files in   *)
(* any directories, and any order of directives.                           *)
(***************************************************************************)
EXTENDS Setup, Authoring, Plugins, NaturalLemmas, SequenceTheorems, FiniteSetTheorems

(***************************************************************************)
(* Sequences                                                               *)
(***************************************************************************)

\* A sequence has a length, and its positions are 1 to it.
LEMMA Positions ==
    ASSUME NEW S, NEW s \in Seq(S)
    PROVE  Len(s) \in Nat /\ DOMAIN s = 1..Len(s) /\ \A i \in 1..Len(s) : s[i] \in S
BY LenProperties, ElementOfSeq

\* What a sequence is with an element at its end.
LEMMA AtTheEnd ==
    ASSUME NEW S, NEW s \in Seq(S), NEW x \in S
    PROVE  /\ Append(s, x) \in Seq(S)
           /\ Len(Append(s, x)) = Len(s) + 1
           /\ DOMAIN Append(s, x) = 1..(Len(s) + 1)
           /\ \A i \in 1..(Len(s) + 1) :
                 Append(s, x)[i] = IF i = Len(s) + 1 THEN x ELSE s[i]
<1>1. Append(s, x) \in Seq(S) /\ Len(Append(s, x)) = Len(s) + 1
  BY AppendProperties
<1>2. Len(s) \in Nat
  BY LenProperties
<1>3. DOMAIN Append(s, x) = 1..(Len(s) + 1)
  BY <1>1, LenProperties
<1>4. ASSUME NEW i \in 1..(Len(s) + 1)
      PROVE  Append(s, x)[i] = IF i = Len(s) + 1 THEN x ELSE s[i]
  <2>1. CASE i = Len(s) + 1
    BY <2>1, AppendProperties
  <2>2. CASE i # Len(s) + 1
    <3>1. i \in 1..Len(s)
      BY <2>2, <1>2
    <3>. QED  BY <2>2, <3>1, AppendProperties
  <2>. QED  BY <2>1, <2>2
<1>. QED  BY <1>1, <1>3, <1>4

\* What two sequences are one after the other.
LEMMA InARow ==
    ASSUME NEW S, NEW s \in Seq(S), NEW t \in Seq(S)
    PROVE  /\ s \o t \in Seq(S)
           /\ Len(s \o t) = Len(s) + Len(t)
           /\ DOMAIN (s \o t) = 1..(Len(s) + Len(t))
           /\ \A i \in 1..Len(s) : (s \o t)[i] = s[i]
           /\ \A i \in 1..Len(t) : (s \o t)[Len(s) + i] = t[i]
<1>1. s \o t \in Seq(S) /\ Len(s \o t) = Len(s) + Len(t)
  BY ConcatProperties
<1>2. Len(s) \in Nat /\ Len(t) \in Nat
  BY LenProperties
<1>3. DOMAIN (s \o t) = 1..(Len(s) + Len(t))
  BY <1>1, LenProperties
<1>4. ASSUME NEW i \in 1..Len(s) PROVE (s \o t)[i] = s[i]
  BY <1>2, ConcatProperties
<1>5. ASSUME NEW i \in 1..Len(t) PROVE (s \o t)[Len(s) + i] = t[i]
  <2>1. Len(s) + i \in 1..(Len(s) + Len(t)) /\ Len(s) + i > Len(s) /\ (Len(s) + i) - Len(s) = i
    BY <1>2
  <2>. QED  BY <2>1, ConcatProperties
<1>. QED  BY <1>1, <1>3, <1>4, <1>5

\* What a part of a sequence is.
LEMMA PartOf ==
    ASSUME NEW S, NEW s \in Seq(S), NEW m \in 1..(Len(s) + 1), NEW n \in 0..Len(s), m <= n + 1
    PROVE  /\ SubSeq(s, m, n) \in Seq(S)
           /\ Len(SubSeq(s, m, n)) = (n - m) + 1
           /\ DOMAIN SubSeq(s, m, n) = 1..((n - m) + 1)
           /\ \A i \in 1..((n - m) + 1) : SubSeq(s, m, n)[i] = s[(m + i) - 1]
<1>0. Len(s) \in Nat /\ DOMAIN s = 1..Len(s)
  BY LenProperties
<1>1. ASSUME NEW i \in m..n PROVE s[i] \in S
  <2>1. i \in 1..Len(s)
    BY <1>0
  <2>. QED  BY <2>1, ElementOfSeq
<1>2. m \in Int /\ n \in Int /\ (n - m) + 1 \in Nat
  BY <1>0
<1>3. /\ SubSeq(s, m, n) \in Seq(S)
      /\ Len(SubSeq(s, m, n)) = IF m <= n THEN n-m+1 ELSE 0
      /\ \A i \in 1 .. n-m+1 : SubSeq(s, m, n)[i] = s[m+i-1]
  BY <1>1, <1>2, SubSeqProperties
<1>4. Len(SubSeq(s, m, n)) = (n - m) + 1
  BY <1>2, <1>3
<1>5. DOMAIN SubSeq(s, m, n) = 1..((n - m) + 1)
  BY <1>3, <1>4, LenProperties
<1>. QED  BY <1>3, <1>4, <1>5

(***************************************************************************)
(* CLAUDE.md: what the changes of its text keep, position by position      *)
(***************************************************************************)

LEMMA TokensAre ==
    /\ "nl" \in Tokens /\ "start" \in Tokens /\ "body" \in Tokens /\ "end" \in Tokens
    /\ UserLines \subseteq Tokens
BY DEF Tokens

LEMMA NoUserLine ==
    "nl" \notin UserLines /\ "start" \notin UserLines /\ "body" \notin UserLines /\ "end" \notin UserLines
BY SetupAssumption

LEMMA SectionIs ==
    /\ Section \in Seq(Tokens) /\ Len(Section) = 3
    /\ Section[1] = "start" /\ Section[2] = "body" /\ Section[3] = "end"
BY TokensAre DEF Section

\* What is left when the line ends a text ends with are cut off.
LEMMA TrimmedEndIs ==
    ASSUME NEW t \in Seq(Tokens)
    PROVE  \E k \in 0..Len(t) :
              /\ TrimmedEnd(t) = SubSeq(t, 1, k)
              /\ k = 0 \/ t[k] # "nl"
              /\ \A i \in 1..Len(t) : i > k => t[i] = "nl"
<1>. DEFINE S == {0} \cup { i \in DOMAIN t : t[i] # "nl" }
            k == Max(S)
<1>1. Len(t) \in Nat /\ DOMAIN t = 1..Len(t)
  BY LenProperties
<1>2. S \in SUBSET (0..Len(t)) /\ S # {}
  BY <1>1
<1>3. k \in S /\ \A i \in S : i <= k
  <2>. HIDE DEF S
  <2>. QED  BY <1>1, <1>2, MaxOf
<1>4. TrimmedEnd(t) = SubSeq(t, 1, k)
  BY DEF TrimmedEnd
<1>5. k \in 0..Len(t) /\ (k = 0 \/ t[k] # "nl")
  <2>. HIDE DEF k
  <2>. QED  BY <1>2, <1>3
<1>6. ASSUME NEW i \in 1..Len(t), i > k PROVE t[i] = "nl"
  <2>1. i \in Int /\ k \in Int
    BY <1>1, <1>5
  <2>2. i \notin S
    <3>. HIDE DEF S, k
    <3>. QED  BY <2>1, <1>3, <1>6
  <2>. QED  BY <1>1, <2>2
<1>. QED  BY <1>4, <1>5, <1>6

\* The same at its start.
LEMMA TrimmedStartIs ==
    ASSUME NEW t \in Seq(Tokens)
    PROVE  \E k \in 1..(Len(t) + 1) :
              /\ TrimmedStart(t) = SubSeq(t, k, Len(t))
              /\ k = Len(t) + 1 \/ t[k] # "nl"
              /\ \A i \in 1..Len(t) : i < k => t[i] = "nl"
<1>. DEFINE S == {Len(t) + 1} \cup { i \in DOMAIN t : t[i] # "nl" }
            k == Min(S)
<1>1. Len(t) \in Nat /\ DOMAIN t = 1..Len(t)
  BY LenProperties
<1>2. S \in SUBSET (1..(Len(t) + 1)) /\ S \in SUBSET Nat /\ S # {}
  BY <1>1
<1>3. k \in S /\ \A i \in S : k <= i
  <2>. HIDE DEF S
  <2>. QED  BY <1>2, MinOf
<1>4. TrimmedStart(t) = SubSeq(t, k, Len(t))
  BY DEF TrimmedStart
<1>5. k \in 1..(Len(t) + 1) /\ (k = Len(t) + 1 \/ t[k] # "nl")
  <2>. HIDE DEF k
  <2>. QED  BY <1>2, <1>3
<1>6. ASSUME NEW i \in 1..Len(t), i < k PROVE t[i] = "nl"
  <2>1. i \in Int /\ k \in Int
    BY <1>1, <1>5
  <2>2. i \notin S
    <3>. HIDE DEF S, k
    <3>. QED  BY <2>1, <1>3, <1>6
  <2>. QED  BY <1>1, <2>2
<1>. QED  BY <1>4, <1>5, <1>6

\* Where the section of t is, from first to last, and where the text around it
\* ends and goes on, without the line ends next to it.
Around(t, first, last, b, a) ==
    /\ first \in 1..Len(t) /\ last \in first..Len(t)
    /\ t[first] = "start" /\ \A i \in 1..Len(t) : i < first => t[i] # "start"
    /\ \A i \in first..Len(t) : i < last => t[i] # "end"
    /\ t[last] = "end" \/ last = Len(t)
    /\ b \in 0..(first - 1) /\ (b = 0 \/ t[b] # "nl")
    /\ \A i \in 1..(first - 1) : i > b => t[i] = "nl"
    /\ a \in (last + 1)..(Len(t) + 1) /\ (a = Len(t) + 1 \/ t[a] # "nl")
    /\ \A i \in (last + 1)..Len(t) : i < a => t[i] = "nl"

Gap(t, b, a) == IF b = 0 \/ a = Len(t) + 1 THEN 0 ELSE 2

\* u is t up to b, a gap, and t from a on.
Joined(t, b, a, u) ==
    /\ u \in Seq(Tokens)
    /\ Len(u) = b + Gap(t, b, a) + ((Len(t) + 1) - a)
    /\ \A i \in 1..b : u[i] = t[i]
    /\ \A i \in 1..Len(u) : b < i /\ i <= b + Gap(t, b, a) => u[i] = "nl"
    /\ \A i \in 1..((Len(t) + 1) - a) : u[b + Gap(t, b, a) + i] = t[a - 1 + i]

LEMMA JoinedBy ==
    ASSUME NEW t, NEW b, NEW a, NEW u, NEW g, Gap(t, b, a) = g,
           u \in Seq(Tokens),
           Len(u) = (b + g) + ((Len(t) + 1) - a),
           \A i \in 1..b : u[i] = t[i],
           \A i \in 1..Len(u) : b < i /\ i <= b + g => u[i] = "nl",
           \A i \in 1..((Len(t) + 1) - a) : u[(b + g) + i] = t[(a - 1) + i]
    PROVE  Joined(t, b, a, u)
BY Zenon DEF Joined

\* The section ends at the next end marker, if there is one.
EndsRight(t, last) == WellFormed(t) => t[last] = "end"

LEMMA StrippedIs ==
    ASSUME NEW t \in Seq(Tokens), HasMarker(t)
    PROVE  \E first, last, b, a \in Nat :
              /\ Around(t, first, last, b, a) /\ EndsRight(t, last)
              /\ Joined(t, b, a, stripClaudeMdSection(t))
<1>. DEFINE L == Len(t)
            starts == { i \in DOMAIN t : t[i] = "start" }
            first == Min(starts)
            ends  == { i \in first..L : t[i] = "end" }
            last  == IF ends = {} THEN L ELSE Min(ends)
            p == SubSeq(t, 1, first - 1)
            q == SubSeq(t, last + 1, L)
            before == TrimmedEnd(p)
            after  == TrimmedStart(q)
<1>1. L \in Nat /\ DOMAIN t = 1..L
  BY LenProperties
<1>2. first \in 1..L /\ t[first] = "start" /\ \A i \in 1..L : i < first => t[i] # "start"
  <2>1. starts # {} /\ starts \in SUBSET Nat
    BY <1>1 DEF HasMarker, Contains
  <2>2. first \in starts /\ \A i \in starts : first <= i
    <3>. HIDE DEF starts
    <3>. QED  BY <2>1, MinOf
  <2>3. first \in 1..L /\ t[first] = "start"
    <3>. HIDE DEF first
    <3>. QED  BY <1>1, <2>2
  <2>4. ASSUME NEW i \in 1..L, i < first PROVE t[i] # "start"
    <3>1. i \in Int /\ first \in Int
      BY <1>1, <2>3
    <3>2. i \notin starts
      <4>. HIDE DEF starts, first
      <4>. QED  BY <3>1, <2>2, <2>4
    <3>. QED  BY <1>1, <3>2
  <2>. QED  BY <2>3, <2>4
<1>. HIDE DEF first
<1>3. /\ last \in first..L
      /\ \A i \in first..L : i < last => t[i] # "end"
      /\ t[last] = "end" \/ last = L
      /\ EndsRight(t, last)
  <2>1. CASE ends = {}
    <3>1. last = L
      BY <2>1
    <3>2. \A i \in first..L : t[i] # "end"
      BY <2>1
    <3>3. ~ WellFormed(t)
      <4>1. first \in DOMAIN t
        BY <1>1, <1>2
      <4>. QED  BY <4>1, <1>2, <3>2 DEF WellFormed
    <3>. HIDE DEF last
    <3>. QED  BY <1>1, <1>2, <3>1, <3>2, <3>3 DEF EndsRight
  <2>2. CASE ends # {}
    <3>1. last = Min(ends)
      BY <2>2
    <3>2. ends \in SUBSET Nat
      BY <1>1, <1>2
    <3>3. Min(ends) \in ends /\ \A i \in ends : Min(ends) <= i
      <4>. HIDE DEF ends
      <4>. QED  BY <2>2, <3>2, MinOf
    <3>4. last \in ends /\ \A i \in ends : last <= i
      <4>. HIDE DEF ends
      <4>. QED  BY <3>1, <3>3
    <3>5. last \in first..L /\ t[last] = "end"
      <4>. HIDE DEF last
      <4>. QED  BY <3>4
    <3>6. ASSUME NEW i \in first..L, i < last PROVE t[i] # "end"
      <4>1. i \in Int /\ last \in Int
        <5>. HIDE DEF last
        <5>. QED  BY <1>1, <1>2, <3>5
      <4>2. i \notin ends
        <5>. HIDE DEF ends, last
        <5>. QED  BY <4>1, <3>4, <3>6
      <4>. QED  BY <4>2
    <3>. HIDE DEF last
    <3>. QED  BY <3>5, <3>6 DEF EndsRight
  <2>. QED  BY <2>1, <2>2
<1>. HIDE DEF last
<1>i. /\ L \in Nat /\ first \in Nat /\ last \in Nat
      /\ 1 <= first /\ first <= last /\ last <= L
  <2>1. first \in 1..L /\ last \in first..L /\ L \in Nat
    BY <1>1, <1>2, <1>3
  <2>. HIDE DEF L
  <2>. QED  BY <2>1
<1>4. /\ p \in Seq(Tokens) /\ Len(p) = first - 1 /\ \A i \in 1..(first - 1) : p[i] = t[i]
  <2>1. 1 \in 1..(L + 1) /\ first - 1 \in 0..L /\ 1 <= (first - 1) + 1 /\ ((first - 1) - 1) + 1 = first - 1
    BY <1>i
  <2>2. \A i \in 1..(first - 1) : (1 + i) - 1 = i
    BY <1>i
  <2>. QED  BY <2>1, <2>2, PartOf
<1>5. /\ q \in Seq(Tokens) /\ Len(q) = L - last /\ \A i \in 1..(L - last) : q[i] = t[last + i]
  <2>1. last + 1 \in 1..(L + 1) /\ L \in 0..L /\ last + 1 <= L + 1 /\ (L - (last + 1)) + 1 = L - last
    BY <1>i
  <2>2. \A i \in 1..(L - last) : ((last + 1) + i) - 1 = last + i
    BY <1>i
  <2>. QED  BY <2>1, <2>2, PartOf
<1>. HIDE DEF p, q
<1>6. PICK b \in 0..(first - 1) :
          /\ before = SubSeq(p, 1, b)
          /\ b = 0 \/ p[b] # "nl"
          /\ \A i \in 1..(first - 1) : i > b => p[i] = "nl"
  BY <1>4, TrimmedEndIs
<1>7. PICK c \in 1..((L - last) + 1) :
          /\ after = SubSeq(q, c, L - last)
          /\ c = (L - last) + 1 \/ q[c] # "nl"
          /\ \A i \in 1..(L - last) : i < c => q[i] = "nl"
  BY <1>5, TrimmedStartIs
<1>. DEFINE a == last + c
<1>8. /\ a \in (last + 1)..(L + 1) /\ a \in Nat /\ b \in Nat /\ b <= first - 1
      /\ c = (a - last) /\ c \in Nat
  BY <1>i
<1>9. Around(t, first, last, b, a)
  <2>1. b = 0 \/ t[b] # "nl"
    <3>1. b = 0 \/ b \in 1..(first - 1)
      BY <1>i
    <3>. QED  BY <3>1, <1>4, <1>6
  <2>2. \A i \in 1..(first - 1) : i > b => t[i] = "nl"
    BY <1>4, <1>6
  <2>3. a = L + 1 \/ t[a] # "nl"
    <3>1. c = (L - last) + 1 \/ c \in 1..(L - last)
      BY <1>i
    <3>2. c = (L - last) + 1 => a = L + 1
      BY <1>i
    <3>. QED  BY <3>1, <3>2, <1>5, <1>7
  <2>4. ASSUME NEW i \in (last + 1)..L, i < a PROVE t[i] = "nl"
    <3>1. i - last \in 1..(L - last) /\ i - last < c /\ last + (i - last) = i
      BY <1>i, <1>8, <2>4
    <3>2. q[i - last] = "nl" /\ q[i - last] = t[last + (i - last)]
      BY <3>1, <1>5, <1>7
    <3>. QED  BY <3>1, <3>2
  <2>. HIDE DEF a
  <2>. QED  BY <1>2, <1>3, <1>8, <2>1, <2>2, <2>3, <2>4 DEF Around
<1>10. /\ before \in Seq(Tokens) /\ Len(before) = b /\ \A i \in 1..b : before[i] = t[i]
  <2>1. b \in 0..Len(p) /\ 1 \in 1..(Len(p) + 1) /\ 1 <= b + 1 /\ (b - 1) + 1 = b
    BY <1>i, <1>4
  <2>2. \A i \in 1..b : (1 + i) - 1 = i /\ i \in 1..(first - 1)
    BY <1>i
  <2>3. /\ SubSeq(p, 1, b) \in Seq(Tokens) /\ Len(SubSeq(p, 1, b)) = b
        /\ \A i \in 1..b : SubSeq(p, 1, b)[i] = p[(1 + i) - 1]
    BY <2>1, <1>4, PartOf
  <2>. QED  BY <2>2, <2>3, <1>4, <1>6
<1>11. /\ after \in Seq(Tokens) /\ Len(after) = (L + 1) - a
       /\ \A i \in 1..((L + 1) - a) : after[i] = t[(a - 1) + i]
  <2>1. c \in 1..(Len(q) + 1) /\ Len(q) \in 0..Len(q) /\ c <= Len(q) + 1 /\ (Len(q) - c) + 1 = (L + 1) - a
    <3>1. Len(q) = L - last
      BY <1>5
    <3>. QED  BY <3>1, <1>i, <1>8
  <2>2. /\ SubSeq(q, c, Len(q)) \in Seq(Tokens) /\ Len(SubSeq(q, c, Len(q))) = (L + 1) - a
        /\ \A i \in 1..((L + 1) - a) : SubSeq(q, c, Len(q))[i] = q[(c + i) - 1]
    BY <2>1, <1>5, PartOf
  <2>3. ASSUME NEW i \in 1..((L + 1) - a) PROVE q[(c + i) - 1] = t[(a - 1) + i]
    <3>1. (c + i) - 1 \in 1..(L - last) /\ last + ((c + i) - 1) = (a - 1) + i
      BY <1>i
    <3>. QED  BY <3>1, <1>5
  <2>. QED  BY <2>2, <2>3, <1>5, <1>7
<1>12. stripClaudeMdSection(t) =
           IF before = <<>> \/ after = <<>> THEN before \o after
           ELSE before \o <<"nl", "nl">> \o after
  BY DEF stripClaudeMdSection, first, last, p, q
<1>. HIDE DEF before, after, a
<1>13. (before = <<>>) = (b = 0) /\ (after = <<>>) = (a = L + 1)
  <2>1. (before = <<>>) = (b = 0)
    BY <1>10, EmptySeq
  <2>2. (after = <<>>) = ((L + 1) - a = 0)
    BY <1>11, EmptySeq
  <2>. QED  BY <1>1, <1>8, <2>1, <2>2
<1>14. Joined(t, b, a, stripClaudeMdSection(t))
  <2>. DEFINE u == stripClaudeMdSection(t)
  <2>1. CASE b = 0 \/ a = L + 1
    <3>1. u = before \o after /\ Gap(t, b, a) = 0
      BY <2>1, <1>12, <1>13 DEF Gap
    <3>2. /\ before \o after \in Seq(Tokens)
          /\ Len(before \o after) = Len(before) + Len(after)
          /\ \A i \in 1..Len(before) : (before \o after)[i] = before[i]
          /\ \A i \in 1..Len(after) : (before \o after)[Len(before) + i] = after[i]
      <4>1. before \in Seq(Tokens) /\ after \in Seq(Tokens)
        BY <1>10, <1>11
      <4>. QED  BY <4>1, InARow
    <3>3. /\ u \in Seq(Tokens) /\ Len(u) = b + ((L + 1) - a)
          /\ \A i \in 1..b : u[i] = t[i]
          /\ \A i \in 1..((L + 1) - a) : u[b + i] = t[(a - 1) + i]
      <4>. HIDE DEF u
      <4>. QED  BY <3>1, <3>2, <1>10, <1>11, SMTT(30)
    <3>. HIDE DEF u
    <3>4. b + 0 = b
      BY <1>8
    <3>5. ASSUME NEW i \in 1..Len(u), b < i, i <= b + 0 PROVE u[i] = "nl"
      <4>1. i \in Nat
        BY <3>3, LenProperties
      <4>. QED  BY <4>1, <1>8, <3>4, <3>5
    <3>6. /\ Len(u) = (b + 0) + ((Len(t) + 1) - a)
          /\ \A i \in 1..((Len(t) + 1) - a) : u[(b + 0) + i] = t[(a - 1) + i]
      BY <3>3, <3>4, Zenon
    <3>7. Joined(t, b, a, u)
      BY <3>1, <3>3, <3>5, <3>6, JoinedBy, ZenonT(30)
    <3>. QED  BY <3>7 DEF u
  <2>2. CASE ~ (b = 0 \/ a = L + 1)
    <3>. DEFINE gap == <<"nl", "nl">>
                w == before \o gap
    <3>1. u = w \o after /\ Gap(t, b, a) = 2
      BY <2>2, <1>12, <1>13 DEF Gap
    <3>2. gap \in Seq(Tokens) /\ Len(gap) = 2 /\ gap[1] = "nl" /\ gap[2] = "nl"
      BY TokensAre
    <3>. HIDE DEF gap
    <3>3. /\ w \in Seq(Tokens) /\ Len(w) = b + 2
          /\ \A i \in 1..b : w[i] = t[i]
          /\ w[b + 1] = "nl" /\ w[b + 2] = "nl"
      <4>1. /\ w \in Seq(Tokens) /\ Len(w) = Len(before) + Len(gap)
            /\ \A i \in 1..Len(before) : w[i] = before[i]
            /\ \A i \in 1..Len(gap) : w[Len(before) + i] = gap[i]
        <5>1. before \in Seq(Tokens) /\ gap \in Seq(Tokens)
          BY <3>2, <1>10
        <5>. QED  BY <5>1, InARow
      <4>2. 1 \in 1..2 /\ 2 \in 1..2
        OBVIOUS
      <4>. HIDE DEF w
      <4>. QED  BY <4>1, <4>2, <3>2, <1>10
    <3>. HIDE DEF w
    <3>4. /\ u \in Seq(Tokens) /\ Len(u) = (b + 2) + ((L + 1) - a)
          /\ \A i \in 1..(b + 2) : u[i] = w[i]
          /\ \A i \in 1..((L + 1) - a) : u[(b + 2) + i] = t[(a - 1) + i]
      <4>1. /\ u \in Seq(Tokens) /\ Len(u) = Len(w) + Len(after)
            /\ \A i \in 1..Len(w) : u[i] = w[i]
            /\ \A i \in 1..Len(after) : u[Len(w) + i] = after[i]
        <5>1. w \in Seq(Tokens) /\ after \in Seq(Tokens)
          BY <3>3, <1>11
        <5>2. u = w \o after
          BY <3>1
        <5>. HIDE DEF u
        <5>. QED  BY <5>1, <5>2, InARow
      <4>. HIDE DEF u
      <4>. QED  BY <4>1, <3>3, <1>11
    <3>5. ASSUME NEW i \in 1..Len(u), b < i, i <= b + 2 PROVE u[i] = "nl"
      <4>1. i \in Nat /\ b \in Nat
        BY <3>4, <1>8, <3>5, LenProperties
      <4>2. i = b + 1 \/ i = b + 2
        BY <4>1, <3>5
      <4>3. u[i] = w[i]
        BY <4>1, <3>4, <3>5
      <4>. QED  BY <4>2, <4>3, <3>3
    <3>6. ASSUME NEW i \in 1..b PROVE u[i] = t[i]
      <4>1. i \in 1..(b + 2)
        BY <1>8
      <4>. QED  BY <4>1, <3>3, <3>4
    <3>. HIDE DEF u
    <3>7. /\ Len(u) = (b + 2) + ((Len(t) + 1) - a)
          /\ \A i \in 1..((Len(t) + 1) - a) : u[(b + 2) + i] = t[(a - 1) + i]
      BY <3>4, Zenon
    <3>8. Joined(t, b, a, u)
      BY <3>1, <3>4, <3>5, <3>6, <3>7, JoinedBy
    <3>. QED  BY <3>8 DEF u
  <2>. QED  BY <2>1, <2>2
<1>15. first \in Nat /\ last \in Nat /\ b \in Nat /\ a \in Nat
  BY <1>i, <1>8
<1>. QED  BY <1>3, <1>9, <1>14, <1>15, Zenon

\* The section comes after the text and one or two line ends, and before one.
LEMMA AppendedIs ==
    ASSUME NEW t \in Seq(Tokens)
    PROVE  \E k \in {1, 2} :
              /\ Appended(t) \in Seq(Tokens) /\ Len(Appended(t)) = Len(t) + (k + 4)
              /\ \A i \in 1..Len(t) : Appended(t)[i] = t[i]
              /\ \A i \in 1..k : Appended(t)[Len(t) + i] = "nl"
              /\ Appended(t)[Len(t) + (k + 1)] = "start"
              /\ Appended(t)[Len(t) + (k + 2)] = "body"
              /\ Appended(t)[Len(t) + (k + 3)] = "end"
              /\ Appended(t)[Len(t) + (k + 4)] = "nl"
<1>1. ASSUME NEW k \in {1, 2}, NEW g \in Seq(Tokens), Len(g) = k, \A i \in 1..k : g[i] = "nl",
             Appended(t) = t \o g \o Section \o <<"nl">>
      PROVE  /\ Appended(t) \in Seq(Tokens) /\ Len(Appended(t)) = Len(t) + (k + 4)
             /\ \A i \in 1..Len(t) : Appended(t)[i] = t[i]
             /\ \A i \in 1..k : Appended(t)[Len(t) + i] = "nl"
             /\ Appended(t)[Len(t) + (k + 1)] = "start"
             /\ Appended(t)[Len(t) + (k + 2)] = "body"
             /\ Appended(t)[Len(t) + (k + 3)] = "end"
             /\ Appended(t)[Len(t) + (k + 4)] = "nl"
  <2>. DEFINE v == t \o g
              w == v \o Section
              x == w \o <<"nl">>
  <2>1. /\ <<"nl">> \in Seq(Tokens) /\ Len(<<"nl">>) = 1 /\ <<"nl">>[1] = "nl"
        /\ Section \in Seq(Tokens) /\ Len(Section) = 3 /\ Len(t) \in Nat /\ k \in Nat
    BY TokensAre, SectionIs, LenProperties
  <2>2. /\ v \in Seq(Tokens) /\ Len(v) = Len(t) + Len(g)
        /\ \A i \in 1..Len(t) : v[i] = t[i]
        /\ \A i \in 1..Len(g) : v[Len(t) + i] = g[i]
    BY InARow
  <2>. HIDE DEF v
  <2>3. /\ w \in Seq(Tokens) /\ Len(w) = Len(v) + Len(Section)
        /\ \A i \in 1..Len(v) : w[i] = v[i]
        /\ \A i \in 1..Len(Section) : w[Len(v) + i] = Section[i]
    <3>1. v \in Seq(Tokens) /\ Section \in Seq(Tokens)
      BY <2>1, <2>2
    <3>. QED  BY <3>1, InARow
  <2>. HIDE DEF w
  <2>4. /\ x \in Seq(Tokens) /\ Len(x) = Len(w) + Len(<<"nl">>)
        /\ \A i \in 1..Len(w) : x[i] = w[i]
        /\ \A i \in 1..Len(<<"nl">>) : x[Len(w) + i] = <<"nl">>[i]
    <3>1. w \in Seq(Tokens) /\ <<"nl">> \in Seq(Tokens)
      BY <2>1, <2>3
    <3>. QED  BY <3>1, InARow
  <2>5. x = Appended(t)
    BY <1>1 DEF w, v
  <2>. HIDE DEF x
  <2>6. Len(v) = Len(t) + k /\ Len(w) = Len(t) + (k + 3) /\ Len(x) = Len(t) + (k + 4)
    BY <1>1, <2>1, <2>2, <2>3, <2>4
  <2>7. ASSUME NEW i \in 1..Len(t) PROVE x[i] = t[i]
    <3>1. i \in 1..Len(v) /\ i \in 1..Len(w)
      BY <2>1, <2>6
    <3>. QED  BY <3>1, <2>2, <2>3, <2>4
  <2>8. ASSUME NEW i \in 1..k PROVE x[Len(t) + i] = "nl"
    <3>1. Len(t) + i \in 1..Len(v) /\ Len(t) + i \in 1..Len(w)
      BY <2>1, <2>6
    <3>2. v[Len(t) + i] = g[i] /\ g[i] = "nl"
      BY <1>1, <2>2
    <3>3. x[Len(t) + i] = w[Len(t) + i] /\ w[Len(t) + i] = v[Len(t) + i]
      BY <3>1, <2>3, <2>4
    <3>. QED  BY <3>2, <3>3
  <2>9. ASSUME NEW i \in 1..3 PROVE x[Len(t) + (k + i)] = Section[i]
    <3>1. Len(v) + i = Len(t) + (k + i) /\ Len(v) + i \in 1..Len(w)
      BY <2>1, <2>6
    <3>2. w[Len(v) + i] = Section[i]
      BY <2>1, <2>3
    <3>3. x[Len(v) + i] = w[Len(v) + i]
      BY <3>1, <2>4
    <3>. QED  BY <3>1, <3>2, <3>3
  <2>10. x[Len(t) + (k + 4)] = "nl"
    <3>1. Len(w) + 1 = Len(t) + (k + 4) /\ 1 \in 1..Len(<<"nl">>)
      BY <2>1, <2>6
    <3>. QED  BY <3>1, <2>1, <2>4
  <2>11. 1 \in 1..3 /\ 2 \in 1..3 /\ 3 \in 1..3
    OBVIOUS
  <2>. QED  BY <2>4, <2>5, <2>6, <2>7, <2>8, <2>9, <2>10, <2>11, SectionIs
<1>2. CASE t # <<>> /\ Last(t) = "nl"
  <2>1. Appended(t) = t \o <<"nl">> \o Section \o <<"nl">>
    BY <1>2 DEF Appended
  <2>2. <<"nl">> \in Seq(Tokens) /\ Len(<<"nl">>) = 1 /\ \A i \in 1..1 : <<"nl">>[i] = "nl"
    BY TokensAre
  <2>. QED  BY <1>1, <2>1, <2>2
<1>3. CASE ~ (t # <<>> /\ Last(t) = "nl")
  <2>1. Appended(t) = t \o <<"nl", "nl">> \o Section \o <<"nl">>
    BY <1>3 DEF Appended
  <2>2. /\ <<"nl", "nl">> \in Seq(Tokens) /\ Len(<<"nl", "nl">>) = 2
        /\ \A i \in 1..2 : <<"nl", "nl">>[i] = "nl"
    BY TokensAre
  <2>. QED  BY <1>1, <2>1, <2>2
<1>. QED  BY <1>2, <1>3

NoStart(t) == \A i \in 1..Len(t) : t[i] # "start"

\* Taking off the section that was added leaves the text, without the line ends
\* it ended with.
LEMMA StrippedOfAppended ==
    ASSUME NEW u \in Seq(Tokens), NoStart(u)
    PROVE  /\ HasMarker(Appended(u))
           /\ stripClaudeMdSection(Appended(u)) = TrimmedEnd(u)
<1>. DEFINE w == Appended(u)
            L == Len(u)
<1>1. PICK k \in {1, 2} :
          /\ w \in Seq(Tokens) /\ Len(w) = L + (k + 4)
          /\ \A i \in 1..L : w[i] = u[i]
          /\ \A i \in 1..k : w[L + i] = "nl"
          /\ w[L + (k + 1)] = "start" /\ w[L + (k + 2)] = "body"
          /\ w[L + (k + 3)] = "end" /\ w[L + (k + 4)] = "nl"
  BY AppendedIs
<1>. HIDE DEF w
<1>2. L \in Nat /\ k \in Nat /\ L + (k + 1) \in 1..Len(w)
  <2>1. L \in Nat
    BY LenProperties
  <2>. QED  BY <1>1, <2>1
<1>3. HasMarker(w)
  BY <1>1, <1>2 DEF HasMarker, Contains
<1>4. PICK first, last, b, a \in Nat :
          Around(w, first, last, b, a) /\ EndsRight(w, last) /\ Joined(w, b, a, stripClaudeMdSection(w))
  BY <1>1, <1>3, StrippedIs
<1>5. ASSUME NEW i \in 1..(L + k) PROVE w[i] # "start" /\ (i > L => w[i] = "nl")
  <2>1. CASE i <= L
    <3>1. i \in 1..L
      BY <2>1, <1>2
    <3>. QED  BY <3>1, <2>1, <1>1, <1>2 DEF NoStart
  <2>2. CASE i > L
    <3>1. i - L \in 1..k /\ L + (i - L) = i
      BY <2>2, <1>2
    <3>. QED  BY <3>1, <1>1
  <2>. QED  BY <2>1, <2>2, <1>2
<1>6. first = L + (k + 1)
  <2>1. first \in 1..Len(w) /\ w[first] = "start" /\ \A i \in 1..Len(w) : i < first => w[i] # "start"
    BY <1>4 DEF Around
  <2>2. ~ (first < L + (k + 1))
    <3>1. ASSUME first < L + (k + 1) PROVE first \in 1..(L + k)
      BY <3>1, <2>1, <1>2
    <3>. QED  BY <3>1, <1>5, <2>1
  <2>3. ~ (L + (k + 1) < first)
    BY <2>1, <1>1, <1>2
  <2>. QED  BY <2>1, <2>2, <2>3, <1>2
<1>7. last = L + (k + 3)
  <2>1. /\ last \in first..Len(w) /\ (w[last] = "end" \/ last = Len(w))
        /\ \A i \in first..Len(w) : i < last => w[i] # "end"
    BY <1>4 DEF Around
  <2>2. L + (k + 3) \in first..Len(w)
    BY <1>1, <1>2, <1>6
  <2>3. ~ (L + (k + 3) < last)
    BY <2>1, <2>2, <1>1
  <2>4. last \in Nat /\ last >= L + (k + 1)
    BY <2>1, <1>6, <1>2
  <2>5. last # L + (k + 1) /\ last # L + (k + 2)
    BY <2>1, <1>1, <1>2
  <2>. QED  BY <2>3, <2>4, <2>5, <1>2
<1>8. a = Len(w) + 1
  <2>1. a \in (last + 1)..(Len(w) + 1) /\ (a = Len(w) + 1 \/ w[a] # "nl")
    BY <1>4 DEF Around
  <2>2. a = L + (k + 4) \/ a = Len(w) + 1
    BY <2>1, <1>1, <1>2, <1>7
  <2>. QED  BY <2>1, <2>2, <1>1
<1>9. /\ b \in 0..(first - 1) /\ (b = 0 \/ w[b] # "nl")
      /\ \A i \in 1..(first - 1) : i > b => w[i] = "nl"
  BY <1>4 DEF Around
<1>10. b \in 0..L
  <2>1. CASE b > L
    <3>1. b \in 1..(L + k)
      BY <2>1, <1>2, <1>6, <1>9
    <3>2. w[b] = "nl"
      BY <2>1, <3>1, <1>5
    <3>3. b # 0
      BY <3>1
    <3>. QED  BY <3>2, <3>3, <1>9
  <2>. QED  BY <2>1, <1>2, <1>9
<1>. DEFINE s == stripClaudeMdSection(w)
<1>11. s \in Seq(Tokens) /\ Len(s) = b /\ \A i \in 1..b : s[i] = u[i]
  <2>1. s \in Seq(Tokens) /\ Len(s) = (b + 0) + ((Len(w) + 1) - a) /\ \A i \in 1..b : s[i] = w[i]
    BY <1>4, <1>8 DEF Joined, Gap
  <2>2. (b + 0) + ((Len(w) + 1) - a) = b
    <3>1. Len(w) \in Nat
      BY <1>1, <1>2
    <3>. QED  BY <3>1, <1>8, <1>10
  <2>3. \A i \in 1..b : i \in 1..L
    BY <1>2, <1>10
  <2>. HIDE DEF s
  <2>. QED  BY <2>1, <2>2, <2>3, <1>1
<1>. HIDE DEF s
<1>12. PICK c \in 0..L :
           /\ TrimmedEnd(u) = SubSeq(u, 1, c)
           /\ c = 0 \/ u[c] # "nl"
           /\ \A i \in 1..L : i > c => u[i] = "nl"
  BY TrimmedEndIs
<1>13. b = c
  <2>1. ASSUME b < c PROVE FALSE
    <3>1. c \in 1..L /\ c \in 1..(first - 1)
      BY <2>1, <1>2, <1>6, <1>10
    <3>2. w[c] = "nl" /\ w[c] = u[c]
      BY <2>1, <3>1, <1>1, <1>9
    <3>. QED  BY <3>1, <3>2, <1>12
  <2>2. ASSUME c < b PROVE FALSE
    <3>1. b \in 1..L
      BY <2>2, <1>2, <1>10
    <3>2. u[b] = "nl" /\ w[b] = u[b]
      BY <2>2, <3>1, <1>1, <1>12
    <3>. QED  BY <3>1, <3>2, <1>9
  <2>. QED  BY <2>1, <2>2, <1>2, <1>10
<1>14. /\ SubSeq(u, 1, c) \in Seq(Tokens) /\ Len(SubSeq(u, 1, c)) = c
       /\ \A i \in 1..c : SubSeq(u, 1, c)[i] = u[i]
  <2>1. 1 \in 1..(L + 1) /\ c \in 0..L /\ 1 <= c + 1 /\ (c - 1) + 1 = c
    BY <1>2
  <2>2. \A i \in 1..c : (1 + i) - 1 = i
    BY <1>2
  <2>3. /\ SubSeq(u, 1, c) \in Seq(Tokens) /\ Len(SubSeq(u, 1, c)) = c
        /\ \A i \in 1..c : SubSeq(u, 1, c)[i] = u[(1 + i) - 1]
    BY <2>1, PartOf
  <2>. QED  BY <2>2, <2>3
<1>15. s = SubSeq(u, 1, c)
  <2>. DEFINE v == SubSeq(u, 1, c)
  <2>1. /\ s \in Seq(Tokens) /\ v \in Seq(Tokens) /\ Len(s) = Len(v)
        /\ \A i \in 1..Len(s) : s[i] = v[i]
    BY <1>11, <1>13, <1>14
  <2>. HIDE DEF v
  <2>2. s = v
    BY <2>1, SeqEqual
  <2>. QED  BY <2>2 DEF v
<1>. QED  BY <1>3, <1>12, <1>15 DEF s, w

LEMMA TrimmedEndKeeps ==
    ASSUME NEW u \in Seq(Tokens), NoStart(u)
    PROVE  /\ TrimmedEnd(u) \in Seq(Tokens) /\ NoStart(TrimmedEnd(u))
           /\ TrimmedEnd(TrimmedEnd(u)) = TrimmedEnd(u)
<1>. DEFINE L == Len(u)
            v == TrimmedEnd(u)
<1>1. L \in Nat
  BY LenProperties
<1>2. PICK c \in 0..L : v = SubSeq(u, 1, c) /\ (c = 0 \/ u[c] # "nl")
  BY TrimmedEndIs
<1>3. v \in Seq(Tokens) /\ Len(v) = c /\ \A i \in 1..c : v[i] = u[i]
  <2>1. 1 \in 1..(L + 1) /\ c \in 0..L /\ 1 <= c + 1 /\ (c - 1) + 1 = c
    BY <1>1
  <2>2. \A i \in 1..c : (1 + i) - 1 = i
    BY <1>1
  <2>3. /\ SubSeq(u, 1, c) \in Seq(Tokens) /\ Len(SubSeq(u, 1, c)) = c
        /\ \A i \in 1..c : SubSeq(u, 1, c)[i] = u[(1 + i) - 1]
    BY <2>1, PartOf
  <2>. QED  BY <2>2, <2>3, <1>2
<1>. HIDE DEF v
<1>4. NoStart(v)
  <2>1. ASSUME NEW i \in 1..Len(v) PROVE v[i] # "start"
    <3>1. i \in 1..c /\ i \in 1..L
      BY <1>1, <1>3
    <3>. QED  BY <3>1, <1>3 DEF NoStart
  <2>. QED  BY <2>1 DEF NoStart
<1>5. PICK e \in 0..c :
          /\ TrimmedEnd(v) = SubSeq(v, 1, e)
          /\ \A i \in 1..c : i > e => v[i] = "nl"
  BY <1>3, TrimmedEndIs
<1>6. e = c
  <2>1. ASSUME e < c PROVE FALSE
    <3>1. c \in 1..c /\ c > e /\ c # 0
      BY <2>1, <1>1
    <3>. QED  BY <3>1, <1>2, <1>3, <1>5
  <2>. QED  BY <2>1, <1>1
<1>7. TrimmedEnd(v) = v
  BY <1>3, <1>5, <1>6, SubSeqFull
<1>. QED  BY <1>3, <1>4, <1>7 DEF v

\* What is left of a text with one section has none.
LEMMA StrippedHasNone ==
    ASSUME NEW t \in Seq(Tokens), HasMarker(t), AtMostOnce("start", t)
    PROVE  stripClaudeMdSection(t) \in Seq(Tokens) /\ NoStart(stripClaudeMdSection(t))
<1>. DEFINE u == stripClaudeMdSection(t)
            L == Len(t)
<1>1. L \in Nat /\ DOMAIN t = 1..L
  BY LenProperties
<1>2. PICK first, last, b, a \in Nat : Around(t, first, last, b, a) /\ Joined(t, b, a, u)
  BY StrippedIs
<1>. HIDE DEF u
<1>3. /\ first \in 1..L /\ t[first] = "start" /\ last \in first..L
      /\ b \in 0..(first - 1) /\ a \in (last + 1)..(L + 1)
  BY <1>2 DEF Around
<1>4. \A i \in 1..L : i # first => t[i] # "start"
  BY <1>1, <1>3 DEF AtMostOnce
<1>. DEFINE g == Gap(t, b, a)
<1>5. /\ u \in Seq(Tokens) /\ Len(u) = (b + g) + ((L + 1) - a)
      /\ \A i \in 1..b : u[i] = t[i]
      /\ \A i \in 1..Len(u) : b < i /\ i <= b + g => u[i] = "nl"
      /\ \A i \in 1..((L + 1) - a) : u[(b + g) + i] = t[(a - 1) + i]
  BY <1>2 DEF Joined
<1>6. g \in Nat
  BY DEF Gap
<1>. HIDE DEF g
<1>7. ASSUME NEW i \in 1..Len(u) PROVE u[i] # "start"
  <2>0. i \in Nat
    BY <1>1, <1>3, <1>5, <1>6
  <2>1. CASE i <= b
    <3>1. i \in 1..b /\ i \in 1..L /\ i # first
      BY <2>0, <2>1, <1>1, <1>3
    <3>. QED  BY <3>1, <1>4, <1>5
  <2>2. CASE b < i /\ i <= b + g
    BY <2>2, <1>5
  <2>3. CASE b + g < i
    <3>. DEFINE j == i - (b + g)
    <3>1. j \in 1..((L + 1) - a) /\ (b + g) + j = i
      BY <2>0, <2>3, <1>1, <1>3, <1>5, <1>6
    <3>2. (a - 1) + j \in 1..L /\ (a - 1) + j # first
      BY <3>1, <1>1, <1>3
    <3>3. u[i] = t[(a - 1) + j]
      <4>. HIDE DEF j
      <4>. QED  BY <3>1, <1>5
    <3>. QED  BY <3>2, <3>3, <1>4
  <2>. QED  BY <2>0, <2>1, <2>2, <2>3, <1>2, <1>6
<1>. QED  BY <1>5, <1>7 DEF NoStart, u

LEMMA RefreshedTwice ==
    ASSUME NEW c \in TextFile, AtMostOnce("start", c.text)
    PROVE  LET twice == Refreshed(Refreshed(c)) IN Refreshed(twice) = twice
<1>. DEFINE F(t) == [form |-> "object", text |-> t]
<1>1. c.form \in {"absent", "object"} /\ c.text \in Seq(Tokens) /\ c = [form |-> c.form, text |-> c.text]
  BY DEF TextFile
<1>2. ASSUME NEW t \in Seq(Tokens), HasMarker(t)
      PROVE  Refreshed(F(t)) = F(Appended(stripClaudeMdSection(t)))
  BY <1>2 DEF Refreshed, runInitClaudeMd
<1>3. ASSUME NEW t \in Seq(Tokens), ~ HasMarker(t)
      PROVE  Refreshed(F(t)) = F(Appended(t))
  BY <1>3 DEF Refreshed, runInitClaudeMd
<1>4. ASSUME NEW u \in Seq(Tokens), NoStart(u)
      PROVE  Refreshed(F(Appended(u))) = F(Appended(TrimmedEnd(u)))
  <2>1. HasMarker(Appended(u)) /\ stripClaudeMdSection(Appended(u)) = TrimmedEnd(u)
    BY <1>4, StrippedOfAppended
  <2>2. Appended(u) \in Seq(Tokens)
    BY AppendedIs
  <2>. QED  BY <2>1, <2>2, <1>2
<1>5. ASSUME NEW u \in Seq(Tokens), NoStart(u)
      PROVE  Refreshed(Refreshed(F(Appended(u)))) = Refreshed(F(Appended(u)))
  <2>. DEFINE v == TrimmedEnd(u)
  <2>1. v \in Seq(Tokens) /\ NoStart(v) /\ TrimmedEnd(v) = v
    BY <1>5, TrimmedEndKeeps
  <2>2. Refreshed(F(Appended(u))) = F(Appended(v))
    BY <1>4, <1>5
  <2>. HIDE DEF v
  <2>3. Refreshed(F(Appended(v))) = F(Appended(v))
    BY <1>4, <2>1
  <2>. QED  BY <2>2, <2>3
<1>6. CASE c.form = "absent"
  <2>. DEFINE t == Section \o <<"nl">>
  <2>1. Refreshed(c) = F(t)
    BY <1>6 DEF Refreshed, runInitClaudeMd
  <2>2. /\ t \in Seq(Tokens) /\ Len(t) = 4
        /\ t[1] = "start" /\ t[2] = "body" /\ t[3] = "end" /\ t[4] = "nl"
    BY TokensAre DEF Section
  <2>. HIDE DEF t
  <2>3. HasMarker(t) /\ AtMostOnce("start", t)
    <3>1. DOMAIN t = 1..4
      BY <2>2, LenProperties
    <3>2. HasMarker(t)
      BY <2>2 DEF HasMarker, Contains
    <3>. QED  BY <3>1, <3>2, <2>2 DEF AtMostOnce
  <2>4. Refreshed(F(t)) = F(Appended(stripClaudeMdSection(t)))
    BY <1>2, <2>2, <2>3
  <2>5. stripClaudeMdSection(t) \in Seq(Tokens) /\ NoStart(stripClaudeMdSection(t))
    BY <2>2, <2>3, StrippedHasNone
  <2>6. stripClaudeMdSection(t) = <<>>
    <3>1. PICK first, last, b, a \in Nat :
              Around(t, first, last, b, a) /\ EndsRight(t, last) /\ Joined(t, b, a, stripClaudeMdSection(t))
      BY <2>2, <2>3, StrippedIs
    <3>2. first = 1
      BY <3>1, <2>2 DEF Around
    <3>3. b = 0
      BY <3>1, <3>2 DEF Around
    <3>4. last = 3
      <4>1. last \in 1..4 /\ (t[last] = "end" \/ last = 4) /\ \A i \in 1..4 : i < last => t[i] # "end"
        BY <3>1, <3>2, <2>2 DEF Around
      <4>2. last # 4
        BY <4>1, <2>2
      <4>. QED  BY <4>1, <4>2, <2>2
    <3>5. a = 5
      <4>1. a \in 4..5 /\ (a = 5 \/ t[a] # "nl")
        BY <3>1, <3>4, <2>2 DEF Around
      <4>. QED  BY <4>1, <2>2
    <3>6. Len(stripClaudeMdSection(t)) = 0
      BY <3>1, <3>3, <3>5, <2>2 DEF Joined, Gap
    <3>. QED  BY <3>6, <2>5, EmptySeq
  <2>. DEFINE u == stripClaudeMdSection(t)
  <2>7. Refreshed(Refreshed(c)) = F(Appended(u)) /\ u \in Seq(Tokens) /\ NoStart(u) /\ u = <<>>
    BY <2>1, <2>4, <2>5, <2>6
  <2>8. TrimmedEnd(u) = u
    <3>1. PICK k \in 0..Len(u) : TrimmedEnd(u) = SubSeq(u, 1, k)
      BY <2>7, TrimmedEndIs
    <3>2. Len(u) = 0
      BY <2>7, EmptySeq
    <3>3. k = Len(u)
      BY <3>2
    <3>. QED  BY <3>1, <3>3, <2>7, SubSeqFull
  <2>9. Refreshed(F(Appended(u))) = F(Appended(u))
    BY <1>4, <2>7, <2>8
  <2>. QED  BY <2>7, <2>9
<1>7. CASE c.form = "object" /\ HasMarker(c.text)
  <2>. DEFINE u == stripClaudeMdSection(c.text)
  <2>1. c = F(c.text)
    BY <1>1, <1>7
  <2>2. Refreshed(c) = F(Appended(u))
    BY <1>1, <1>2, <1>7, <2>1
  <2>3. u \in Seq(Tokens) /\ NoStart(u)
    BY <1>1, <1>7, StrippedHasNone
  <2>. HIDE DEF u
  <2>. QED  BY <2>2, <2>3, <1>5
<1>8. CASE c.form = "object" /\ ~ HasMarker(c.text)
  <2>1. c = F(c.text)
    BY <1>1, <1>8
  <2>2. Refreshed(c) = F(Appended(c.text))
    BY <1>1, <1>3, <1>8, <2>1
  <2>3. NoStart(c.text)
    BY <1>8 DEF HasMarker, Contains, NoStart
  <2>. QED  BY <2>2, <2>3, <1>1, <1>5
<1>. QED  BY <1>1, <1>6, <1>7, <1>8

(***************************************************************************)
(* The user's lines                                                        *)
(***************************************************************************)

LEMMA SameLinesItself ==
    ASSUME NEW t, NEW u, Own(u) = Own(t), \A i \in Own(t) : u[i] = t[i]
    PROVE  SameLines(t, u)
<1>. DEFINE m == [i \in Own(t) |-> i]
<1>1. m \in [Own(t) -> Own(u)] /\ \A i \in Own(t) : m[i] = i
  OBVIOUS
<1>. HIDE DEF m
<1>. QED  BY <1>1 DEF SameLines

LEMMA SameLinesOn ==
    ASSUME NEW t, NEW u, NEW w, SameLines(t, u), Own(w) = Own(u), \A i \in Own(u) : w[i] = u[i]
    PROVE  SameLines(t, w)
<1>1. PICK m \in [Own(t) -> Own(u)] :
          /\ \A i \in Own(t) : u[m[i]] = t[i]
          /\ \A i, j \in Own(t) : i < j => m[i] < m[j]
          /\ \A k \in Own(u) : \E i \in Own(t) : m[i] = k
  BY DEF SameLines
<1>2. m \in [Own(t) -> Own(w)] /\ \A i \in Own(t) : w[m[i]] = t[i]
  BY <1>1
<1>. QED  BY <1>1, <1>2 DEF SameLines

\* Adding the section adds no line of the user and hides none.
LEMMA AppendedKeepsLines ==
    ASSUME NEW u \in Seq(Tokens)
    PROVE  Own(Appended(u)) = Own(u) /\ \A i \in Own(u) : Appended(u)[i] = u[i]
<1>. DEFINE w == Appended(u)
            L == Len(u)
<1>1. PICK k \in {1, 2} :
          /\ w \in Seq(Tokens) /\ Len(w) = L + (k + 4)
          /\ \A i \in 1..L : w[i] = u[i]
          /\ \A i \in 1..k : w[L + i] = "nl"
          /\ w[L + (k + 1)] = "start" /\ w[L + (k + 2)] = "body"
          /\ w[L + (k + 3)] = "end" /\ w[L + (k + 4)] = "nl"
  BY AppendedIs
<1>. HIDE DEF w
<1>2. L \in Nat /\ DOMAIN u = 1..L /\ k \in Nat /\ DOMAIN w = 1..(L + (k + 4))
  BY <1>1, LenProperties
<1>3. ASSUME NEW i \in 1..(L + (k + 4)), i > L PROVE w[i] \notin UserLines
  <2>1. /\ i - L \in 1..(k + 4) /\ i = L + (i - L)
        /\ (i - L \in 1..k \/ i - L = k + 1 \/ i - L = k + 2 \/ i - L = k + 3 \/ i - L = k + 4)
    BY <1>2, <1>3
  <2>2. w[i] \in {"nl", "start", "body", "end"}
    BY <2>1, <1>1
  <2>. QED  BY <2>2, NoUserLine
<1>4. ASSUME NEW i \in 1..L PROVE Inside(w, i) <=> Inside(u, i)
  <2>1. \A s \in 1..(i - 1) : w[s] = u[s]
    BY <1>1, <1>2
  <2>2. \A s \in 1..(i - 1) : \A e \in s..(i - 1) : w[e] = u[e]
    BY <1>1, <1>2
  <2>. QED  BY <2>1, <2>2 DEF Inside
<1>5. \A i \in 1..L : i \in 1..(L + (k + 4))
  BY <1>2
<1>6. \A i \in 1..(L + (k + 4)) : i \in 1..L \/ i > L
  BY <1>2
<1>. QED  BY <1>1, <1>2, <1>3, <1>4, <1>5, <1>6 DEF Own, w

\* Taking the section off keeps the user's lines around it.
LEMMA StrippedKeepsLines ==
    ASSUME NEW t \in Seq(Tokens), HasMarker(t), WellFormed(t)
    PROVE  SameLines(t, stripClaudeMdSection(t))
<1>. DEFINE u == stripClaudeMdSection(t)
            L == Len(t)
<1>1. L \in Nat /\ DOMAIN t = 1..L
  BY LenProperties
<1>2. PICK first, last, b, a \in Nat :
          Around(t, first, last, b, a) /\ EndsRight(t, last) /\ Joined(t, b, a, u)
  BY StrippedIs
<1>. HIDE DEF u
<1>. DEFINE g == Gap(t, b, a)
            N == Len(u)
<1>3. /\ first \in 1..L /\ last \in first..L /\ b \in 0..(first - 1) /\ a \in (last + 1)..(L + 1)
      /\ t[first] = "start" /\ t[last] = "end"
      /\ \A i \in 1..L : i < first => t[i] # "start"
      /\ \A i \in first..L : i < last => t[i] # "end"
      /\ \A i \in 1..(first - 1) : i > b => t[i] = "nl"
      /\ \A i \in (last + 1)..L : i < a => t[i] = "nl"
  BY <1>2 DEF Around, EndsRight
<1>4. g \in Nat
  BY DEF Gap
<1>5. /\ u \in Seq(Tokens) /\ N = (b + g) + ((L + 1) - a)
      /\ \A i \in 1..b : u[i] = t[i]
      /\ \A i \in 1..N : b < i /\ i <= b + g => u[i] = "nl"
      /\ \A i \in 1..((L + 1) - a) : u[(b + g) + i] = t[(a - 1) + i]
  BY <1>2 DEF Joined
<1>6. DOMAIN u = 1..N
  BY <1>5, LenProperties
<1>. HIDE DEF g, N
<1>i. /\ 1 <= first /\ b < first /\ first <= last /\ last < a /\ a <= L + 1
      /\ N \in Nat
  BY <1>1, <1>3, <1>4, <1>5
\* What follows the section follows it at a distance d further on, or back.
<1>. DEFINE d == (b + g) - (a - 1)
<1>7. d \in Int /\ N = L + d
  BY <1>1, <1>2, <1>4, <1>5
<1>8. ASSUME NEW i \in Int, a <= i, i <= L PROVE i + d \in 1..N /\ b + g < i + d /\ u[i + d] = t[i]
  <2>. DEFINE k == i - (a - 1)
  <2>1. k \in 1..((L + 1) - a) /\ (b + g) + k = i + d /\ (a - 1) + k = i
    BY <1>1, <1>2, <1>4, <1>8
  <2>2. u[(b + g) + k] = t[(a - 1) + k]
    <3>. HIDE DEF k
    <3>. QED  BY <2>1, <1>5
  <2>3. i + d \in 1..N /\ b + g < i + d
    BY <1>1, <1>2, <1>4, <1>7, <1>8
  <2>. HIDE DEF k
  <2>. QED  BY <2>1, <2>2, <2>3
<1>9. ASSUME NEW j \in 1..N, b + g < j PROVE j - d \in Int /\ a <= j - d /\ j - d <= L /\ (j - d) + d = j
  BY <1>1, <1>2, <1>4, <1>7, <1>9
<1>. HIDE DEF d
<1>10. ASSUME NEW i \in Own(t) PROVE i \in 1..b \/ (i \in Int /\ a <= i /\ i <= L)
  <2>1. i \in 1..L /\ t[i] \notin {"nl", "start", "body", "end"} /\ ~ Inside(t, i)
    BY <1>1, SetupAssumption DEF Own
  <2>2. ~ (b < i /\ i < first)
    <3>1. ASSUME b < i, i < first PROVE FALSE
      <4>1. i \in 1..(first - 1)
        BY <2>1, <3>1, <1>2
      <4>. QED  BY <2>1, <3>1, <4>1, <1>3
    <3>. QED  BY <3>1
  <2>3. i # first /\ i # last
    BY <2>1, <1>3
  <2>4. ~ (first < i /\ i < last)
    <3>1. ASSUME first < i, i < last PROVE Inside(t, i)
      <4>1. first \in 1..(i - 1)
        BY <2>1, <3>1, <1>2, <1>i
      <4>2. ASSUME NEW e \in first..(i - 1) PROVE t[e] # "end"
        <5>1. e \in first..L /\ e < last
          BY <2>1, <3>1, <1>1, <1>2
        <5>. QED  BY <5>1, <1>3
      <4>. QED  BY <4>1, <4>2, <1>3 DEF Inside
    <3>. QED  BY <2>1, <3>1
  <2>5. ~ (last < i /\ i < a)
    <3>1. ASSUME last < i, i < a PROVE FALSE
      <4>1. i \in (last + 1)..L
        BY <2>1, <3>1, <1>1, <1>2
      <4>. QED  BY <2>1, <3>1, <4>1, <1>3
    <3>. QED  BY <3>1
  <2>. QED  BY <2>1, <2>2, <2>3, <2>4, <2>5, <1>1, <1>2, <1>i
<1>11. ASSUME NEW i \in 1..b PROVE i \in 1..L /\ i \in 1..N /\ ~ Inside(t, i) /\ ~ Inside(u, i)
  <2>1. i \in 1..L /\ i \in 1..N
    BY <1>1, <1>2, <1>4, <1>5, <1>i
  <2>2. ASSUME NEW s \in 1..(i - 1) PROVE t[s] # "start" /\ u[s] # "start"
    <3>1. s \in 1..L /\ s < first /\ s \in 1..b
      BY <1>1, <1>2, <1>i
    <3>. QED  BY <3>1, <1>3, <1>5
  <2>. QED  BY <2>1, <2>2 DEF Inside
<1>12. ASSUME NEW i \in Int, a <= i, i <= L PROVE Inside(t, i) <=> Inside(u, i + d)
  <2>1. ASSUME NEW s \in 1..(i - 1), t[s] = "start", \A e \in s..(i - 1) : t[e] # "end"
        PROVE  Inside(u, i + d)
    <3>1. a <= s
      <4>1. ~ (s <= last)
        <5>1. s <= last => last \in s..(i - 1)
          BY <1>2, <1>12, <1>i
        <5>. QED  BY <5>1, <2>1, <1>3
      <4>2. ~ (last < s /\ s < a)
        <5>1. last < s => s \in (last + 1)..L
          BY <1>1, <1>2, <1>12
        <5>. QED  BY <5>1, <2>1, <1>3
      <4>. QED  BY <4>1, <4>2, <1>2
    <3>2. s \in Int /\ s <= L /\ s + d \in 1..((i + d) - 1)
      <4>1. s \in Int /\ s <= L /\ s + d <= (i + d) - 1
        BY <1>1, <1>7, <1>12
      <4>2. s + d \in 1..N
        BY <3>1, <4>1, <1>8
      <4>. QED  BY <4>1, <4>2, <1>7, <1>12
    <3>3. u[s + d] = "start"
      BY <3>1, <3>2, <2>1, <1>8
    <3>4. ASSUME NEW e \in (s + d)..((i + d) - 1) PROVE u[e] # "end"
      <4>1. e - d \in s..(i - 1) /\ (e - d) + d = e /\ a <= e - d /\ e - d <= L
        BY <3>1, <3>2, <1>1, <1>2, <1>7, <1>12
      <4>2. u[(e - d) + d] = t[e - d]
        BY <4>1, <1>8
      <4>. QED  BY <4>1, <4>2, <2>1
    <3>. QED  BY <3>2, <3>3, <3>4 DEF Inside
  <2>2. ASSUME NEW s \in 1..((i + d) - 1), u[s] = "start", \A e \in s..((i + d) - 1) : u[e] # "end"
        PROVE  Inside(t, i)
    <3>0. s \in 1..N
      BY <1>1, <1>7, <1>12
    <3>1. b + g < s
      <4>1. ~ (s <= b)
        <5>1. s <= b => s \in 1..b /\ s \in 1..L /\ s < first
          BY <1>1, <1>2, <1>i, <3>0
        <5>. QED  BY <5>1, <2>2, <1>3, <1>5
      <4>2. ~ (b < s /\ s <= b + g)
        BY <3>0, <2>2, <1>5
      <4>. QED  BY <4>1, <4>2, <1>2, <1>4, <3>0
    <3>2. s - d \in Int /\ a <= s - d /\ s - d <= L /\ (s - d) + d = s
      BY <3>0, <3>1, <1>9
    <3>3. s - d \in 1..(i - 1)
      BY <3>2, <1>2, <1>7, <1>12, <1>i
    <3>4. t[s - d] = "start"
      BY <3>2, <2>2, <1>8
    <3>5. ASSUME NEW e \in (s - d)..(i - 1) PROVE t[e] # "end"
      <4>1. e + d \in s..((i + d) - 1) /\ e \in Int /\ a <= e /\ e <= L
        BY <3>2, <1>1, <1>2, <1>7, <1>12
      <4>. QED  BY <4>1, <2>2, <1>8
    <3>. QED  BY <3>3, <3>4, <3>5 DEF Inside
  <2>. QED  BY <2>1, <2>2 DEF Inside
<1>. DEFINE m == [i \in Own(t) |-> IF i <= b THEN i ELSE i + d]
<1>13. ASSUME NEW i \in 1..b PROVE i \in Own(t) <=> i \in Own(u)
  BY <1>1, <1>5, <1>6, <1>11 DEF Own
<1>14. ASSUME NEW i \in Int, a <= i, i <= L PROVE i \in Own(t) <=> i + d \in Own(u)
  <2>1. i \in 1..L
    BY <1>14, <1>2, <1>i
  <2>. QED  BY <2>1, <1>1, <1>6, <1>8, <1>12, <1>14 DEF Own
<1>15. ASSUME NEW i \in Own(t)
       PROVE  m[i] \in Own(u) /\ u[m[i]] = t[i]
  <2>1. CASE i \in 1..b
    <3>1. m[i] = i
      BY <2>1
    <3>. QED  BY <2>1, <3>1, <1>5, <1>13
  <2>2. CASE i \in Int /\ a <= i /\ i <= L
    <3>1. m[i] = i + d
      <4>1. ~ (i <= b)
        BY <2>2, <1>2, <1>i
      <4>. QED  BY <4>1
    <3>. QED  BY <2>2, <3>1, <1>8, <1>14
  <2>. QED  BY <2>1, <2>2, <1>10
<1>16. ASSUME NEW i \in Own(t), NEW j \in Own(t), i < j PROVE m[i] < m[j]
  <2>1. CASE j \in 1..b
    <3>1. i \in 1..b
      BY <2>1, <1>2, <1>10, <1>16, <1>i
    <3>. QED  BY <2>1, <3>1, <1>16
  <2>2. CASE i \in 1..b /\ j \in Int /\ a <= j /\ j <= L
    <3>1. m[i] = i /\ m[j] = j + d
      BY <2>2, <1>2, <1>i
    <3>2. b + g < j + d
      BY <2>2, <1>8
    <3>. QED  BY <2>2, <3>1, <3>2, <1>2, <1>4, <1>7
  <2>3. CASE i \in Int /\ a <= i /\ i <= L /\ j \in Int /\ a <= j /\ j <= L
    <3>1. m[i] = i + d /\ m[j] = j + d
      BY <2>3, <1>2, <1>i
    <3>. QED  BY <2>3, <3>1, <1>7, <1>16
  <2>. QED  BY <2>1, <2>2, <2>3, <1>10
<1>17. ASSUME NEW k \in Own(u) PROVE \E i \in Own(t) : m[i] = k
  <2>1. k \in 1..N /\ u[k] # "nl"
    BY <1>6, NoUserLine DEF Own
  <2>2. CASE k <= b
    <3>1. k \in 1..b /\ k \in Own(t)
      BY <2>1, <2>2, <1>2, <1>13
    <3>. QED  BY <3>1, <2>2
  <2>3. CASE b + g < k
    <3>1. k - d \in Int /\ a <= k - d /\ k - d <= L /\ (k - d) + d = k
      BY <2>1, <2>3, <1>9
    <3>2. k - d \in Own(t)
      BY <3>1, <1>14
    <3>3. ~ (k - d <= b)
      BY <3>1, <1>2, <1>i
    <3>4. m[k - d] = k
      BY <3>1, <3>2, <3>3
    <3>. QED  BY <3>2, <3>4
  <2>4. ~ (b < k /\ k <= b + g)
    BY <2>1, <1>5
  <2>. QED  BY <2>1, <2>2, <2>3, <2>4, <1>2, <1>4
<1>18. m \in [Own(t) -> Own(u)]
  <2>1. \A i \in Own(t) : m[i] \in Own(u)
    BY <1>15
  <2>2. m = [i \in Own(t) |-> m[i]]
    OBVIOUS
  <2>. HIDE DEF m
  <2>. QED  BY <2>1, <2>2
<1>. HIDE DEF m
<1>19. SameLines(t, u)
  BY <1>15, <1>16, <1>17, <1>18 DEF SameLines
<1>. QED  BY <1>19 DEF u

\* Whatever init does to CLAUDE.md keeps the user's lines.
LEMMA LinesKept ==
    ASSUME NEW c \in TextFile, c.form = "object", WellFormed(c.text), NEW update \in BOOLEAN
    PROVE  SameLines(c.text, runInitClaudeMd(c, update).text)
<1>. DEFINE t == c.text
            new == runInitClaudeMd(c, update)
<1>1. t \in Seq(Tokens)
  BY DEF TextFile
<1>2. CASE ~ HasMarker(t)
  <2>1. new.text = Appended(t)
    BY <1>2 DEF runInitClaudeMd, TextFile
  <2>2. Own(Appended(t)) = Own(t) /\ \A i \in Own(t) : Appended(t)[i] = t[i]
    BY <1>1, AppendedKeepsLines
  <2>. QED  BY <2>1, <2>2, SameLinesItself
<1>3. CASE HasMarker(t) /\ update
  <2>. DEFINE u == stripClaudeMdSection(t)
  <2>1. new.text = Appended(u)
    BY <1>3 DEF runInitClaudeMd, TextFile
  <2>2. SameLines(t, u)
    BY <1>1, <1>3, StrippedKeepsLines
  <2>3. u \in Seq(Tokens)
    BY <1>1, <1>3, StrippedIs DEF Joined
  <2>. HIDE DEF u
  <2>4. Own(Appended(u)) = Own(u) /\ \A i \in Own(u) : Appended(u)[i] = u[i]
    BY <2>3, AppendedKeepsLines
  <2>. QED  BY <2>1, <2>2, <2>4, SameLinesOn
<1>4. CASE HasMarker(t) /\ ~ update
  <2>1. new = c
    BY <1>4 DEF runInitClaudeMd
  <2>. QED  BY <2>1, SameLinesItself
<1>. QED  BY <1>2, <1>3, <1>4

(***************************************************************************)
(* Files and what a run makes of them                                      *)
(***************************************************************************)

LEMMA KindsOfFiles ==
    /\ \A f \in Files : f \in Scripts \/ f \in Settings \/ f = "servers" \/ f = "md"
    /\ \A f \in Scripts : f \in Files /\ f \notin Settings /\ f # "servers" /\ f # "md"
    /\ \A f \in Settings : f \in Files /\ f \notin Scripts /\ f # "servers" /\ f # "md"
    /\ "servers" \in Files /\ "md" \in Files /\ "pre" \in Scripts /\ "session" \in Scripts
    /\ "settings" \in Settings /\ "cursor settings" \in Settings
    /\ "md" \notin Scripts \cup Settings /\ "servers" \notin Scripts \cup Settings
BY DEF Files, Scripts, Settings

LEMMA FileTypeIs ==
    /\ \A f \in Scripts : FileType(f) = ScriptFile
    /\ \A f \in Settings : FileType(f) = SettingsFile
    /\ FileType("servers") = ServersFile /\ FileType("md") = TextFile
BY DEF FileType, Scripts, Settings

LEMMA RewrittenIs ==
    ASSUME NEW c, NEW o
    PROVE  /\ \A f \in Scripts : Rewritten(f, c, o) = ensureHookFile(c)
           /\ \A f \in Settings : Rewritten(f, c, o) = updateClientHooks(c)
           /\ Rewritten("servers", c, o) = updateClientMcpServer(c)
           /\ Rewritten("md", c, o) = runInitClaudeMd(c, o.update)
BY DEF Rewritten, Scripts, Settings

LEMMA EmptiedIs ==
    /\ \A f \in Scripts : Emptied(f) = [form |-> "empty"]
    /\ \A f \in Settings : Emptied(f) = [form |-> "broken", pre |-> <<>>, start |-> <<>>]
    /\ Emptied("servers") = [form |-> "broken", servers |-> NoServers]
    /\ Emptied("md") = [form |-> "object", text |-> <<>>]
BY DEF Emptied, Scripts, Settings

LEMMA EmptiedType == ASSUME NEW f \in Files PROVE Emptied(f) \in FileType(f)
<1>1. CASE f \in Scripts
  BY <1>1, EmptiedIs, FileTypeIs DEF ScriptFile
<1>2. CASE f \in Settings
  <2>1. <<>> \in Seq(HookEntries)
    BY EmptySeq
  <2>. QED  BY <1>2, <2>1, EmptiedIs, FileTypeIs DEF SettingsFile
<1>3. CASE f = "servers"
  <2>1. NoServers \in [ServerNames -> Commands]
    BY DEF NoServers, NoServer, Commands
  <2>. QED  BY <1>3, <2>1, EmptiedIs, FileTypeIs DEF ServersFile
<1>4. CASE f = "md"
  <2>1. <<>> \in Seq(Tokens)
    BY EmptySeq
  <2>. QED  BY <1>4, <2>1, EmptiedIs, FileTypeIs DEF TextFile
<1>. QED  BY <1>1, <1>2, <1>3, <1>4, KindsOfFiles

LEMMA TextType ==
    ASSUME NEW c \in TextFile, NEW update \in BOOLEAN
    PROVE  runInitClaudeMd(c, update) \in TextFile
<1>1. c.text \in Seq(Tokens) /\ c.form \in {"absent", "object"}
  BY DEF TextFile
<1>2. ASSUME NEW t \in Seq(Tokens) PROVE [c EXCEPT !.text = t] \in TextFile
  BY <1>2 DEF TextFile
<1>3. CASE c.form = "absent"
  <2>1. Section \o <<"nl">> \in Seq(Tokens)
    BY TokensAre DEF Section
  <2>. QED  BY <1>3, <2>1 DEF runInitClaudeMd, TextFile
<1>4. CASE c.form # "absent" /\ ~ HasMarker(c.text)
  <2>1. Appended(c.text) \in Seq(Tokens)
    BY <1>1, AppendedIs
  <2>2. runInitClaudeMd(c, update) = [c EXCEPT !.text = Appended(c.text)]
    BY <1>4 DEF runInitClaudeMd
  <2>. QED  BY <2>1, <2>2, <1>2
<1>5. CASE c.form # "absent" /\ HasMarker(c.text) /\ update
  <2>. DEFINE u == stripClaudeMdSection(c.text)
  <2>1. u \in Seq(Tokens)
    BY <1>1, <1>5, StrippedIs DEF Joined
  <2>. HIDE DEF u
  <2>2. Appended(u) \in Seq(Tokens)
    BY <2>1, AppendedIs
  <2>3. runInitClaudeMd(c, update) = [c EXCEPT !.text = Appended(u)]
    BY <1>5 DEF runInitClaudeMd, u
  <2>. QED  BY <2>2, <2>3, <1>2
<1>6. CASE c.form # "absent" /\ HasMarker(c.text) /\ ~ update
  BY <1>6 DEF runInitClaudeMd
<1>. QED  BY <1>3, <1>4, <1>5, <1>6

\* What the hook lists become: the same, or ours at the end of a list that had
\* none.
LEMMA HooksAre ==
    ASSUME NEW c \in SettingsFile
    PROVE  LET new == updateClientHooks(c) IN
           /\ new \in SettingsFile
           /\ new = c \/ new.form = "object"
           /\ new.pre = c.pre \/ (new.pre = Append(c.pre, Ours) /\ ~ Registers(c.pre))
           /\ new.start = c.start \/ (new.start = Append(c.start, Ours) /\ ~ Registers(c.start))
<1>. DEFINE new == updateClientHooks(c)
<1>1. c.pre \in Seq(HookEntries) /\ c.start \in Seq(HookEntries) /\ Ours \in HookEntries
  BY DEF SettingsFile, HookEntries
<1>2. Append(c.pre, Ours) \in Seq(HookEntries) /\ Append(c.start, Ours) \in Seq(HookEntries)
  BY <1>1, AppendProperties
<1>3. /\ ~ PreInstalled(c) => ~ Registers(c.pre)
      /\ ~ StartInstalled(c) => ~ Registers(c.start)
  <2>1. DOMAIN c.pre = 1..Len(c.pre) /\ DOMAIN c.start = 1..Len(c.start)
    BY <1>1, LenProperties
  <2>. QED  BY <2>1 DEF PreInstalled, StartInstalled, Installed, Registers, Contains
<1>4. CASE PreInstalled(c) /\ StartInstalled(c)
  BY <1>4 DEF updateClientHooks
<1>5. CASE ~ (PreInstalled(c) /\ StartInstalled(c))
  <2>1. new = [form  |-> "object",
               pre   |-> IF PreInstalled(c) THEN c.pre ELSE Append(c.pre, Ours),
               start |-> IF StartInstalled(c) THEN c.start ELSE Append(c.start, Ours)]
    BY <1>5 DEF updateClientHooks
  <2>. QED  BY <2>1, <1>1, <1>2, <1>3 DEF SettingsFile
<1>. QED  BY <1>4, <1>5

LEMMA ServersAre ==
    ASSUME NEW c \in ServersFile
    PROVE  LET new == updateClientMcpServer(c) IN
           /\ new \in ServersFile
           /\ new = c \/ new.form = "object"
           /\ \A n \in UserServers : new.servers[n] = c.servers[n]
<1>1. \A n \in UserServers : n \in ServerNames /\ n # "markdownai"
  BY SetupAssumption DEF ServerNames
<1>2. "mai-serve" \in Commands /\ "markdownai" \in ServerNames
  BY DEF Commands, ServerNames
<1>. QED  BY <1>1, <1>2 DEF updateClientMcpServer, ServersFile

LEMMA ScriptsAre ==
    ASSUME NEW c \in ScriptFile
    PROVE  ensureHookFile(c) \in ScriptFile /\ Runnable(ensureHookFile(c))
BY DEF ensureHookFile, ScriptFile, Runnable

LEMMA RewrittenType ==
    ASSUME NEW f \in Files, NEW c \in FileType(f), NEW o, o.update \in BOOLEAN
    PROVE  /\ Rewritten(f, c, o) \in FileType(f)
           /\ f \in Settings \cup {"servers"} =>
                  Rewritten(f, c, o) = c \/ Rewritten(f, c, o).form = "object"
<1>1. CASE f \in Scripts
  <2>1. FileType(f) = ScriptFile /\ Rewritten(f, c, o) = ensureHookFile(c)
    BY <1>1, FileTypeIs, RewrittenIs
  <2>2. ensureHookFile(c) \in ScriptFile
    BY <2>1, ScriptsAre
  <2>3. f \notin Settings \cup {"servers"}
    BY <1>1, KindsOfFiles
  <2>. QED  BY <2>1, <2>2, <2>3
<1>2. CASE f \in Settings
  <2>1. FileType(f) = SettingsFile /\ Rewritten(f, c, o) = updateClientHooks(c)
    BY <1>2, FileTypeIs, RewrittenIs
  <2>2. /\ updateClientHooks(c) \in SettingsFile
        /\ updateClientHooks(c) = c \/ updateClientHooks(c).form = "object"
    BY <2>1, HooksAre
  <2>. QED  BY <2>1, <2>2
<1>3. CASE f = "servers"
  <2>1. FileType(f) = ServersFile /\ Rewritten(f, c, o) = updateClientMcpServer(c)
    BY <1>3, FileTypeIs, RewrittenIs
  <2>2. /\ updateClientMcpServer(c) \in ServersFile
        /\ updateClientMcpServer(c) = c \/ updateClientMcpServer(c).form = "object"
    BY <2>1, ServersAre
  <2>. QED  BY <2>1, <2>2
<1>4. CASE f = "md"
  <2>1. FileType(f) = TextFile /\ Rewritten(f, c, o) = runInitClaudeMd(c, o.update)
    BY <1>4, FileTypeIs, RewrittenIs
  <2>2. runInitClaudeMd(c, o.update) \in TextFile
    BY <2>1, TextType
  <2>3. f \notin Settings \cup {"servers"}
    BY <1>4, KindsOfFiles
  <2>. QED  BY <2>1, <2>2, <2>3
<1>. QED  BY <1>1, <1>2, <1>3, <1>4, KindsOfFiles

OptionType == [client : {"claude-code", "cursor"}, md : BOOLEAN, update : BOOLEAN]

\* Scripts come before they are registered, settings before the server table.
LEMMA StagesAre ==
    ASSUME NEW o \in OptionType
    PROVE  /\ Len(Stages(o)) \in {3, 4, 5}
           /\ \A i \in 1..Len(Stages(o)) :
                 /\ Stages(o)[i] \in Files
                 /\ Stages(o)[i] = "pre" <=> i = 1
                 /\ Stages(o)[i] = "session" <=> i = 2
                 /\ Stages(o)[i] = "settings" => i = 3 /\ Len(Stages(o)) \in {4, 5}
<1>1. o.client \in {"claude-code", "cursor"} /\ o.md \in BOOLEAN /\ o.update \in BOOLEAN
  BY DEF OptionType
<1>. DEFINE a == <<"pre", "session", "cursor settings">>
            b == <<"pre", "session", "settings", "servers">>
            c == <<"md">>
            Fine(s) == /\ Len(s) \in {3, 4, 5}
                       /\ \A i \in 1..Len(s) :
                             /\ s[i] \in Files
                             /\ s[i] = "pre" <=> i = 1
                             /\ s[i] = "session" <=> i = 2
                             /\ s[i] = "settings" => i = 3 /\ Len(s) \in {4, 5}
<1>2. /\ a \in Seq(Files) /\ Len(a) = 3 /\ a[1] = "pre" /\ a[2] = "session" /\ a[3] = "cursor settings"
      /\ b \in Seq(Files) /\ Len(b) = 4 /\ b[1] = "pre" /\ b[2] = "session" /\ b[3] = "settings" /\ b[4] = "servers"
      /\ c \in Seq(Files) /\ Len(c) = 1 /\ c[1] = "md"
  BY DEF Files
<1>3. /\ Stages(o) = (IF o.client = "cursor" THEN a ELSE b) \o (IF o.md \/ o.update THEN c ELSE <<>>)
  BY DEF Stages
<1>. HIDE DEF a, b, c
<1>4. /\ Len(a \o c) = 4 /\ (\A i \in 1..3 : (a \o c)[i] = a[i]) /\ (a \o c)[4] = "md"
  <2>1. /\ Len(a \o c) = Len(a) + Len(c)
        /\ \A i \in 1..Len(a) : (a \o c)[i] = a[i]
        /\ \A i \in 1..Len(c) : (a \o c)[Len(a) + i] = c[i]
    <3>1. a \in Seq(Files) /\ c \in Seq(Files)
      BY <1>2
    <3>. QED  BY <3>1, InARow
  <2>2. Len(c) = 1 /\ c[1] = "md" /\ Len(a) = 3
    BY <1>2
  <2>3. (a \o c)[3 + 1] = c[1]
    BY <2>1, <2>2
  <2>. QED  BY <2>1, <2>2, <2>3
<1>5. /\ Len(b \o c) = 5 /\ (\A i \in 1..4 : (b \o c)[i] = b[i]) /\ (b \o c)[5] = "md"
  <2>1. /\ Len(b \o c) = Len(b) + Len(c)
        /\ \A i \in 1..Len(b) : (b \o c)[i] = b[i]
        /\ \A i \in 1..Len(c) : (b \o c)[Len(b) + i] = c[i]
    <3>1. b \in Seq(Files) /\ c \in Seq(Files)
      BY <1>2
    <3>. QED  BY <3>1, InARow
  <2>2. Len(c) = 1 /\ c[1] = "md" /\ Len(b) = 4
    BY <1>2
  <2>3. (b \o c)[4 + 1] = c[1]
    BY <2>1, <2>2
  <2>. QED  BY <2>1, <2>2, <2>3
<1>6. a \o <<>> = a /\ b \o <<>> = b
  BY <1>2, ConcatEmptySeq
<1>. DEFINE d == a \o c
            e == b \o c
<1>7. Stages(o) \in {a, b, d, e}
  BY <1>3, <1>6
<1>. HIDE DEF d, e
<1>8. Fine(a)
  <2>1. Len(a) = 3 /\ a[1] = "pre" /\ a[2] = "session" /\ a[3] = "cursor settings"
    BY <1>2
  <2>2. ASSUME NEW i \in 1..3
        PROVE  /\ a[i] \in Files
               /\ (a[i] = "pre") <=> (i = 1)
               /\ (a[i] = "session") <=> (i = 2)
               /\ (a[i] = "settings") => (i = 3 /\ Len(a) \in {4, 5})
    <3>1. i = 1 \/ i = 2 \/ i = 3
      OBVIOUS
    <3>2. CASE i = 1
      BY <2>1, <3>2 DEF Files
    <3>3. CASE i = 2
      BY <2>1, <3>3 DEF Files
    <3>4. CASE i = 3
      BY <2>1, <3>4 DEF Files
    <3>. QED  BY <3>1, <3>2, <3>3, <3>4
  <2>. QED  BY <2>1, <2>2
<1>9. Fine(b)
  <2>1. Len(b) = 4 /\ b[1] = "pre" /\ b[2] = "session" /\ b[3] = "settings" /\ b[4] = "servers"
    BY <1>2
  <2>2. ASSUME NEW i \in 1..4
        PROVE  /\ b[i] \in Files
               /\ (b[i] = "pre") <=> (i = 1)
               /\ (b[i] = "session") <=> (i = 2)
               /\ (b[i] = "settings") => (i = 3 /\ Len(b) \in {4, 5})
    <3>1. i = 1 \/ i = 2 \/ i = 3 \/ i = 4
      OBVIOUS
    <3>2. CASE i = 1
      BY <2>1, <3>2 DEF Files
    <3>3. CASE i = 2
      BY <2>1, <3>3 DEF Files
    <3>4. CASE i = 3
      BY <2>1, <3>4 DEF Files
    <3>5. CASE i = 4
      BY <2>1, <3>5 DEF Files
    <3>. QED  BY <3>1, <3>2, <3>3, <3>4, <3>5
  <2>. QED  BY <2>1, <2>2
<1>10. Fine(d)
  <2>0. 1 \in 1..3 /\ 2 \in 1..3 /\ 3 \in 1..3
    OBVIOUS
  <2>1. /\ Len(d) = 4
        /\ d[1] = "pre"
        /\ d[2] = "session"
        /\ d[3] = "cursor settings"
        /\ d[4] = "md"
    BY <2>0, <1>2, <1>4 DEF d
  <2>2. ASSUME NEW i \in 1..4
        PROVE  /\ d[i] \in Files
               /\ (d[i] = "pre") <=> (i = 1)
               /\ (d[i] = "session") <=> (i = 2)
               /\ (d[i] = "settings") => (i = 3 /\ Len(d) \in {4, 5})
    <3>1. i = 1 \/ i = 2 \/ i = 3 \/ i = 4
      OBVIOUS
    <3>2. CASE i = 1
      BY <2>1, <3>2 DEF Files
    <3>3. CASE i = 2
      BY <2>1, <3>3 DEF Files
    <3>4. CASE i = 3
      BY <2>1, <3>4 DEF Files
    <3>5. CASE i = 4
      BY <2>1, <3>5 DEF Files
    <3>. QED  BY <3>1, <3>2, <3>3, <3>4, <3>5
  <2>. QED  BY <2>1, <2>2
<1>11. Fine(e)
  <2>0. 1 \in 1..4 /\ 2 \in 1..4 /\ 3 \in 1..4 /\ 4 \in 1..4
    OBVIOUS
  <2>1. /\ Len(e) = 5
        /\ e[1] = "pre"
        /\ e[2] = "session"
        /\ e[3] = "settings"
        /\ e[4] = "servers"
        /\ e[5] = "md"
    BY <2>0, <1>2, <1>5 DEF e
  <2>2. ASSUME NEW i \in 1..5
        PROVE  /\ e[i] \in Files
               /\ (e[i] = "pre") <=> (i = 1)
               /\ (e[i] = "session") <=> (i = 2)
               /\ (e[i] = "settings") => (i = 3 /\ Len(e) \in {4, 5})
    <3>1. i = 1 \/ i = 2 \/ i = 3 \/ i = 4 \/ i = 5
      OBVIOUS
    <3>2. CASE i = 1
      BY <2>1, <3>2 DEF Files
    <3>3. CASE i = 2
      BY <2>1, <3>3 DEF Files
    <3>4. CASE i = 3
      BY <2>1, <3>4 DEF Files
    <3>5. CASE i = 4
      BY <2>1, <3>5 DEF Files
    <3>6. CASE i = 5
      BY <2>1, <3>6 DEF Files
    <3>. QED  BY <3>1, <3>2, <3>3, <3>4, <3>5, <3>6
  <2>. QED  BY <2>1, <2>2
<1>. HIDE DEF Fine
<1>12. Fine(Stages(o))
  BY <1>7, <1>8, <1>9, <1>10, <1>11
<1>. QED  BY <1>12 DEF Fine

(***************************************************************************)
(* The invariant: types                                                    *)
(***************************************************************************)

Busy(r) == at[r] \in {"truncate", "write"}

Configurations == Settings \cup {"servers"}

\* A run at a file is at one of its stages, and what it holds of the file it
\* rewrites is what such a file may hold, and parses.
StagesFit ==
    \A r \in Runs : at[r] \in {"look", "truncate", "write"} => stage[r] <= Len(Stages(opts[r]))

SeenFits ==
    \A r \in Runs : Busy(r) =>
        /\ seen[r] \in FileType(FileOf(r))
        /\ FileOf(r) \in Configurations => seen[r].form # "broken"

IdleFirst == \A r \in Runs : at[r] = "idle" => stage[r] = 1

TypeInv == TypeOK /\ StagesFit /\ SeenFits /\ IdleFirst

LEMMA OptsAre == ASSUME TypeOK, NEW r \in Runs PROVE opts[r] \in OptionType
BY DEF TypeOK, OptionType

LEMMA FileOfIs ==
    ASSUME TypeInv, NEW r \in Runs, at[r] \in {"look", "truncate", "write"}
    PROVE  /\ FileOf(r) \in Files /\ stage[r] \in 1..Len(Stages(opts[r]))
           /\ Len(Stages(opts[r])) \in {3, 4, 5}
           /\ (FileOf(r) = "pre") <=> (stage[r] = 1)
           /\ (FileOf(r) = "session") <=> (stage[r] = 2)
           /\ FileOf(r) = "settings" => stage[r] = 3 /\ Len(Stages(opts[r])) \in {4, 5}
<1>1. opts[r] \in OptionType
  BY OptsAre DEF TypeInv
<1>2. Len(Stages(opts[r])) \in {3, 4, 5}
  BY <1>1, StagesAre
<1>3. stage[r] \in 1..Len(Stages(opts[r]))
  <2>1. stage[r] \in 1..6 /\ stage[r] <= Len(Stages(opts[r]))
    BY DEF TypeInv, TypeOK, StagesFit
  <2>. QED  BY <2>1, <1>2
<1>. QED  BY <1>1, <1>2, <1>3, StagesAre DEF FileOf

\* The next stage, if there is one, is a later one.
LEMMA AdvanceIs ==
    ASSUME TypeInv, NEW r \in Runs, at[r] \in {"look", "write"}, NEW refused \in BOOLEAN,
           Advance(r, refused)
    PROVE  /\ at' \in [Runs -> Steps] /\ stage' \in [Runs -> 1..6]
           /\ at'[r] \in {"look", "done"} /\ stage'[r] >= stage[r]
           /\ at'[r] = "look" => stage'[r] <= Len(Stages(opts[r]))
           /\ at'[r] = "done" => stage'[r] = stage[r]
           /\ \A q \in Runs : q # r => at'[q] = at[q] /\ stage'[q] = stage[q]
           /\ stage'[r] > 1 => stage[r] > 1 \/ FileOf(r) = "pre"
           /\ stage'[r] > 2 => stage[r] > 2 \/ FileOf(r) = "session"
<1>. DEFINE last == Len(Stages(opts[r]))
            next == IF refused /\ FileOf(r) = "settings" THEN stage[r] + 2 ELSE stage[r] + 1
<1>1. /\ stage[r] \in 1..last /\ last \in {3, 4, 5}
      /\ FileOf(r) = "settings" => stage[r] = 3
      /\ (FileOf(r) = "pre") <=> (stage[r] = 1)
      /\ (FileOf(r) = "session") <=> (stage[r] = 2)
  BY FileOfIs
<1>2. at \in [Runs -> Steps] /\ stage \in [Runs -> 1..6]
  BY DEF TypeInv, TypeOK
<1>3. /\ next \in Nat /\ next > stage[r]
      /\ stage[r] = 1 => next = 2
      /\ stage[r] = 2 => next = 3
  BY <1>1
<1>4. IF next > last
      THEN at' = [at EXCEPT ![r] = "done"] /\ UNCHANGED stage
      ELSE at' = [at EXCEPT ![r] = "look"] /\ stage' = [stage EXCEPT ![r] = next]
  BY DEF Advance
<1>. HIDE DEF last, next
<1>5. CASE next > last
  <2>1. at' = [at EXCEPT ![r] = "done"] /\ stage' = stage
    BY <1>4, <1>5
  <2>2. stage[r] \in 1..6
    BY <1>2
  <2>. QED  BY <2>1, <2>2, <1>2 DEF Steps
<1>6. CASE ~ (next > last)
  <2>1. at' = [at EXCEPT ![r] = "look"] /\ stage' = [stage EXCEPT ![r] = next]
    BY <1>4, <1>6
  <2>2. next \in 1..6 /\ next <= last
    BY <1>1, <1>3, <1>6
  <2>3. /\ at' \in [Runs -> Steps] /\ stage' \in [Runs -> 1..6]
        /\ at'[r] = "look" /\ stage'[r] = next
        /\ \A q \in Runs : q # r => at'[q] = at[q] /\ stage'[q] = stage[q]
    BY <2>1, <2>2, <1>2 DEF Steps
  <2>4. next > 1 => stage[r] > 1 \/ FileOf(r) = "pre"
    BY <1>1, <1>3
  <2>5. next > 2 => stage[r] > 2 \/ FileOf(r) = "session"
    BY <1>1, <1>3
  <2>6. next >= stage[r]
    BY <1>1, <1>3
  <2>. QED  BY <2>2, <2>3, <2>4, <2>5, <2>6 DEF last
<1>. QED  BY <1>5, <1>6

\* A write of one file leaves the others.
LEMMA DiskIs ==
    ASSUME DOMAIN disk = Files, NEW f \in Files, NEW c, disk' = [disk EXCEPT ![f] = c]
    PROVE  DOMAIN disk' = Files /\ \A g \in Files : disk'[g] = IF g = f THEN c ELSE disk[g]
OBVIOUS

LEMMA FileTypeIn == \A f \in Files : FileType(f) \subseteq Content
BY FileTypeIs, KindsOfFiles DEF Content

LEMMA SameFile ==
    ASSUME NEW r, opts'[r] = opts[r], stage'[r] = stage[r]
    PROVE  FileOf(r)' = FileOf(r)
BY DEF FileOf

LEMMA StaleType ==
    ASSUME TypeOK, NEW f, NEW r, Outdate(f, r)
    PROVE  stale' \in [Runs -> BOOLEAN]
<1>1. stale' = [q \in Runs |->
        IF q = r THEN stale[q] /\ at[q] = "truncate"
        ELSE stale[q] \/ (at[q] \in {"truncate", "write"} /\ FileOf(q) = f)]
  BY DEF Outdate
<1>2. ASSUME NEW q \in Runs PROVE stale'[q] \in BOOLEAN
  <2>1. stale'[q] = IF q = r THEN stale[q] /\ at[q] = "truncate"
                    ELSE stale[q] \/ (at[q] \in {"truncate", "write"} /\ FileOf(q) = f)
    BY <1>1
  <2>. QED  BY <2>1, Zenon
<1>3. stale' = [q \in Runs |-> stale'[q]]
  BY <1>1
<1>. QED  BY <1>2, <1>3

LEMMA InitType == Init => TypeInv
<1>. SUFFICES ASSUME Init PROVE TypeInv
  OBVIOUS
<1>1. DOMAIN disk = Files /\ \A f \in Files : disk[f] \in FileType(f)
  BY WorldAssumption DEF Init
<1>2. \A r \in Runs : seen[r] = Nothing
  BY DEF Init
<1>3. Nothing \in Content
  BY DEF Nothing, Content, ScriptFile
<1>4. seen \in [Runs -> Content]
  <2>1. seen = [r \in Runs |-> Nothing]
    BY DEF Init
  <2>. QED  BY <2>1, <1>3
<1>5. at \in [Runs -> Steps] /\ stage \in [Runs -> 1..6] /\ stale \in [Runs -> BOOLEAN]
  BY DEF Init, Steps
<1>6. opts \in [Runs -> [client : {"claude-code", "cursor"}, md : BOOLEAN, update : BOOLEAN]]
  BY DEF Init
<1>7. raced \in BOOLEAN /\ torn \in BOOLEAN /\ added \subseteq UserHooks \cup UserServers /\ leaked \subseteq Documents
  BY DEF Init
<1>8. TypeOK
  BY <1>1, <1>4, <1>5, <1>6, <1>7 DEF TypeOK
<1>. QED  BY <1>8 DEF TypeInv, StagesFit, SeenFits, IdleFirst, Busy, Init

\* A run that starts.
LEMMA StartType ==
    ASSUME TypeInv, NEW r \in Runs, NEW o \in Options, Start(r, o)
    PROVE  TypeInv'
<1>. DEFINE p == [o EXCEPT !.client = IF @ = "auto" THEN detectClient ELSE @]
<1>1. o \in [client : Clients, md : BOOLEAN, update : BOOLEAN]
  BY SetupAssumption
<1>2. detectClient \in {"claude-code", "cursor"}
  BY DEF detectClient
<1>3. p \in OptionType
  BY <1>1, <1>2 DEF OptionType, Clients
<1>4. opts' = [opts EXCEPT ![r] = p]
  BY DEF Start
<1>. HIDE DEF p
<1>5. opts \in [Runs -> OptionType] /\ at \in [Runs -> Steps] /\ stage \in [Runs -> 1..6]
  BY DEF TypeInv, TypeOK, OptionType
<1>6. opts' \in [Runs -> OptionType] /\ \A q \in Runs : q # r => opts'[q] = opts[q]
  BY <1>3, <1>4, <1>5
<1>7. /\ at' \in [Runs -> Steps] /\ at[r] = "idle" /\ at'[r] = "look"
      /\ \A q \in Runs : q # r => at'[q] = at[q]
      /\ UNCHANGED <<disk, stage, seen, stale, raced, torn, added, leaked>>
  BY <1>5 DEF Start, Steps
<1>8. TypeOK'
  BY <1>6, <1>7 DEF TypeInv, TypeOK, OptionType
<1>9. stage[r] = 1
  BY DEF Start, TypeInv, IdleFirst
<1>10. Len(Stages(opts'[r])) \in {3, 4, 5}
  BY <1>6, StagesAre
<1>11. StagesFit'
  <2>1. ASSUME NEW q \in Runs, at'[q] \in {"look", "truncate", "write"}
        PROVE  stage'[q] <= Len(Stages(opts'[q]))
    <3>1. CASE q = r
      <4>1. stage'[q] = 1
        BY <3>1, <1>7, <1>9
      <4>2. Len(Stages(opts'[q])) \in {3, 4, 5}
        BY <3>1, <1>10
      <4>3. \A n \in {3, 4, 5} : 1 <= n
        OBVIOUS
      <4>4. 1 <= Len(Stages(opts'[q]))
        BY <4>2, <4>3
      <4>. QED  BY <4>1, <4>4
    <3>2. CASE q # r
      BY <2>1, <3>2, <1>6, <1>7 DEF TypeInv, StagesFit
    <3>. QED  BY <3>1, <3>2
  <2>. QED  BY <2>1 DEF StagesFit
<1>12. SeenFits'
  <2>1. ASSUME NEW q \in Runs, at'[q] \in {"truncate", "write"}
        PROVE  q # r /\ at'[q] = at[q] /\ FileOf(q)' = FileOf(q) /\ seen'[q] = seen[q]
    <3>1. q # r /\ at'[q] = at[q]
      BY <2>1, <1>7
    <3>. QED  BY <3>1, <1>6, <1>7, SameFile
  <2>. QED  BY <2>1 DEF TypeInv, SeenFits, Busy
<1>13. IdleFirst'
  BY <1>7 DEF TypeInv, IdleFirst
<1>. QED  BY <1>8, <1>11, <1>12, <1>13 DEF TypeInv

\* What a look does.
LEMMA LookIs ==
    ASSUME TypeInv, NEW r \in Runs, Look(r)
    PROVE  /\ UNCHANGED <<disk, opts, stale, raced, torn, added, leaked>>
           /\ at' \in [Runs -> Steps] /\ stage' \in [Runs -> 1..6] /\ at[r] = "look"
           /\ \A q \in Runs : q # r => at'[q] = at[q] /\ stage'[q] = stage[q] /\ seen'[q] = seen[q]
           /\ stage'[r] >= stage[r]
           /\ at'[r] \in {"look", "truncate"} => stage'[r] <= Len(Stages(opts[r]))
           /\ at'[r] \in {"look", "done", "truncate"}
           /\ \/ /\ at'[r] # "truncate" /\ UNCHANGED seen
                 /\ \/ Refused(FileOf(r), disk[FileOf(r)])
                    \/ Rewritten(FileOf(r), disk[FileOf(r)], opts[r]) = disk[FileOf(r)]
                 /\ stage'[r] > 1 => stage[r] > 1 \/ FileOf(r) = "pre"
                 /\ stage'[r] > 2 => stage[r] > 2 \/ FileOf(r) = "session"
              \/ /\ at'[r] = "truncate" /\ seen'[r] = disk[FileOf(r)] /\ UNCHANGED stage
                 /\ seen' = [seen EXCEPT ![r] = disk[FileOf(r)]]
                 /\ ~ Refused(FileOf(r), disk[FileOf(r)])
<1>. DEFINE f == FileOf(r)
            c == disk[f]
            skip == Refused(f, c) \/ Untouched(f, c, opts[r])
<1>1. /\ at[r] = "look"
      /\ UNCHANGED <<disk, opts, stale, raced, torn, added, leaked>>
      /\ IF skip THEN Advance(r, Refused(f, c)) /\ UNCHANGED seen
         ELSE /\ at' = [at EXCEPT ![r] = "truncate"]
              /\ seen' = [seen EXCEPT ![r] = c]
              /\ UNCHANGED stage
  BY DEF Look
<1>2. at \in [Runs -> Steps] /\ stage \in [Runs -> 1..6] /\ seen \in [Runs -> Content]
  BY DEF TypeInv, TypeOK
<1>3. stage[r] \in 1..6 /\ stage[r] <= Len(Stages(opts[r]))
  BY <1>1, <1>2 DEF TypeInv, StagesFit
<1>4. CASE skip
  <2>1. Refused(f, c) \in BOOLEAN
    BY DEF Refused
  <2>2. Advance(r, Refused(f, c)) /\ UNCHANGED seen
    BY <1>1, <1>4
  <2>3. /\ at' \in [Runs -> Steps] /\ stage' \in [Runs -> 1..6]
        /\ at'[r] \in {"look", "done"} /\ stage'[r] >= stage[r]
        /\ at'[r] = "look" => stage'[r] <= Len(Stages(opts[r]))
        /\ \A q \in Runs : q # r => at'[q] = at[q] /\ stage'[q] = stage[q]
        /\ stage'[r] > 1 => stage[r] > 1 \/ FileOf(r) = "pre"
        /\ stage'[r] > 2 => stage[r] > 2 \/ FileOf(r) = "session"
    BY <1>1, <2>1, <2>2, AdvanceIs
  <2>4. Refused(f, c) \/ Rewritten(f, c, opts[r]) = c
    BY <1>4 DEF Untouched
  <2>. QED  BY <1>1, <2>2, <2>3, <2>4
<1>5. CASE ~ skip
  <2>. HIDE DEF f, c
  <2>1. at' = [at EXCEPT ![r] = "truncate"] /\ seen' = [seen EXCEPT ![r] = c] /\ UNCHANGED stage
    BY <1>1, <1>5
  <2>2. /\ at' \in [Runs -> Steps] /\ at'[r] = "truncate" /\ seen'[r] = c
        /\ \A q \in Runs : q # r => at'[q] = at[q] /\ stage'[q] = stage[q] /\ seen'[q] = seen[q]
    BY <2>1, <1>2 DEF Steps
  <2>. QED  BY <1>1, <1>2, <1>3, <1>5, <2>1, <2>2 DEF f, c
<1>. QED  BY <1>4, <1>5

LEMMA LookType == ASSUME TypeInv, NEW r \in Runs, Look(r) PROVE TypeInv'
<1>1. /\ UNCHANGED <<disk, opts, stale, raced, torn, added, leaked>>
      /\ at' \in [Runs -> Steps] /\ stage' \in [Runs -> 1..6] /\ at[r] = "look"
      /\ \A q \in Runs : q # r => at'[q] = at[q] /\ stage'[q] = stage[q] /\ seen'[q] = seen[q]
      /\ at'[r] \in {"look", "truncate"} => stage'[r] <= Len(Stages(opts[r]))
      /\ at'[r] \in {"look", "done", "truncate"}
      /\ \/ at'[r] # "truncate" /\ UNCHANGED seen
         \/ /\ at'[r] = "truncate" /\ seen' = [seen EXCEPT ![r] = disk[FileOf(r)]] /\ UNCHANGED stage
            /\ ~ Refused(FileOf(r), disk[FileOf(r)])
  BY LookIs
<1>2. FileOf(r) \in Files
  BY <1>1, FileOfIs
<1>3. disk[FileOf(r)] \in FileType(FileOf(r)) /\ disk[FileOf(r)] \in Content
  <2>1. disk[FileOf(r)] \in FileType(FileOf(r))
    BY <1>2 DEF TypeInv, TypeOK
  <2>. QED  BY <2>1, <1>2, FileTypeIn
<1>4. seen' \in [Runs -> Content]
  <2>1. seen \in [Runs -> Content]
    BY DEF TypeInv, TypeOK
  <2>. HIDE DEF Content
  <2>. QED  BY <2>1, <1>1, <1>3
<1>5. TypeOK'
  BY <1>1, <1>4 DEF TypeInv, TypeOK
<1>6. StagesFit'
  <2>1. ASSUME NEW q \in Runs, at'[q] \in {"look", "truncate", "write"}
        PROVE  stage'[q] <= Len(Stages(opts'[q]))
    <3>1. CASE q = r
      BY <2>1, <3>1, <1>1
    <3>2. CASE q # r
      BY <2>1, <3>2, <1>1 DEF TypeInv, StagesFit
    <3>. QED  BY <3>1, <3>2
  <2>. QED  BY <2>1 DEF StagesFit
<1>7. SeenFits'
  <2>1. ASSUME NEW q \in Runs, at'[q] \in {"truncate", "write"}
        PROVE  /\ seen'[q] \in FileType(FileOf(q)')
               /\ FileOf(q)' \in Configurations => seen'[q].form # "broken"
    <3>1. CASE q # r
      <4>1. FileOf(q)' = FileOf(q)
        BY <3>1, <1>1, SameFile
      <4>. QED  BY <2>1, <3>1, <4>1, <1>1 DEF TypeInv, SeenFits, Busy
    <3>2. CASE q = r
      <4>1. /\ seen'[r] = disk[FileOf(r)] /\ UNCHANGED stage
            /\ ~ Refused(FileOf(r), disk[FileOf(r)])
        <5>1. seen \in [Runs -> Content]
          BY DEF TypeInv, TypeOK
        <5>. QED  BY <2>1, <3>2, <5>1, <1>1
      <4>2. FileOf(r)' = FileOf(r)
        BY <4>1, <1>1, SameFile
      <4>. QED  BY <3>2, <4>1, <4>2, <1>3 DEF Refused, Configurations
    <3>. QED  BY <3>1, <3>2
  <2>. QED  BY <2>1 DEF SeenFits, Busy
<1>8. IdleFirst'
  BY <1>1 DEF TypeInv, IdleFirst
<1>. QED  BY <1>5, <1>6, <1>7, <1>8 DEF TypeInv

\* What the two steps of a rewrite do.
LEMMA TruncateIs ==
    ASSUME TypeInv, NEW r \in Runs, Truncate(r)
    PROVE  /\ at[r] = "truncate" /\ at'[r] = "write"
           /\ \A q \in Runs : q # r => at'[q] = at[q]
           /\ at' \in [Runs -> Steps]
           /\ FileOf(r) \in Files /\ DOMAIN disk' = Files
           /\ \A g \in Files : disk'[g] = IF g = FileOf(r) THEN Emptied(FileOf(r)) ELSE disk[g]
           /\ \A q \in Runs : FileOf(q)' = FileOf(q)
           /\ stale' \in [Runs -> BOOLEAN]
           /\ raced' \in BOOLEAN /\ (~ raced' => ~ raced /\ ~ stale[r])
           /\ stale'[r] = FALSE \/ stale'[r] = stale[r]
           /\ \A q \in Runs : q # r => stale'[q] = (stale[q] \/ (Busy(q) /\ FileOf(q) = FileOf(r)))
           /\ UNCHANGED <<opts, stage, seen, torn, added, leaked>>
<1>1. /\ at[r] = "truncate"
      /\ disk' = [disk EXCEPT ![FileOf(r)] = Emptied(FileOf(r))]
      /\ at' = [at EXCEPT ![r] = "write"]
      /\ raced' = (raced \/ stale[r])
      /\ Outdate(FileOf(r), r)
      /\ UNCHANGED <<opts, stage, seen, torn, added, leaked>>
  BY DEF Truncate
<1>2. FileOf(r) \in Files
  BY <1>1, FileOfIs
<1>3. DOMAIN disk' = Files /\ \A g \in Files : disk'[g] = IF g = FileOf(r) THEN Emptied(FileOf(r)) ELSE disk[g]
  BY <1>1, <1>2, DiskIs DEF TypeInv, TypeOK
<1>4. \A q \in Runs : FileOf(q)' = FileOf(q)
  BY <1>1, SameFile
<1>5. stale' \in [Runs -> BOOLEAN]
  BY <1>1, StaleType DEF TypeInv
<1>6. /\ stale'[r] = (stale[r] /\ at[r] = "truncate")
      /\ \A q \in Runs : q # r => stale'[q] = (stale[q] \/ (Busy(q) /\ FileOf(q) = FileOf(r)))
  BY <1>1, Zenon DEF Outdate, Busy
<1>7. stale'[r] = FALSE \/ stale'[r] = stale[r]
  <2>1. stale[r] \in BOOLEAN
    BY DEF TypeInv, TypeOK
  <2>. QED  BY <2>1, <1>6, Zenon
<1>8. raced' \in BOOLEAN /\ (~ raced' => ~ raced /\ ~ stale[r])
  <2>1. raced \in BOOLEAN /\ stale[r] \in BOOLEAN
    BY DEF TypeInv, TypeOK
  <2>. QED  BY <2>1, <1>1, Zenon
<1>9. at' \in [Runs -> Steps] /\ at'[r] = "write" /\ \A q \in Runs : q # r => at'[q] = at[q]
  BY <1>1 DEF TypeInv, TypeOK, Steps
<1>. QED  BY <1>1, <1>2, <1>3, <1>4, <1>5, <1>6, <1>7, <1>8, <1>9

LEMMA WriteIs ==
    ASSUME TypeInv, NEW r \in Runs, Write(r)
    PROVE  /\ at[r] = "write" /\ at'[r] \in {"look", "done"}
           /\ at' \in [Runs -> Steps] /\ stage' \in [Runs -> 1..6] /\ stage'[r] >= stage[r]
           /\ at'[r] = "look" => stage'[r] <= Len(Stages(opts[r]))
           /\ \A q \in Runs : q # r => at'[q] = at[q] /\ stage'[q] = stage[q] /\ FileOf(q)' = FileOf(q)
           /\ stage'[r] > 1 => stage[r] > 1 \/ FileOf(r) = "pre"
           /\ stage'[r] > 2 => stage[r] > 2 \/ FileOf(r) = "session"
           /\ FileOf(r) \in Files /\ DOMAIN disk' = Files
           /\ \A g \in Files :
                 disk'[g] = IF g = FileOf(r) THEN Rewritten(FileOf(r), seen[r], opts[r]) ELSE disk[g]
           /\ stale' \in [Runs -> BOOLEAN]
           /\ raced' \in BOOLEAN /\ (~ raced' => ~ raced /\ ~ stale[r])
           /\ \A q \in Runs : q # r => stale'[q] = (stale[q] \/ (Busy(q) /\ FileOf(q) = FileOf(r)))
           /\ seen' \in [Runs -> Content] /\ \A q \in Runs : q # r => seen'[q] = seen[q]
           /\ UNCHANGED <<opts, torn, added, leaked>>
<1>1. /\ at[r] = "write"
      /\ disk' = [disk EXCEPT ![FileOf(r)] = Rewritten(FileOf(r), seen[r], opts[r])]
      /\ Advance(r, FALSE)
      /\ raced' = (raced \/ stale[r])
      /\ Outdate(FileOf(r), r)
      /\ seen' = [seen EXCEPT ![r] = Nothing]
      /\ UNCHANGED <<opts, torn, added, leaked>>
  BY DEF Write
<1>2. FileOf(r) \in Files
  BY <1>1, FileOfIs
<1>3. /\ DOMAIN disk' = Files
      /\ \A g \in Files :
            disk'[g] = IF g = FileOf(r) THEN Rewritten(FileOf(r), seen[r], opts[r]) ELSE disk[g]
  BY <1>1, <1>2, DiskIs DEF TypeInv, TypeOK
<1>4. /\ at' \in [Runs -> Steps] /\ stage' \in [Runs -> 1..6]
      /\ at'[r] \in {"look", "done"} /\ stage'[r] >= stage[r]
      /\ at'[r] = "look" => stage'[r] <= Len(Stages(opts[r]))
      /\ \A q \in Runs : q # r => at'[q] = at[q] /\ stage'[q] = stage[q]
      /\ stage'[r] > 1 => stage[r] > 1 \/ FileOf(r) = "pre"
      /\ stage'[r] > 2 => stage[r] > 2 \/ FileOf(r) = "session"
  BY <1>1, AdvanceIs
<1>5. \A q \in Runs : q # r => FileOf(q)' = FileOf(q)
  BY <1>1, <1>4, SameFile
<1>6. stale' \in [Runs -> BOOLEAN]
  BY <1>1, StaleType DEF TypeInv
<1>7. \A q \in Runs : q # r => stale'[q] = (stale[q] \/ (Busy(q) /\ FileOf(q) = FileOf(r)))
  BY <1>1, Zenon DEF Outdate, Busy
<1>8. raced' \in BOOLEAN /\ (~ raced' => ~ raced /\ ~ stale[r])
  <2>1. raced \in BOOLEAN /\ stale[r] \in BOOLEAN
    BY DEF TypeInv, TypeOK
  <2>. QED  BY <2>1, <1>1, Zenon
<1>9. seen' \in [Runs -> Content] /\ \A q \in Runs : q # r => seen'[q] = seen[q]
  <2>1. seen \in [Runs -> Content] /\ Nothing \in Content
    BY DEF TypeInv, TypeOK, Nothing, Content, ScriptFile
  <2>. HIDE DEF Content
  <2>. QED  BY <2>1, <1>1
<1>. QED  BY <1>1, <1>2, <1>3, <1>4, <1>5, <1>6, <1>7, <1>8, <1>9

LEMMA KillIs ==
    ASSUME TypeInv, NEW r \in Runs, Kill(r)
    PROVE  /\ at'[r] = "killed" /\ at' \in [Runs -> Steps]
           /\ \A q \in Runs : q # r => at'[q] = at[q] /\ seen'[q] = seen[q] /\ stale'[q] = stale[q]
           /\ at[r] # "idle"
           /\ torn' \in BOOLEAN /\ (~ torn' => ~ torn /\ at[r] # "write")
           /\ seen' \in [Runs -> Content] /\ stale' \in [Runs -> BOOLEAN]
           /\ \A q \in Runs : FileOf(q)' = FileOf(q)
           /\ UNCHANGED <<disk, opts, stage, raced, added, leaked>>
<1>1. /\ at[r] \in {"look", "truncate", "write"}
      /\ at' = [at EXCEPT ![r] = "killed"]
      /\ torn' = (torn \/ at[r] = "write")
      /\ seen' = [seen EXCEPT ![r] = Nothing]
      /\ stale' = [stale EXCEPT ![r] = FALSE]
      /\ UNCHANGED <<disk, opts, stage, raced, added, leaked>>
  BY DEF Kill
<1>2. /\ at \in [Runs -> Steps] /\ seen \in [Runs -> Content] /\ Nothing \in Content
      /\ stale \in [Runs -> BOOLEAN] /\ torn \in BOOLEAN
  BY DEF TypeInv, TypeOK, Nothing, Content, ScriptFile
<1>3. torn' \in BOOLEAN /\ (~ torn' => ~ torn /\ at[r] # "write")
  BY <1>1, <1>2, Zenon
<1>4. \A q \in Runs : FileOf(q)' = FileOf(q)
  BY <1>1, SameFile
<1>5. /\ at'[r] = "killed" /\ at' \in [Runs -> Steps]
      /\ seen' \in [Runs -> Content] /\ stale' \in [Runs -> BOOLEAN]
      /\ \A q \in Runs : q # r => at'[q] = at[q] /\ seen'[q] = seen[q] /\ stale'[q] = stale[q]
  BY <1>1, <1>2 DEF Steps
<1>. QED  BY <1>1, <1>3, <1>4, <1>5

LEMMA ClientOutdates ==
    ASSUME NEW f, Outdate(f, "the client")
    PROVE  \A q \in Runs : stale'[q] = (stale[q] \/ (Busy(q) /\ FileOf(q) = f))
<1>1. \A q \in Runs : q # "the client"
  BY SetupAssumption
<1>. QED  BY <1>1, Zenon DEF Outdate, Busy

\* What the client's own writes do.
LEMMA AddHookIs ==
    ASSUME TypeInv, NEW f \in Settings, NEW e \in UserHooks, AddHook(f, e)
    PROVE  /\ f \in Files /\ disk[f].form # "broken"
           /\ DOMAIN disk' = Files /\ \A g \in Files : g # f => disk'[g] = disk[g]
           /\ disk'[f] \in SettingsFile /\ disk'[f].form = "object"
           /\ disk[f].pre \in Seq(HookEntries) /\ e \in HookEntries
           /\ disk'[f].pre = Append(disk[f].pre, e) /\ disk'[f].start = disk[f].start
           /\ \A q \in Runs : FileOf(q)' = FileOf(q)
           /\ stale' \in [Runs -> BOOLEAN]
           /\ \A q \in Runs : stale'[q] = (stale[q] \/ (Busy(q) /\ FileOf(q) = f))
           /\ added' = added \cup {e}
           /\ UNCHANGED <<at, opts, stage, seen, raced, torn, leaked>>
<1>1. /\ disk[f].form # "broken"
      /\ disk' = [disk EXCEPT ![f] =
            [form |-> "object", pre |-> Append(disk[f].pre, e), start |-> disk[f].start]]
      /\ added' = added \cup {e}
      /\ Outdate(f, "the client")
      /\ UNCHANGED <<at, opts, stage, seen, raced, torn, leaked>>
  BY DEF AddHook
<1>2. f \in Files
  BY KindsOfFiles
<1>. DEFINE c == [form |-> "object", pre |-> Append(disk[f].pre, e), start |-> disk[f].start]
<1>3. DOMAIN disk' = Files /\ \A g \in Files : disk'[g] = IF g = f THEN c ELSE disk[g]
  BY <1>1, <1>2, DiskIs DEF TypeInv, TypeOK
<1>4. disk[f].pre \in Seq(HookEntries) /\ disk[f].start \in Seq(HookEntries) /\ e \in HookEntries
  <2>1. disk[f] \in SettingsFile
    BY <1>2, FileTypeIs DEF TypeInv, TypeOK
  <2>. QED  BY <2>1 DEF SettingsFile, HookEntries
<1>5. c \in SettingsFile
  <2>1. Append(disk[f].pre, e) \in Seq(HookEntries)
    BY <1>4, AppendProperties
  <2>. QED  BY <2>1, <1>4 DEF SettingsFile
<1>6. \A q \in Runs : FileOf(q)' = FileOf(q)
  BY <1>1, SameFile
<1>7. stale' \in [Runs -> BOOLEAN]
  BY <1>1, StaleType DEF TypeInv
<1>8. \A q \in Runs : stale'[q] = (stale[q] \/ (Busy(q) /\ FileOf(q) = f))
  BY <1>1, ClientOutdates
<1>. QED  BY <1>1, <1>2, <1>3, <1>4, <1>5, <1>6, <1>7, <1>8

LEMMA AddServerIs ==
    ASSUME TypeInv, NEW n \in UserServers, AddServer(n)
    PROVE  /\ "servers" \in Files /\ disk["servers"].form # "broken"
           /\ DOMAIN disk' = Files /\ \A g \in Files : g # "servers" => disk'[g] = disk[g]
           /\ disk'["servers"] \in ServersFile /\ disk'["servers"].form = "object"
           /\ disk'["servers"].servers[n] # NoServer
           /\ \A m \in UserServers :
                 m # n => disk'["servers"].servers[m] = disk["servers"].servers[m]
           /\ \A q \in Runs : FileOf(q)' = FileOf(q)
           /\ stale' \in [Runs -> BOOLEAN]
           /\ \A q \in Runs : stale'[q] = (stale[q] \/ (Busy(q) /\ FileOf(q) = "servers"))
           /\ added' = added \cup {n}
           /\ UNCHANGED <<at, opts, stage, seen, raced, torn, leaked>>
<1>. DEFINE c == [form |-> "object",
                  servers |-> [disk["servers"].servers EXCEPT ![n] = "another program"]]
<1>1. /\ disk["servers"].form # "broken"
      /\ disk' = [disk EXCEPT !["servers"] = c]
      /\ added' = added \cup {n}
      /\ Outdate("servers", "the client")
      /\ UNCHANGED <<at, opts, stage, seen, raced, torn, leaked>>
  BY DEF AddServer
<1>2. "servers" \in Files
  BY KindsOfFiles
<1>3. DOMAIN disk' = Files /\ \A g \in Files : disk'[g] = IF g = "servers" THEN c ELSE disk[g]
  <2>1. disk' = [disk EXCEPT !["servers"] = c] /\ DOMAIN disk = Files
    BY <1>1 DEF TypeInv, TypeOK
  <2>. HIDE DEF c
  <2>. QED  BY <2>1, <1>2, DiskIs
<1>4. disk["servers"].servers \in [ServerNames -> Commands]
  <2>1. disk["servers"] \in ServersFile
    BY <1>2, FileTypeIs DEF TypeInv, TypeOK
  <2>. QED  BY <2>1 DEF ServersFile
<1>5. /\ c \in ServersFile /\ c.form = "object" /\ c.servers[n] # NoServer
      /\ \A m \in UserServers : m # n => c.servers[m] = disk["servers"].servers[m]
  <2>1. "another program" \in Commands /\ "another program" # NoServer
    BY DEF Commands, NoServer
  <2>2. UserServers \subseteq ServerNames
    BY DEF ServerNames
  <2>. QED  BY <2>1, <2>2, <1>4 DEF ServersFile
<1>6. \A q \in Runs : FileOf(q)' = FileOf(q)
  BY <1>1, SameFile
<1>7. stale' \in [Runs -> BOOLEAN]
  BY <1>1, StaleType DEF TypeInv
<1>8. \A q \in Runs : stale'[q] = (stale[q] \/ (Busy(q) /\ FileOf(q) = "servers"))
  BY <1>1, ClientOutdates
<1>. HIDE DEF c
<1>9. disk'["servers"] = c /\ \A g \in Files : g # "servers" => disk'[g] = disk[g]
  BY <1>2, <1>3
<1>. QED  BY <1>1, <1>2, <1>3, <1>5, <1>6, <1>7, <1>8, <1>9

\* The parts of the invariant that a step which moves no run keeps.
LEMMA RunsStay ==
    ASSUME TypeInv, UNCHANGED <<at, opts, stage, seen>>,
           DOMAIN disk' = Files, \A g \in Files : disk'[g] \in FileType(g),
           stale' \in [Runs -> BOOLEAN], raced' \in BOOLEAN, torn' \in BOOLEAN,
           added' \subseteq UserHooks \cup UserServers, leaked' \subseteq Documents
    PROVE  TypeInv'
<1>1. \A q \in Runs : FileOf(q)' = FileOf(q)
  BY SameFile
<1>2. TypeOK'
  BY DEF TypeInv, TypeOK
<1>3. StagesFit'
  BY DEF TypeInv, StagesFit
<1>4. SeenFits'
  BY <1>1 DEF TypeInv, SeenFits, Busy
<1>5. IdleFirst'
  BY DEF TypeInv, IdleFirst
<1>. QED  BY <1>2, <1>3, <1>4, <1>5 DEF TypeInv

LEMMA AddType ==
    ASSUME TypeInv, \/ \E f \in Settings, e \in UserHooks : AddHook(f, e)
                    \/ \E n \in UserServers : AddServer(n)
    PROVE  TypeInv'
<1>1. ASSUME NEW f \in Settings, NEW e \in UserHooks, AddHook(f, e) PROVE TypeInv'
  <2>1. /\ f \in Files /\ DOMAIN disk' = Files /\ \A g \in Files : g # f => disk'[g] = disk[g]
        /\ disk'[f] \in SettingsFile /\ stale' \in [Runs -> BOOLEAN] /\ added' = added \cup {e}
        /\ UNCHANGED <<at, opts, stage, seen, raced, torn, leaked>>
    BY <1>1, AddHookIs
  <2>2. \A g \in Files : disk'[g] \in FileType(g)
    BY <2>1, FileTypeIs DEF TypeInv, TypeOK
  <2>3. /\ raced' \in BOOLEAN /\ torn' \in BOOLEAN /\ leaked' \subseteq Documents
        /\ added' \subseteq UserHooks \cup UserServers
    BY <2>1 DEF TypeInv, TypeOK
  <2>. QED  BY <2>1, <2>2, <2>3, RunsStay
<1>2. ASSUME NEW n \in UserServers, AddServer(n) PROVE TypeInv'
  <2>1. /\ "servers" \in Files /\ DOMAIN disk' = Files
        /\ \A g \in Files : g # "servers" => disk'[g] = disk[g]
        /\ disk'["servers"] \in ServersFile /\ stale' \in [Runs -> BOOLEAN]
        /\ added' = added \cup {n}
        /\ UNCHANGED <<at, opts, stage, seen, raced, torn, leaked>>
    BY <1>2, AddServerIs
  <2>2. \A g \in Files : disk'[g] \in FileType(g)
    BY <2>1, FileTypeIs DEF TypeInv, TypeOK
  <2>3. /\ raced' \in BOOLEAN /\ torn' \in BOOLEAN /\ leaked' \subseteq Documents
        /\ added' \subseteq UserHooks \cup UserServers
    BY <2>1 DEF TypeInv, TypeOK
  <2>. QED  BY <2>1, <2>2, <2>3, RunsStay
<1>. QED  BY <1>1, <1>2

LEMMA TruncateType == ASSUME TypeInv, NEW r \in Runs, Truncate(r) PROVE TypeInv'
<1>1. /\ at[r] = "truncate" /\ at'[r] = "write" /\ at' \in [Runs -> Steps]
      /\ \A q \in Runs : q # r => at'[q] = at[q]
      /\ FileOf(r) \in Files /\ DOMAIN disk' = Files
      /\ \A g \in Files : disk'[g] = IF g = FileOf(r) THEN Emptied(FileOf(r)) ELSE disk[g]
      /\ \A q \in Runs : FileOf(q)' = FileOf(q)
      /\ stale' \in [Runs -> BOOLEAN] /\ raced' \in BOOLEAN
      /\ UNCHANGED <<opts, stage, seen, torn, added, leaked>>
  BY TruncateIs
<1>2. \A g \in Files : disk'[g] \in FileType(g)
  BY <1>1, EmptiedType DEF TypeInv, TypeOK
<1>3. TypeOK'
  BY <1>1, <1>2 DEF TypeInv, TypeOK
<1>4. StagesFit'
  BY <1>1 DEF TypeInv, StagesFit
<1>5. SeenFits'
  BY <1>1 DEF TypeInv, SeenFits, Busy
<1>6. IdleFirst'
  BY <1>1 DEF TypeInv, IdleFirst
<1>. QED  BY <1>3, <1>4, <1>5, <1>6 DEF TypeInv

LEMMA WriteType == ASSUME TypeInv, NEW r \in Runs, Write(r) PROVE TypeInv'
<1>1. /\ at[r] = "write" /\ at'[r] \in {"look", "done"}
      /\ at' \in [Runs -> Steps] /\ stage' \in [Runs -> 1..6]
      /\ at'[r] = "look" => stage'[r] <= Len(Stages(opts[r]))
      /\ \A q \in Runs : q # r => at'[q] = at[q] /\ stage'[q] = stage[q] /\ FileOf(q)' = FileOf(q)
      /\ FileOf(r) \in Files /\ DOMAIN disk' = Files
      /\ \A g \in Files :
            disk'[g] = IF g = FileOf(r) THEN Rewritten(FileOf(r), seen[r], opts[r]) ELSE disk[g]
      /\ stale' \in [Runs -> BOOLEAN] /\ raced' \in BOOLEAN
      /\ seen' \in [Runs -> Content] /\ \A q \in Runs : q # r => seen'[q] = seen[q]
      /\ UNCHANGED <<opts, torn, added, leaked>>
  BY WriteIs
<1>2. Rewritten(FileOf(r), seen[r], opts[r]) \in FileType(FileOf(r))
  <2>1. seen[r] \in FileType(FileOf(r))
    BY <1>1 DEF TypeInv, SeenFits, Busy
  <2>2. opts[r].update \in BOOLEAN
    BY OptsAre DEF TypeInv, OptionType
  <2>. QED  BY <1>1, <2>1, <2>2, RewrittenType
<1>3. \A g \in Files : disk'[g] \in FileType(g)
  BY <1>1, <1>2 DEF TypeInv, TypeOK
<1>4. TypeOK'
  BY <1>1, <1>3 DEF TypeInv, TypeOK
<1>5. StagesFit'
  <2>1. ASSUME NEW q \in Runs, at'[q] \in {"look", "truncate", "write"}
        PROVE  stage'[q] <= Len(Stages(opts'[q]))
    <3>1. CASE q = r
      BY <2>1, <3>1, <1>1
    <3>2. CASE q # r
      BY <2>1, <3>2, <1>1 DEF TypeInv, StagesFit
    <3>. QED  BY <3>1, <3>2
  <2>. QED  BY <2>1 DEF StagesFit
<1>6. SeenFits'
  <2>1. ASSUME NEW q \in Runs, at'[q] \in {"truncate", "write"} PROVE q # r
    BY <2>1, <1>1
  <2>. QED  BY <2>1, <1>1 DEF TypeInv, SeenFits, Busy
<1>7. IdleFirst'
  <2>1. ASSUME NEW q \in Runs, at'[q] = "idle" PROVE q # r
    BY <2>1, <1>1
  <2>. QED  BY <2>1, <1>1 DEF TypeInv, IdleFirst
<1>. QED  BY <1>4, <1>5, <1>6, <1>7 DEF TypeInv

LEMMA KillType == ASSUME TypeInv, NEW r \in Runs, Kill(r) PROVE TypeInv'
<1>1. /\ at'[r] = "killed" /\ at' \in [Runs -> Steps]
      /\ \A q \in Runs : q # r => at'[q] = at[q] /\ seen'[q] = seen[q]
      /\ torn' \in BOOLEAN /\ seen' \in [Runs -> Content] /\ stale' \in [Runs -> BOOLEAN]
      /\ \A q \in Runs : FileOf(q)' = FileOf(q)
      /\ UNCHANGED <<disk, opts, stage, raced, added, leaked>>
  BY KillIs
<1>2. TypeOK'
  BY <1>1 DEF TypeInv, TypeOK
<1>3. ASSUME NEW q \in Runs, at'[q] # "killed" PROVE q # r
  BY <1>1, <1>3
<1>4. StagesFit'
  BY <1>1, <1>3 DEF TypeInv, StagesFit
<1>5. SeenFits'
  BY <1>1, <1>3 DEF TypeInv, SeenFits, Busy
<1>6. IdleFirst'
  BY <1>1, <1>3 DEF TypeInv, IdleFirst
<1>. QED  BY <1>2, <1>4, <1>5, <1>6 DEF TypeInv

\* A document that the parser takes for one has a directive line, the header,
\* so the hook blocks it.
LEMMA ReadsIs ==
    ASSUME NEW f \in Settings, NEW d \in Documents, Reads(f, d)
    PROVE  UNCHANGED vars
<1>1. /\ d.md /\ d.system /\ IsMarkdownAI(d.lines)
      /\ leaked' = IF Blocks("Read", d) THEN leaked ELSE leaked \cup {d}
      /\ UNCHANGED <<disk, at, opts, stage, seen, stale, raced, torn, added>>
  BY DEF Reads
<1>2. isMarkdownAIDocument(d.lines)
  BY <1>1 DEF isMarkdownAIDocument, IsMarkdownAI
<1>3. Blocks("Read", d)
  BY <1>1, <1>2 DEF Blocks
<1>. QED  BY <1>1, <1>3 DEF vars

LEMMA NextType == ASSUME TypeInv, [Next]_vars PROVE TypeInv'
<1>1. CASE UNCHANGED vars
  <2>1. UNCHANGED <<disk, at, opts, stage, seen, stale, raced, torn, added, leaked>>
    BY <1>1 DEF vars
  <2>2. /\ DOMAIN disk' = Files /\ \A g \in Files : disk'[g] \in FileType(g)
        /\ stale' \in [Runs -> BOOLEAN] /\ raced' \in BOOLEAN /\ torn' \in BOOLEAN
        /\ added' \subseteq UserHooks \cup UserServers /\ leaked' \subseteq Documents
    BY <2>1 DEF TypeInv, TypeOK
  <2>. QED  BY <2>1, <2>2, RunsStay
<1>2. CASE \E f \in Settings, d \in Documents : Reads(f, d)
  BY <1>1, <1>2, ReadsIs
<1>3. ASSUME NEW r \in Runs,
             (\E o \in Options : Start(r, o)) \/ Look(r) \/ Truncate(r) \/ Write(r) \/ Kill(r)
      PROVE  TypeInv'
  BY <1>3, StartType, LookType, TruncateType, WriteType, KillType
<1>4. CASE \/ \E f \in Settings, e \in UserHooks : AddHook(f, e)
           \/ \E n \in UserServers : AddServer(n)
  BY <1>4, AddType
<1>. QED  BY <1>1, <1>2, <1>3, <1>4 DEF Next

\* Whatever the files held and however the runs interleave, every variable
\* keeps its type and a run holds no copy of a file that did not parse
\* (init.ts:499-677).
THEOREM SetupIsTyped == Spec => []TypeInv
BY InitType, NextType, PTL DEF Spec

(***************************************************************************)
(* Nothing leaks                                                           *)
(***************************************************************************)

\* The AI's Read never gets the source of a shipped document, because the
\* hook's test, a directive line anywhere, accepts every text the parser's
\* header rule accepts (init.ts:252-292 against parser.ts:819-866).
THEOREM NothingEverLeaks == Spec => []NothingLeaks
<1>1. Init => NothingLeaks
  BY DEF Init, NothingLeaks
<1>2. NothingLeaks /\ [Next]_vars => NothingLeaks'
  <2>. SUFFICES ASSUME NothingLeaks, [Next]_vars PROVE NothingLeaks'
    OBVIOUS
  <2>1. CASE UNCHANGED vars
    BY <2>1 DEF vars, NothingLeaks
  <2>2. CASE \E f \in Settings, d \in Documents : Reads(f, d)
    BY <2>1, <2>2, ReadsIs
  <2>3. ASSUME NEW r \in Runs,
               (\E o \in Options : Start(r, o)) \/ Look(r) \/ Truncate(r) \/ Write(r) \/ Kill(r)
        PROVE  UNCHANGED leaked
    BY <2>3 DEF Start, Look, Truncate, Write, Kill
  <2>4. CASE \/ \E f \in Settings, e \in UserHooks : AddHook(f, e)
             \/ \E n \in UserServers : AddServer(n)
    BY <2>4 DEF AddHook, AddServer, NothingLeaks
  <2>. QED  BY <2>1, <2>2, <2>3, <2>4 DEF Next, NothingLeaks
<1>. QED  BY <1>1, <1>2, PTL DEF Spec

(***************************************************************************)
(* Ours, once in each list                                                 *)
(***************************************************************************)

Single(c) == AtMostOnce(Ours, c.pre) /\ AtMostOnce(Ours, c.start)

\* What a run is about to rewrite has ours at most once too.
OnceInv ==
    /\ RegisteredOnce
    /\ \A r \in Runs : Busy(r) /\ FileOf(r) \in Settings => Single(seen[r])

LEMMA OnceAtTheEnd ==
    ASSUME NEW S, NEW s \in Seq(S), NEW e \in S, AtMostOnce(Ours, s),
           e = Ours => ~ Registers(s)
    PROVE  AtMostOnce(Ours, Append(s, e))
<1>1. /\ Len(Append(s, e)) = Len(s) + 1 /\ Append(s, e)[Len(s) + 1] = e
      /\ \A i \in 1..Len(s) : Append(s, e)[i] = s[i]
      /\ Len(s) \in Nat /\ DOMAIN s = 1..Len(s) /\ Append(s, e) \in Seq(S)
  BY AppendProperties, LenProperties
<1>2. DOMAIN Append(s, e) = 1..(Len(s) + 1)
  BY <1>1, LenProperties
<1>3. e = Ours => \A i \in 1..Len(s) : s[i] # Ours
  BY <1>1 DEF Registers, Contains
<1>4. ASSUME NEW i \in 1..(Len(s) + 1), NEW j \in 1..(Len(s) + 1),
             Append(s, e)[i] = Ours, Append(s, e)[j] = Ours
      PROVE  i = j
  <2>1. /\ i \in 1..Len(s) \/ i = Len(s) + 1
        /\ j \in 1..Len(s) \/ j = Len(s) + 1
    BY <1>1
  <2>2. i \in 1..Len(s) /\ j \in 1..Len(s) => s[i] = Ours /\ s[j] = Ours
    BY <1>1, <1>4
  <2>3. i \in 1..Len(s) /\ j \in 1..Len(s) => i = j
    BY <1>1, <2>2 DEF AtMostOnce
  <2>. QED  BY <2>1, <2>3, <1>1, <1>3, <1>4
<1>. QED  BY <1>2, <1>4 DEF AtMostOnce

LEMMA HooksStaySingle ==
    ASSUME NEW c \in SettingsFile, Single(c)
    PROVE  Single(updateClientHooks(c))
<1>. DEFINE new == updateClientHooks(c)
<1>1. /\ new.pre = c.pre \/ (new.pre = Append(c.pre, Ours) /\ ~ Registers(c.pre))
      /\ new.start = c.start \/ (new.start = Append(c.start, Ours) /\ ~ Registers(c.start))
  BY HooksAre
<1>. HIDE DEF new
<1>2. c.pre \in Seq(HookEntries) /\ c.start \in Seq(HookEntries) /\ Ours \in HookEntries
  BY DEF SettingsFile, HookEntries
<1>3. AtMostOnce(Ours, new.pre)
  BY <1>1, <1>2, OnceAtTheEnd DEF Single
<1>4. AtMostOnce(Ours, new.start)
  BY <1>1, <1>2, OnceAtTheEnd DEF Single
<1>. QED  BY <1>3, <1>4 DEF Single, new

LEMMA EmptiedIsSingle == \A f \in Settings : Single(Emptied(f))
<1>1. ~ \E i \in DOMAIN <<>> : TRUE
  OBVIOUS
<1>. QED  BY <1>1, EmptiedIs DEF Single, AtMostOnce

LEMMA InitOnce == Init => OnceInv
BY WorldAssumption DEF Init, OnceInv, RegisteredOnce, Busy

LEMMA NextOnce == ASSUME TypeInv, OnceInv, [Next]_vars PROVE OnceInv'
<1>1. /\ \A f \in Settings : Single(disk[f]) /\ f \in Files
      /\ \A r \in Runs : Busy(r) /\ FileOf(r) \in Settings => Single(seen[r])
  BY KindsOfFiles DEF OnceInv, RegisteredOnce, Single
<1>2. ASSUME \A f \in Settings : Single(disk'[f]),
             \A r \in Runs : at'[r] \in {"truncate", "write"} /\ FileOf(r)' \in Settings
                                 => Single(seen'[r])
      PROVE  OnceInv'
  BY <1>2 DEF OnceInv, RegisteredOnce, Single, Busy
<1>. HIDE DEF Single
<1>3. ASSUME UNCHANGED <<disk, at, opts, stage, seen>> PROVE OnceInv'
  <2>1. \A r \in Runs : FileOf(r)' = FileOf(r)
    BY <1>3, SameFile
  <2>. QED  BY <1>1, <1>2, <1>3, <2>1 DEF Busy
<1>4. CASE UNCHANGED vars
  BY <1>3, <1>4 DEF vars
<1>5. CASE \E f \in Settings, d \in Documents : Reads(f, d)
  BY <1>4, <1>5, ReadsIs
<1>6. ASSUME NEW r \in Runs, NEW o \in Options, Start(r, o) PROVE OnceInv'
  <2>1. /\ UNCHANGED <<disk, seen, stage>> /\ at'[r] = "look"
        /\ \A q \in Runs : q # r => at'[q] = at[q] /\ opts'[q] = opts[q]
    BY <1>6 DEF Start, TypeInv, TypeOK
  <2>2. \A q \in Runs : q # r => FileOf(q)' = FileOf(q)
    BY <2>1, SameFile
  <2>. QED  BY <1>1, <1>2, <2>1, <2>2 DEF Busy
<1>7. ASSUME NEW r \in Runs, Look(r) PROVE OnceInv'
  <2>1. /\ UNCHANGED <<disk, opts>>
        /\ \A q \in Runs : q # r => at'[q] = at[q] /\ stage'[q] = stage[q] /\ seen'[q] = seen[q]
        /\ at'[r] \in {"look", "done", "truncate"}
        /\ at'[r] = "truncate" => seen'[r] = disk[FileOf(r)] /\ UNCHANGED stage
    BY <1>7, LookIs
  <2>2. \A q \in Runs : q # r => FileOf(q)' = FileOf(q)
    BY <2>1, SameFile
  <2>3. at'[r] = "truncate" => FileOf(r)' = FileOf(r)
    BY <2>1, SameFile
  <2>. QED  BY <1>1, <1>2, <2>1, <2>2, <2>3 DEF Busy
<1>8. ASSUME NEW r \in Runs, Truncate(r) PROVE OnceInv'
  <2>1. /\ at[r] = "truncate" /\ at'[r] = "write"
        /\ \A q \in Runs : q # r => at'[q] = at[q]
        /\ \A g \in Files : disk'[g] = IF g = FileOf(r) THEN Emptied(FileOf(r)) ELSE disk[g]
        /\ \A q \in Runs : FileOf(q)' = FileOf(q)
        /\ UNCHANGED seen
    BY <1>8, TruncateIs
  <2>. QED  BY <1>1, <1>2, <2>1, EmptiedIsSingle DEF Busy
<1>9. ASSUME NEW r \in Runs, Write(r) PROVE OnceInv'
  <2>1. /\ at[r] = "write" /\ at'[r] \in {"look", "done"}
        /\ \A q \in Runs : q # r => at'[q] = at[q] /\ FileOf(q)' = FileOf(q) /\ seen'[q] = seen[q]
        /\ FileOf(r) \in Files
        /\ \A g \in Files :
              disk'[g] = IF g = FileOf(r) THEN Rewritten(FileOf(r), seen[r], opts[r]) ELSE disk[g]
    BY <1>9, WriteIs
  <2>2. FileOf(r) \in Settings => Single(Rewritten(FileOf(r), seen[r], opts[r]))
    <3>. SUFFICES ASSUME FileOf(r) \in Settings
                  PROVE  Single(Rewritten(FileOf(r), seen[r], opts[r]))
      OBVIOUS
    <3>1. Rewritten(FileOf(r), seen[r], opts[r]) = updateClientHooks(seen[r])
      BY RewrittenIs
    <3>2. seen[r] \in SettingsFile
      BY <2>1, FileTypeIs DEF TypeInv, SeenFits, Busy
    <3>3. Single(seen[r])
      BY <1>1, <2>1 DEF Busy
    <3>. QED  BY <3>1, <3>2, <3>3, HooksStaySingle
  <2>. QED  BY <1>1, <1>2, <2>1, <2>2 DEF Busy
<1>10. ASSUME NEW r \in Runs, Kill(r) PROVE OnceInv'
  <2>1. /\ at'[r] = "killed" /\ UNCHANGED disk
        /\ \A q \in Runs : q # r => at'[q] = at[q] /\ seen'[q] = seen[q]
        /\ \A q \in Runs : FileOf(q)' = FileOf(q)
    BY <1>10, KillIs
  <2>. QED  BY <1>1, <1>2, <2>1 DEF Busy
<1>11. ASSUME NEW f \in Settings, NEW e \in UserHooks, AddHook(f, e) PROVE OnceInv'
  <2>1. /\ \A g \in Files : g # f => disk'[g] = disk[g]
        /\ disk[f].pre \in Seq(HookEntries) /\ e \in HookEntries
        /\ disk'[f].pre = Append(disk[f].pre, e) /\ disk'[f].start = disk[f].start
        /\ \A q \in Runs : FileOf(q)' = FileOf(q)
        /\ UNCHANGED <<at, seen>>
    BY <1>11, AddHookIs
  <2>2. e # Ours
    BY SetupAssumption
  <2>3. Single(disk'[f])
    BY <1>1, <2>1, <2>2, OnceAtTheEnd DEF Single
  <2>. QED  BY <1>1, <1>2, <2>1, <2>3 DEF Busy
<1>12. ASSUME NEW n \in UserServers, AddServer(n) PROVE OnceInv'
  <2>1. /\ \A g \in Files : g # "servers" => disk'[g] = disk[g]
        /\ \A q \in Runs : FileOf(q)' = FileOf(q)
        /\ UNCHANGED <<at, seen>>
    BY <1>12, AddServerIs
  <2>2. \A f \in Settings : f # "servers"
    BY KindsOfFiles
  <2>. QED  BY <1>1, <1>2, <2>1, <2>2 DEF Busy
<1>. QED
  BY <1>4, <1>5, <1>6, <1>7, <1>8, <1>9, <1>10, <1>11, <1>12 DEF Next

(***************************************************************************)
(* Scripts before what names them                                          *)
(***************************************************************************)

\* The script is there, or a run is about to write it.
Present(s) == Runnable(disk[s]) \/ \E q \in Runs : at[q] = "write" /\ FileOf(q) = s

\* A run is past the script, or a hook list names it.
WantsPre == (\E r \in Runs : stage[r] > 1) \/ (\E g \in Settings : Registers(disk[g].pre))
WantsSession ==
    (\E r \in Runs : stage[r] > 2) \/ (\E g \in Settings : Registers(disk[g].start))

ScriptsInv ==
    ~ torn => (WantsPre => Present("pre")) /\ (WantsSession => Present("session"))

LEMMA InitScripts == Init => ScriptsInv
<1>. SUFFICES ASSUME Init PROVE ScriptsInv
  OBVIOUS
<1>1. \A r \in Runs : stage[r] = 1
  BY DEF Init
<1>2. \A g \in Settings : /\ Registers(disk[g].pre) => Runnable(disk["pre"])
                          /\ Registers(disk[g].start) => Runnable(disk["session"])
  BY WorldAssumption DEF Init
<1>. QED  BY <1>1, <1>2 DEF ScriptsInv, WantsPre, WantsSession, Present

\* A script that is there stays, unless a run is killed while it writes it.
LEMMA ScriptStays ==
    ASSUME TypeInv, [Next]_vars, NEW s \in Scripts, ~ torn', Present(s)
    PROVE  Present(s)'
<1>1. s \in Files /\ s \notin Settings /\ s # "servers"
  BY KindsOfFiles
<1>2. ASSUME UNCHANGED <<disk, at, opts, stage>> PROVE Present(s)'
  BY <1>2, SameFile DEF Present
<1>3. CASE UNCHANGED vars
  BY <1>2, <1>3 DEF vars
<1>4. CASE \E f \in Settings, d \in Documents : Reads(f, d)
  BY <1>3, <1>4, ReadsIs
<1>5. ASSUME NEW r \in Runs, \A q \in Runs : q # r => at'[q] = at[q] /\ FileOf(q)' = FileOf(q),
             UNCHANGED disk, at[r] # "write"
      PROVE  Present(s)'
  <2>1. \A q \in Runs : at[q] = "write" => at'[q] = "write" /\ FileOf(q)' = FileOf(q)
    BY <1>5
  <2>. QED  BY <1>5, <2>1 DEF Present
<1>6. ASSUME NEW r \in Runs, NEW o \in Options, Start(r, o) PROVE Present(s)'
  <2>1. /\ UNCHANGED <<disk, stage>> /\ at[r] = "idle"
        /\ \A q \in Runs : q # r => at'[q] = at[q] /\ opts'[q] = opts[q]
    BY <1>6 DEF Start, TypeInv, TypeOK
  <2>2. \A q \in Runs : q # r => FileOf(q)' = FileOf(q)
    BY <2>1, SameFile
  <2>. QED  BY <1>5, <2>1, <2>2
<1>7. ASSUME NEW r \in Runs, Look(r) PROVE Present(s)'
  <2>1. /\ UNCHANGED <<disk, opts>> /\ at[r] = "look"
        /\ \A q \in Runs : q # r => at'[q] = at[q] /\ stage'[q] = stage[q]
    BY <1>7, LookIs
  <2>2. \A q \in Runs : q # r => FileOf(q)' = FileOf(q)
    BY <2>1, SameFile
  <2>. QED  BY <1>5, <2>1, <2>2
<1>8. ASSUME NEW r \in Runs, Truncate(r) PROVE Present(s)'
  <2>1. /\ at[r] = "truncate" /\ at'[r] = "write"
        /\ \A q \in Runs : q # r => at'[q] = at[q]
        /\ \A g \in Files : disk'[g] = IF g = FileOf(r) THEN Emptied(FileOf(r)) ELSE disk[g]
        /\ \A q \in Runs : FileOf(q)' = FileOf(q)
    BY <1>8, TruncateIs
  <2>. QED  BY <1>1, <2>1 DEF Present
<1>9. ASSUME NEW r \in Runs, Write(r) PROVE Present(s)'
  <2>1. /\ at[r] = "write"
        /\ \A q \in Runs : q # r => at'[q] = at[q] /\ FileOf(q)' = FileOf(q)
        /\ FileOf(r) \in Files
        /\ \A g \in Files :
              disk'[g] = IF g = FileOf(r) THEN Rewritten(FileOf(r), seen[r], opts[r]) ELSE disk[g]
    BY <1>9, WriteIs
  <2>2. CASE FileOf(r) = s
    <3>1. seen[r] \in ScriptFile
      BY <2>1, <2>2, FileTypeIs DEF TypeInv, SeenFits, Busy
    <3>2. Runnable(disk'[s])
      BY <1>1, <2>1, <2>2, <3>1, RewrittenIs, ScriptsAre
    <3>. QED  BY <3>2 DEF Present
  <2>3. CASE FileOf(r) # s
    BY <1>1, <2>1, <2>3 DEF Present
  <2>. QED  BY <2>2, <2>3
<1>10. ASSUME NEW r \in Runs, Kill(r) PROVE Present(s)'
  <2>1. /\ UNCHANGED disk /\ at[r] # "write"
        /\ \A q \in Runs : q # r => at'[q] = at[q]
        /\ \A q \in Runs : FileOf(q)' = FileOf(q)
    BY <1>10, KillIs
  <2>. QED  BY <1>5, <2>1
<1>11. ASSUME UNCHANGED at, \A q \in Runs : FileOf(q)' = FileOf(q), disk'[s] = disk[s]
       PROVE  Present(s)'
  BY <1>11 DEF Present
<1>12. ASSUME NEW f \in Settings, NEW e \in UserHooks, AddHook(f, e) PROVE Present(s)'
  <2>1. /\ \A g \in Files : g # f => disk'[g] = disk[g]
        /\ \A q \in Runs : FileOf(q)' = FileOf(q) /\ UNCHANGED at
    BY <1>12, AddHookIs
  <2>2. disk'[s] = disk[s] /\ UNCHANGED at
    BY <1>1, <1>12, <2>1, AddHookIs
  <2>. QED  BY <1>11, <2>1, <2>2
<1>13. ASSUME NEW n \in UserServers, AddServer(n) PROVE Present(s)'
  <2>1. /\ \A g \in Files : g # "servers" => disk'[g] = disk[g]
        /\ \A q \in Runs : FileOf(q)' = FileOf(q)
        /\ UNCHANGED at
    BY <1>13, AddServerIs
  <2>. QED  BY <1>1, <1>11, <2>1
<1>. QED
  BY <1>3, <1>4, <1>6, <1>7, <1>8, <1>9, <1>10, <1>12, <1>13 DEF Next

\* A script is wanted only by a run that passed it, which left it there.
LEMMA WantedAnew ==
    ASSUME TypeInv, [Next]_vars
    PROVE  /\ WantsPre' => WantsPre \/ Present("pre")'
           /\ WantsSession' => WantsSession \/ Present("session")'
<1>. DEFINE Said == /\ WantsPre' => WantsPre \/ Present("pre")'
                    /\ WantsSession' => WantsSession \/ Present("session")'
<1>1. /\ "pre" \in Scripts /\ "session" \in Scripts /\ "pre" \in Files /\ "session" \in Files
      /\ "pre" \notin Settings \cup {"servers"} /\ "session" \notin Settings \cup {"servers"}
      /\ \A f \in Settings : f \in Files /\ f # "pre" /\ f # "session" /\ f # "servers"
  BY KindsOfFiles
<1>2. ASSUME \A q \in Runs : stage'[q] = stage[q],
             \A g \in Settings : /\ Registers(disk'[g].pre) => Registers(disk[g].pre)
                                 /\ Registers(disk'[g].start) => Registers(disk[g].start)
      PROVE  Said
  BY <1>2 DEF WantsPre, WantsSession
<1>3. ASSUME UNCHANGED vars PROVE Said
  BY <1>2, <1>3 DEF vars
<1>4. ASSUME \E f \in Settings, d \in Documents : Reads(f, d) PROVE Said
  BY <1>3, <1>4, ReadsIs
<1>5. ASSUME NEW r \in Runs, NEW o \in Options, Start(r, o) PROVE Said
  BY <1>2, <1>5 DEF Start
<1>6. ASSUME NEW r \in Runs, Look(r) PROVE Said
  <2>1. /\ UNCHANGED disk
        /\ \A q \in Runs : q # r => stage'[q] = stage[q]
        /\ \/ UNCHANGED stage
           \/ /\ \/ Refused(FileOf(r), disk[FileOf(r)])
                 \/ Rewritten(FileOf(r), disk[FileOf(r)], opts[r]) = disk[FileOf(r)]
              /\ stage'[r] > 1 => stage[r] > 1 \/ FileOf(r) = "pre"
              /\ stage'[r] > 2 => stage[r] > 2 \/ FileOf(r) = "session"
    BY <1>6, LookIs
  <2>2. CASE UNCHANGED stage
    BY <1>2, <2>1, <2>2
  <2>3. CASE /\ \/ Refused(FileOf(r), disk[FileOf(r)])
                \/ Rewritten(FileOf(r), disk[FileOf(r)], opts[r]) = disk[FileOf(r)]
             /\ stage'[r] > 1 => stage[r] > 1 \/ FileOf(r) = "pre"
             /\ stage'[r] > 2 => stage[r] > 2 \/ FileOf(r) = "session"
    <3>1. ASSUME FileOf(r) \in Scripts PROVE Runnable(disk'[FileOf(r)])
      <4>1. FileOf(r) \in Files /\ FileOf(r) \notin Settings \cup {"servers"}
        BY <3>1, KindsOfFiles
      <4>2. Rewritten(FileOf(r), disk[FileOf(r)], opts[r]) = disk[FileOf(r)]
        BY <2>3, <4>1 DEF Refused
      <4>3. disk[FileOf(r)] \in ScriptFile
        BY <3>1, <4>1, FileTypeIs DEF TypeInv, TypeOK
      <4>4. Rewritten(FileOf(r), disk[FileOf(r)], opts[r]) = ensureHookFile(disk[FileOf(r)])
        BY <3>1, RewrittenIs
      <4>. QED  BY <2>1, <4>2, <4>3, <4>4, ScriptsAre
    <3>2. WantsPre' => WantsPre \/ FileOf(r) = "pre"
      BY <2>1, <2>3 DEF WantsPre
    <3>3. WantsSession' => WantsSession \/ FileOf(r) = "session"
      BY <2>1, <2>3 DEF WantsSession
    <3>4. FileOf(r) = "pre" => Present("pre")'
      BY <1>1, <3>1 DEF Present
    <3>5. FileOf(r) = "session" => Present("session")'
      BY <1>1, <3>1 DEF Present
    <3>. QED  BY <3>2, <3>3, <3>4, <3>5
  <2>. QED  BY <2>1, <2>2, <2>3
<1>7. ASSUME NEW r \in Runs, Truncate(r) PROVE Said
  <2>1. /\ \A g \in Files : disk'[g] = IF g = FileOf(r) THEN Emptied(FileOf(r)) ELSE disk[g]
        /\ UNCHANGED stage
    BY <1>7, TruncateIs
  <2>2. \A f \in Settings : ~ Registers(Emptied(f).pre) /\ ~ Registers(Emptied(f).start)
    <3>1. ~ Registers(<<>>)
      BY DEF Registers, Contains
    <3>. QED  BY <3>1, EmptiedIs
  <2>. QED  BY <1>1, <1>2, <2>1, <2>2
<1>8. ASSUME NEW r \in Runs, Write(r) PROVE Said
  <2>1. /\ at[r] = "write"
        /\ \A q \in Runs : q # r => stage'[q] = stage[q]
        /\ stage'[r] > 1 => stage[r] > 1 \/ FileOf(r) = "pre"
        /\ stage'[r] > 2 => stage[r] > 2 \/ FileOf(r) = "session"
        /\ FileOf(r) \in Files
        /\ \A g \in Files :
              disk'[g] = IF g = FileOf(r) THEN Rewritten(FileOf(r), seen[r], opts[r]) ELSE disk[g]
    BY <1>8, WriteIs
  <2>2. FileOf(r) \in Settings => stage[r] > 2
    <3>1. FileOf(r) \in Settings => FileOf(r) # "pre" /\ FileOf(r) # "session"
      BY <1>1
    <3>2. /\ (FileOf(r) = "pre") <=> (stage[r] = 1)
          /\ (FileOf(r) = "session") <=> (stage[r] = 2)
      BY <2>1, FileOfIs
    <3>3. stage[r] \in 1..6
      BY DEF TypeInv, TypeOK
    <3>. QED  BY <3>1, <3>2, <3>3
  <2>3. FileOf(r) \in Scripts => Runnable(disk'[FileOf(r)])
    <3>. SUFFICES ASSUME FileOf(r) \in Scripts PROVE Runnable(disk'[FileOf(r)])
      OBVIOUS
    <3>1. seen[r] \in ScriptFile
      BY <2>1, FileTypeIs DEF TypeInv, SeenFits, Busy
    <3>. QED  BY <2>1, <3>1, RewrittenIs, ScriptsAre
  <2>4. WantsPre' => WantsPre \/ FileOf(r) = "pre"
    <3>1. CASE FileOf(r) \in Settings
      <4>1. stage[r] > 1
        <5>1. stage[r] \in 1..6
          BY DEF TypeInv, TypeOK
        <5>. QED  BY <2>2, <3>1, <5>1
      <4>. QED  BY <4>1 DEF WantsPre
    <3>2. CASE FileOf(r) \notin Settings
      <4>1. \A g \in Settings : disk'[g] = disk[g]
        BY <1>1, <2>1, <3>2
      <4>. QED  BY <2>1, <4>1 DEF WantsPre
    <3>. QED  BY <3>1, <3>2
  <2>5. WantsSession' => WantsSession \/ FileOf(r) = "session"
    <3>1. CASE FileOf(r) \in Settings
      BY <2>2, <3>1 DEF WantsSession
    <3>2. CASE FileOf(r) \notin Settings
      <4>1. \A g \in Settings : disk'[g] = disk[g]
        BY <1>1, <2>1, <3>2
      <4>. QED  BY <2>1, <4>1 DEF WantsSession
    <3>. QED  BY <3>1, <3>2
  <2>6. FileOf(r) = "pre" => Present("pre")'
    BY <1>1, <2>3 DEF Present
  <2>7. FileOf(r) = "session" => Present("session")'
    BY <1>1, <2>3 DEF Present
  <2>. QED  BY <2>4, <2>5, <2>6, <2>7
<1>9. ASSUME NEW r \in Runs, Kill(r) PROVE Said
  BY <1>2, <1>9, KillIs
<1>10. ASSUME NEW f \in Settings, NEW e \in UserHooks, AddHook(f, e) PROVE Said
  <2>1. /\ \A g \in Files : g # f => disk'[g] = disk[g]
        /\ disk[f].pre \in Seq(HookEntries) /\ e \in HookEntries
        /\ disk'[f].pre = Append(disk[f].pre, e) /\ disk'[f].start = disk[f].start
        /\ UNCHANGED stage
    BY <1>10, AddHookIs
  <2>2. e # Ours
    BY SetupAssumption
  <2>3. Registers(Append(disk[f].pre, e)) => Registers(disk[f].pre)
    <3>1. LET s == disk[f].pre IN
          /\ Len(Append(s, e)) = Len(s) + 1 /\ Append(s, e)[Len(s) + 1] = e
          /\ \A i \in 1..Len(s) : Append(s, e)[i] = s[i]
          /\ Len(s) \in Nat /\ DOMAIN s = 1..Len(s)
          /\ DOMAIN Append(s, e) = 1..Len(Append(s, e))
      <4>1. Append(disk[f].pre, e) \in Seq(HookEntries)
        BY <2>1, AppendProperties
      <4>. QED  BY <2>1, <4>1, AppendProperties, LenProperties
    <3>2. \A i \in 1..(Len(disk[f].pre) + 1) : i \in 1..Len(disk[f].pre) \/ i = Len(disk[f].pre) + 1
      BY <3>1
    <3>. QED  BY <2>2, <3>1, <3>2 DEF Registers, Contains
  <2>4. \A g \in Settings : /\ Registers(disk'[g].pre) => Registers(disk[g].pre)
                            /\ Registers(disk'[g].start) => Registers(disk[g].start)
    BY <1>1, <2>1, <2>3
  <2>. QED  BY <1>2, <2>1, <2>4
<1>11. ASSUME NEW n \in UserServers, AddServer(n) PROVE Said
  <2>1. /\ \A g \in Files : g # "servers" => disk'[g] = disk[g]
        /\ UNCHANGED stage
    BY <1>11, AddServerIs
  <2>. QED  BY <1>1, <1>2, <2>1
<1>. HIDE DEF Said
<1>12. Said
  BY <1>3, <1>4, <1>5, <1>6, <1>7, <1>8, <1>9, <1>10, <1>11 DEF Next
<1>. QED  BY <1>12 DEF Said

LEMMA TornStays == ASSUME TypeInv, [Next]_vars, ~ torn' PROVE ~ torn
<1>1. ASSUME NEW r \in Runs, Kill(r) PROVE ~ torn
  BY <1>1, KillIs
<1>2. CASE UNCHANGED vars
  BY <1>2 DEF vars
<1>3. CASE \E f \in Settings, d \in Documents : Reads(f, d)
  BY <1>2, <1>3, ReadsIs
<1>. QED
  BY <1>1, <1>2, <1>3 DEF Next, Start, Look, Truncate, Write, AddHook, AddServer

LEMMA NextScripts == ASSUME TypeInv, ScriptsInv, [Next]_vars PROVE ScriptsInv'
<1>. SUFFICES ASSUME ~ torn'
              PROVE  /\ WantsPre' => Present("pre")'
                     /\ WantsSession' => Present("session")'
  BY DEF ScriptsInv
<1>1. ~ torn
  BY TornStays
<1>2. /\ WantsPre' => WantsPre \/ Present("pre")'
      /\ WantsSession' => WantsSession \/ Present("session")'
  BY WantedAnew
<1>3. "pre" \in Scripts /\ "session" \in Scripts
  BY KindsOfFiles
<1>4. (Present("pre") => Present("pre")') /\ (Present("session") => Present("session")')
  BY <1>3, ScriptStays
<1>. QED  BY <1>1, <1>2, <1>4 DEF ScriptsInv

LEMMA ScriptsRun == ASSUME ScriptsInv PROVE RegisteredScriptsRun
BY DEF ScriptsInv, RegisteredScriptsRun, WantsPre, WantsSession, Present

(***************************************************************************)
(* What the client wrote is kept                                           *)
(***************************************************************************)

\* A configuration that holds c has the client's entry e.
Has(f, c, e) ==
    IF f = "servers" THEN e \in UserServers /\ c.servers[e] # NoServer
    ELSE e \in UserHooks /\ \E i \in DOMAIN c.pre : c.pre[i] = e

\* The run is about to write f, and nobody wrote f since it read it.
Holds(r, f) == at[r] = "write" /\ FileOf(r) = f /\ ~ stale[r]

\* The entry is in a file, or with a run that is about to write it.
Kept(e) ==
    \E f \in Configurations :
        \/ Has(f, disk[f], e)
        \/ \E r \in Runs : Holds(r, f) /\ Has(f, seen[r], e)

\* A run that nobody overtook has read what the file holds, and then is the only
\* one that holds it.
FreshCopies ==
    \A r \in Runs : at[r] = "truncate" /\ ~ stale[r] => seen[r] = disk[FileOf(r)]

EmptyMeanwhile ==
    \A f \in Configurations, r \in Runs : Holds(r, f) => disk[f] = Emptied(f)

HeldOnce == \A f \in Configurations, q, r \in Runs : Holds(q, f) /\ Holds(r, f) => q = r

KeptInv ==
    ~ raced /\ ~ torn =>
        FreshCopies /\ EmptyMeanwhile /\ HeldOnce /\ \A e \in added : Kept(e)

LEMMA ConfigurationsAre ==
    /\ \A f \in Configurations : f \in Files /\ (f \in Settings \/ f = "servers")
    /\ \A f \in Settings : f \in Configurations
    /\ "servers" \in Configurations /\ "servers" \notin Settings
BY KindsOfFiles DEF Configurations

LEMMA RewrittenHas ==
    ASSUME NEW f \in Configurations, NEW c \in FileType(f), NEW o, NEW e, Has(f, c, e)
    PROVE  Has(f, Rewritten(f, c, o), e)
<1>1. CASE f = "servers"
  <2>1. c \in ServersFile /\ Rewritten(f, c, o) = updateClientMcpServer(c)
    BY <1>1, FileTypeIs, RewrittenIs
  <2>. QED  BY <1>1, <2>1, ServersAre DEF Has
<1>2. CASE f \in Settings
  <2>1. c \in SettingsFile /\ Rewritten(f, c, o) = updateClientHooks(c) /\ f # "servers"
    BY <1>2, FileTypeIs, RewrittenIs, KindsOfFiles
  <2>. DEFINE new == updateClientHooks(c)
  <2>2. new.pre = c.pre \/ new.pre = Append(c.pre, Ours)
    BY <2>1, HooksAre
  <2>. HIDE DEF new
  <2>3. c.pre \in Seq(HookEntries) /\ Ours \in HookEntries
    BY <2>1 DEF SettingsFile, HookEntries
  <2>4. \A i \in DOMAIN c.pre : i \in DOMAIN Append(c.pre, Ours) /\ Append(c.pre, Ours)[i] = c.pre[i]
    BY <2>3, AtTheEnd
  <2>5. Has(f, new, e)
    BY <1>2, <2>1, <2>2, <2>4 DEF Has
  <2>. QED  BY <2>1, <2>5 DEF new
<1>. QED  BY <1>1, <1>2, ConfigurationsAre

LEMMA EmptiedHasNone == ASSUME NEW f \in Configurations, NEW e PROVE ~ Has(f, Emptied(f), e)
<1>1. CASE f = "servers"
  <2>1. UserServers \subseteq ServerNames
    BY DEF ServerNames
  <2>2. \A n \in UserServers : NoServers[n] = NoServer
    BY <2>1 DEF NoServers
  <2>. QED  BY <1>1, <2>2, EmptiedIs DEF Has
<1>2. CASE f \in Settings
  <2>0. Emptied(f) = [form |-> "broken", pre |-> <<>>, start |-> <<>>]
    BY <1>2, EmptiedIs
  <2>3. Emptied(f).pre = <<>>
    BY <2>0
  <2>4. f # "servers"
    BY <1>2, KindsOfFiles
  <2>1. f # "servers" /\ Emptied(f).pre = <<>>
    BY <2>3, <2>4
  <2>2. DOMAIN <<>> = {}
    OBVIOUS
  <2>. QED  BY <2>1, <2>2 DEF Has
<1>. QED  BY <1>1, <1>2, ConfigurationsAre

\* A write of f0, by those in R, leaves the other files and makes old what the
\* others have read of f0.
LEMMA OneFileWritten ==
    ASSUME TypeInv, FreshCopies, NEW f0 \in Files, NEW R,
           \A g \in Files : g # f0 => disk'[g] = disk[g],
           \A q \in Runs \ R :
              /\ at'[q] = at[q] /\ FileOf(q)' = FileOf(q) /\ seen'[q] = seen[q]
              /\ stale'[q] = (stale[q] \/ (Busy(q) /\ FileOf(q) = f0))
    PROVE  /\ \A q \in Runs \ R :
                 at'[q] = "truncate" /\ ~ stale'[q] => seen'[q] = disk'[FileOf(q)']
           /\ \A f \in Files, q \in Runs \ R : Holds(q, f)' <=> Holds(q, f) /\ f # f0
<1>1. \A q \in Runs : Busy(q) => FileOf(q) \in Files
  BY FileOfIs DEF Busy
<1>2. ASSUME NEW q \in Runs \ R
      PROVE  ~ stale'[q] <=> ~ stale[q] /\ ~ (Busy(q) /\ FileOf(q) = f0)
  BY Zenon
<1>3. ASSUME NEW q \in Runs \ R, at'[q] = "truncate", ~ stale'[q]
      PROVE  seen'[q] = disk'[FileOf(q)']
  <2>1. at[q] = "truncate" /\ Busy(q) /\ FileOf(q)' = FileOf(q) /\ seen'[q] = seen[q]
    BY <1>3 DEF Busy
  <2>2. ~ stale[q] /\ FileOf(q) # f0
    BY <1>2, <1>3, <2>1
  <2>3. seen[q] = disk[FileOf(q)]
    BY <2>1, <2>2 DEF FreshCopies
  <2>. QED  BY <1>1, <2>1, <2>2, <2>3
<1>4. ASSUME NEW f \in Files, NEW q \in Runs \ R
      PROVE  Holds(q, f)' <=> Holds(q, f) /\ f # f0
  <2>1. at'[q] = at[q] /\ FileOf(q)' = FileOf(q)
    OBVIOUS
  <2>2. at[q] = "write" => Busy(q)
    BY DEF Busy
  <2>. QED  BY <1>2, <2>1, <2>2 DEF Holds
<1>. QED  BY <1>3, <1>4

LEMMA InitKept == Init => KeptInv
BY DEF Init, KeptInv, FreshCopies, EmptyMeanwhile, HeldOnce, Holds

\* A step that writes no file.
LEMMA QuietKept ==
    ASSUME TypeInv, KeptInv, raced' = raced, ~ torn' => ~ torn,
           UNCHANGED <<disk, added>>,
           \A f \in Files, q \in Runs : Holds(q, f)' <=> Holds(q, f),
           \A q \in Runs : at[q] = "write" => seen'[q] = seen[q],
           \A q \in Runs : at'[q] = "truncate" /\ ~ stale'[q] =>
              \/ seen'[q] = disk[FileOf(q)']
              \/ /\ at[q] = "truncate" /\ ~ stale[q]
                 /\ FileOf(q)' = FileOf(q) /\ seen'[q] = seen[q]
    PROVE  KeptInv'
<1>. SUFFICES ASSUME ~ raced', ~ torn'
              PROVE  /\ FreshCopies' /\ EmptyMeanwhile' /\ HeldOnce'
                     /\ \A e \in added' : Kept(e)'
  BY DEF KeptInv
<1>1. FreshCopies /\ EmptyMeanwhile /\ HeldOnce /\ \A e \in added : Kept(e)
  BY DEF KeptInv
<1>2. \A f \in Configurations : f \in Files
  BY ConfigurationsAre
<1>3. FreshCopies'
  BY <1>1 DEF FreshCopies
<1>4. EmptyMeanwhile' /\ HeldOnce'
  BY <1>1, <1>2 DEF EmptyMeanwhile, HeldOnce
<1>5. ASSUME NEW e \in added' PROVE Kept(e)'
  <2>1. Kept(e)
    BY <1>1, <1>5
  <2>2. PICK f \in Configurations : \/ Has(f, disk[f], e)
                                    \/ \E r \in Runs : Holds(r, f) /\ Has(f, seen[r], e)
    BY <2>1 DEF Kept
  <2>3. \A r \in Runs : Holds(r, f) => Holds(r, f)' /\ seen'[r] = seen[r]
    BY <1>2 DEF Holds
  <2>. QED  BY <2>2, <2>3 DEF Kept
<1>. QED  BY <1>3, <1>4, <1>5

LEMMA TruncateKept ==
    ASSUME TypeInv, KeptInv, NEW r \in Runs, Truncate(r)
    PROVE  KeptInv'
<1>. SUFFICES ASSUME ~ raced', ~ torn'
              PROVE  /\ FreshCopies' /\ EmptyMeanwhile' /\ HeldOnce'
                     /\ \A e \in added' : Kept(e)'
  BY DEF KeptInv
<1>. DEFINE f0 == FileOf(r)
<1>1. /\ at[r] = "truncate" /\ at'[r] = "write"
      /\ \A q \in Runs : q # r => at'[q] = at[q]
      /\ f0 \in Files
      /\ \A g \in Files : disk'[g] = IF g = f0 THEN Emptied(f0) ELSE disk[g]
      /\ \A q \in Runs : FileOf(q)' = FileOf(q)
      /\ ~ raced /\ ~ stale[r]
      /\ stale'[r] = FALSE \/ stale'[r] = stale[r]
      /\ \A q \in Runs : q # r => stale'[q] = (stale[q] \/ (Busy(q) /\ FileOf(q) = f0))
      /\ UNCHANGED <<seen, torn, added>>
  BY TruncateIs
<1>2. FreshCopies /\ EmptyMeanwhile /\ HeldOnce /\ \A e \in added : Kept(e)
  <2>1. ~ raced /\ ~ torn
    BY <1>1
  <2>. QED  BY <2>1 DEF KeptInv
<1>3. ~ stale'[r] /\ FileOf(r)' = f0 /\ seen'[r] = seen[r] /\ seen[r] = disk[f0]
  BY <1>1, <1>2 DEF FreshCopies
<1>. HIDE DEF f0
<1>4. /\ \A q \in Runs \ {r} : at'[q] = "truncate" /\ ~ stale'[q] => seen'[q] = disk'[FileOf(q)']
      /\ \A f \in Files, q \in Runs \ {r} : Holds(q, f)' <=> Holds(q, f) /\ f # f0
  <2>1. /\ \A g \in Files : g # f0 => disk'[g] = disk[g]
        /\ \A q \in Runs \ {r} :
              /\ at'[q] = at[q] /\ FileOf(q)' = FileOf(q) /\ seen'[q] = seen[q]
              /\ stale'[q] = (stale[q] \/ (Busy(q) /\ FileOf(q) = f0))
    BY <1>1
  <2>. QED  BY <2>1, <1>1, <1>2, OneFileWritten
<1>5. \A f \in Files : Holds(r, f)' <=> f = f0
  BY <1>1, <1>3 DEF Holds
<1>6. \A f \in Configurations : f \in Files
  BY ConfigurationsAre
<1>7. FreshCopies'
  BY <1>1, <1>4 DEF FreshCopies
<1>8. EmptyMeanwhile'
  <2>1. ASSUME NEW f \in Configurations, NEW q \in Runs, Holds(q, f)' PROVE disk'[f] = Emptied(f)
    <3>1. CASE q = r
      BY <2>1, <3>1, <1>1, <1>5, <1>6
    <3>2. CASE q # r
      <4>1. Holds(q, f) /\ f # f0
        BY <2>1, <3>2, <1>4, <1>6
      <4>. QED  BY <4>1, <1>1, <1>2, <1>6 DEF EmptyMeanwhile
    <3>. QED  BY <3>1, <3>2
  <2>. QED  BY <2>1 DEF EmptyMeanwhile
<1>9. HeldOnce'
  BY <1>2, <1>4, <1>5, <1>6 DEF HeldOnce
\* A run that nobody overtook has a copy that parses, so the file does.
<1>10. ASSUME f0 \in Configurations, NEW q \in Runs PROVE ~ Holds(q, f0)
  <2>1. seen[r].form # "broken"
    BY <1>1, <1>10 DEF TypeInv, SeenFits, Busy, f0
  <2>2. Emptied(f0).form = "broken"
    BY <1>10, ConfigurationsAre, EmptiedIs
  <2>. QED  BY <2>1, <2>2, <1>2, <1>3, <1>10 DEF EmptyMeanwhile
<1>11. ASSUME NEW e \in added' PROVE Kept(e)'
  <2>1. Kept(e)
    BY <1>1, <1>2, <1>11
  <2>2. PICK f \in Configurations : \/ Has(f, disk[f], e)
                                    \/ \E q \in Runs : Holds(q, f) /\ Has(f, seen[q], e)
    BY <2>1 DEF Kept
  <2>3. CASE Has(f, disk[f], e) /\ f # f0
    BY <2>3, <1>1, <1>6 DEF Kept
  <2>4. CASE Has(f, disk[f], e) /\ f = f0
    <3>1. Holds(r, f)' /\ Has(f, seen'[r], e)
      BY <2>4, <1>3, <1>5, <1>6
    <3>. QED  BY <3>1 DEF Kept
  <2>5. ASSUME NEW q \in Runs, Holds(q, f), Has(f, seen[q], e) PROVE Kept(e)'
    <3>1. f # f0
      BY <2>5, <1>10
    <3>2. q # r
      BY <2>5, <1>1 DEF Holds
    <3>3. Holds(q, f)' /\ seen'[q] = seen[q]
      BY <2>5, <3>1, <3>2, <1>1, <1>4, <1>6
    <3>. QED  BY <2>5, <3>3 DEF Kept
  <2>. QED  BY <2>2, <2>3, <2>4, <2>5
<1>. QED  BY <1>7, <1>8, <1>9, <1>11

LEMMA WriteKept ==
    ASSUME TypeInv, KeptInv, NEW r \in Runs, Write(r)
    PROVE  KeptInv'
<1>. SUFFICES ASSUME ~ raced', ~ torn'
              PROVE  /\ FreshCopies' /\ EmptyMeanwhile' /\ HeldOnce'
                     /\ \A e \in added' : Kept(e)'
  BY DEF KeptInv
<1>. DEFINE f0 == FileOf(r)
<1>1. /\ at[r] = "write" /\ at'[r] \in {"look", "done"}
      /\ \A q \in Runs : q # r => at'[q] = at[q] /\ FileOf(q)' = FileOf(q) /\ seen'[q] = seen[q]
      /\ f0 \in Files
      /\ \A g \in Files : disk'[g] = IF g = f0 THEN Rewritten(f0, seen[r], opts[r]) ELSE disk[g]
      /\ ~ raced /\ ~ stale[r]
      /\ \A q \in Runs : q # r => stale'[q] = (stale[q] \/ (Busy(q) /\ FileOf(q) = f0))
      /\ UNCHANGED <<opts, torn, added>>
  BY WriteIs
<1>2. FreshCopies /\ EmptyMeanwhile /\ HeldOnce /\ \A e \in added : Kept(e)
  <2>1. ~ raced /\ ~ torn
    BY <1>1
  <2>. QED  BY <2>1 DEF KeptInv
<1>3. Holds(r, f0) /\ seen[r] \in FileType(f0)
  BY <1>1 DEF Holds, TypeInv, SeenFits, Busy
<1>. HIDE DEF f0
<1>4. /\ \A q \in Runs \ {r} : at'[q] = "truncate" /\ ~ stale'[q] => seen'[q] = disk'[FileOf(q)']
      /\ \A f \in Files, q \in Runs \ {r} : Holds(q, f)' <=> Holds(q, f) /\ f # f0
  <2>1. /\ \A g \in Files : g # f0 => disk'[g] = disk[g]
        /\ \A q \in Runs \ {r} :
              /\ at'[q] = at[q] /\ FileOf(q)' = FileOf(q) /\ seen'[q] = seen[q]
              /\ stale'[q] = (stale[q] \/ (Busy(q) /\ FileOf(q) = f0))
    BY <1>1
  <2>. QED  BY <2>1, <1>1, <1>2, OneFileWritten
<1>5. \A f \in Files : ~ Holds(r, f)'
  BY <1>1 DEF Holds
<1>6. \A f \in Configurations : f \in Files
  BY ConfigurationsAre
<1>7. FreshCopies'
  BY <1>1, <1>4 DEF FreshCopies
<1>8. EmptyMeanwhile'
  <2>1. ASSUME NEW f \in Configurations, NEW q \in Runs, Holds(q, f)' PROVE disk'[f] = Emptied(f)
    <3>1. Holds(q, f) /\ f # f0
      BY <2>1, <1>4, <1>5, <1>6
    <3>. QED  BY <3>1, <1>1, <1>2, <1>6 DEF EmptyMeanwhile
  <2>. QED  BY <2>1 DEF EmptyMeanwhile
<1>9. HeldOnce'
  BY <1>2, <1>4, <1>5, <1>6 DEF HeldOnce
<1>10. ASSUME NEW e \in added' PROVE Kept(e)'
  <2>1. Kept(e)
    BY <1>1, <1>2, <1>10
  <2>2. PICK f \in Configurations : \/ Has(f, disk[f], e)
                                    \/ \E q \in Runs : Holds(q, f) /\ Has(f, seen[q], e)
    BY <2>1 DEF Kept
  <2>3. ASSUME Has(f, disk[f], e) PROVE Kept(e)'
    <3>1. f # f0
      BY <2>3, <1>2, <1>3, EmptiedHasNone DEF EmptyMeanwhile
    <3>2. disk'[f] = disk[f]
      BY <3>1, <1>1, <1>6
    <3>. QED  BY <2>3, <3>2 DEF Kept
  <2>4. ASSUME NEW q \in Runs, Holds(q, f), Has(f, seen[q], e) PROVE Kept(e)'
    <3>1. CASE f = f0
      <4>1. q = r
        BY <2>4, <3>1, <1>2, <1>3 DEF HeldOnce
      <4>2. Has(f, Rewritten(f0, seen[r], opts[r]), e)
        BY <2>4, <3>1, <4>1, <1>3, RewrittenHas
      <4>3. Has(f, disk'[f], e)
        BY <3>1, <4>2, <1>1
      <4>. QED  BY <4>3 DEF Kept
    <3>2. CASE f # f0
      <4>1. q # r
        BY <2>4, <3>2 DEF Holds, f0
      <4>2. Holds(q, f)' /\ seen'[q] = seen[q]
        BY <2>4, <3>2, <4>1, <1>1, <1>4, <1>6
      <4>. QED  BY <2>4, <4>2 DEF Kept
    <3>. QED  BY <3>1, <3>2
  <2>. QED  BY <2>2, <2>3, <2>4
<1>. QED  BY <1>7, <1>8, <1>9, <1>10

\* The client writes the entry x into f0, which parses.
LEMMA AddKept ==
    ASSUME TypeInv, KeptInv, NEW f0 \in Configurations, NEW x,
           disk[f0].form # "broken",
           \A g \in Files : g # f0 => disk'[g] = disk[g],
           Has(f0, disk'[f0], x), \A e : Has(f0, disk[f0], e) => Has(f0, disk'[f0], e),
           \A q \in Runs : FileOf(q)' = FileOf(q),
           \A q \in Runs : stale'[q] = (stale[q] \/ (Busy(q) /\ FileOf(q) = f0)),
           added' = added \cup {x},
           UNCHANGED <<at, seen, raced, torn>>
    PROVE  KeptInv'
<1>. SUFFICES ASSUME ~ raced', ~ torn'
              PROVE  /\ FreshCopies' /\ EmptyMeanwhile' /\ HeldOnce'
                     /\ \A e \in added' : Kept(e)'
  BY DEF KeptInv
<1>1. FreshCopies /\ EmptyMeanwhile /\ HeldOnce /\ \A e \in added : Kept(e)
  BY DEF KeptInv
<1>2. \A f \in Configurations : f \in Files
  BY ConfigurationsAre
<1>3. /\ \A q \in Runs : at'[q] = "truncate" /\ ~ stale'[q] => seen'[q] = disk'[FileOf(q)']
      /\ \A f \in Files, q \in Runs : Holds(q, f)' <=> Holds(q, f) /\ f # f0
  <2>1. \A q \in Runs \ {} :
              /\ at'[q] = at[q] /\ FileOf(q)' = FileOf(q) /\ seen'[q] = seen[q]
              /\ stale'[q] = (stale[q] \/ (Busy(q) /\ FileOf(q) = f0))
    OBVIOUS
  <2>2. f0 \in Files
    BY <1>2
  <2>3. /\ \A q \in Runs \ {} :
              at'[q] = "truncate" /\ ~ stale'[q] => seen'[q] = disk'[FileOf(q)']
        /\ \A f \in Files, q \in Runs \ {} : Holds(q, f)' <=> Holds(q, f) /\ f # f0
    BY <2>1, <2>2, <1>1, OneFileWritten
  <2>. QED  BY <2>3
<1>4. FreshCopies'
  BY <1>3 DEF FreshCopies
<1>5. EmptyMeanwhile'
  BY <1>1, <1>2, <1>3 DEF EmptyMeanwhile
<1>6. HeldOnce'
  BY <1>1, <1>2, <1>3 DEF HeldOnce
<1>7. \A q \in Runs : ~ Holds(q, f0)
  <2>1. Emptied(f0).form = "broken"
    BY ConfigurationsAre, EmptiedIs
  <2>. QED  BY <2>1, <1>1 DEF EmptyMeanwhile
<1>8. ASSUME NEW e \in added' PROVE Kept(e)'
  <2>1. CASE e = x
    BY <2>1 DEF Kept
  <2>2. CASE e # x
    <3>1. Kept(e)
      BY <2>2, <1>1, <1>8
    <3>2. PICK f \in Configurations : \/ Has(f, disk[f], e)
                                      \/ \E q \in Runs : Holds(q, f) /\ Has(f, seen[q], e)
      BY <3>1 DEF Kept
    <3>3. CASE Has(f, disk[f], e)
      <4>1. Has(f, disk'[f], e)
        <5>1. CASE f = f0
          BY <3>3, <5>1
        <5>2. CASE f # f0
          BY <3>3, <5>2, <1>2
        <5>. QED  BY <5>1, <5>2
      <4>. QED  BY <4>1 DEF Kept
    <3>4. ASSUME NEW q \in Runs, Holds(q, f), Has(f, seen[q], e) PROVE Kept(e)'
      <4>1. f # f0
        BY <3>4, <1>7
      <4>2. Holds(q, f)' /\ seen'[q] = seen[q]
        BY <3>4, <4>1, <1>2, <1>3
      <4>. QED  BY <3>4, <4>2 DEF Kept
    <3>. QED  BY <3>2, <3>3, <3>4
  <2>. QED  BY <2>1, <2>2
<1>. QED  BY <1>4, <1>5, <1>6, <1>8

LEMMA NextKept == ASSUME TypeInv, KeptInv, [Next]_vars PROVE KeptInv'
<1>1. ASSUME UNCHANGED <<disk, at, opts, stage, seen, stale, raced, torn, added>>
      PROVE  KeptInv'
  <2>1. \A q \in Runs : FileOf(q)' = FileOf(q)
    BY <1>1, SameFile
  <2>2. \A f \in Files, q \in Runs : Holds(q, f)' <=> Holds(q, f)
    BY <1>1, <2>1 DEF Holds
  <2>. QED  BY <1>1, <2>1, <2>2, QuietKept
<1>2. CASE UNCHANGED vars
  BY <1>1, <1>2 DEF vars
<1>3. CASE \E f \in Settings, d \in Documents : Reads(f, d)
  BY <1>2, <1>3, ReadsIs
<1>4. ASSUME NEW r \in Runs, NEW o \in Options, Start(r, o) PROVE KeptInv'
  <2>1. /\ UNCHANGED <<disk, seen, stage, stale, raced, torn, added>>
        /\ at[r] = "idle" /\ at'[r] = "look"
        /\ \A q \in Runs : q # r => at'[q] = at[q] /\ opts'[q] = opts[q]
    BY <1>4 DEF Start, TypeInv, TypeOK
  <2>2. \A q \in Runs : q # r => FileOf(q)' = FileOf(q)
    BY <2>1, SameFile
  <2>3. \A f \in Files, q \in Runs : Holds(q, f)' <=> Holds(q, f)
    BY <2>1, <2>2 DEF Holds
  <2>. QED  BY <2>1, <2>2, <2>3, QuietKept
<1>5. ASSUME NEW r \in Runs, Look(r) PROVE KeptInv'
  <2>1. /\ UNCHANGED <<disk, opts, stale, raced, torn, added>> /\ at[r] = "look"
        /\ \A q \in Runs : q # r => at'[q] = at[q] /\ stage'[q] = stage[q] /\ seen'[q] = seen[q]
        /\ at'[r] \in {"look", "done", "truncate"}
        /\ at'[r] = "truncate" => seen'[r] = disk[FileOf(r)] /\ UNCHANGED stage
    BY <1>5, LookIs
  <2>2. \A q \in Runs : q # r => FileOf(q)' = FileOf(q)
    BY <2>1, SameFile
  <2>3. at'[r] = "truncate" => FileOf(r)' = FileOf(r)
    BY <2>1, SameFile
  <2>4. \A f \in Files, q \in Runs : Holds(q, f)' <=> Holds(q, f)
    BY <2>1, <2>2 DEF Holds
  <2>5. ASSUME NEW q \in Runs, at'[q] = "truncate" /\ ~ stale'[q]
        PROVE  \/ seen'[q] = disk[FileOf(q)']
               \/ /\ at[q] = "truncate" /\ ~ stale[q]
                  /\ FileOf(q)' = FileOf(q) /\ seen'[q] = seen[q]
    BY <2>1, <2>2, <2>3, <2>5
  <2>. QED  BY <2>1, <2>4, <2>5, QuietKept
<1>6. ASSUME NEW r \in Runs, Kill(r) PROVE KeptInv'
  <2>1. /\ at'[r] = "killed"
        /\ \A q \in Runs : q # r => at'[q] = at[q] /\ seen'[q] = seen[q] /\ stale'[q] = stale[q]
        /\ ~ torn' => ~ torn /\ at[r] # "write"
        /\ \A q \in Runs : FileOf(q)' = FileOf(q)
        /\ UNCHANGED <<disk, raced, added>>
    BY <1>6, KillIs
  <2>2. CASE torn'
    BY <2>2 DEF KeptInv
  <2>3. CASE ~ torn'
    <3>1. at[r] # "write" /\ ~ torn
      BY <2>1, <2>3
    <3>2. \A f \in Files, q \in Runs : Holds(q, f)' <=> Holds(q, f)
      BY <2>1, <3>1 DEF Holds
    <3>. QED  BY <2>1, <3>1, <3>2, QuietKept
  <2>. QED  BY <2>2, <2>3
<1>7. ASSUME NEW f \in Settings, NEW e \in UserHooks, AddHook(f, e) PROVE KeptInv'
  <2>1. /\ disk[f].form # "broken"
        /\ \A g \in Files : g # f => disk'[g] = disk[g]
        /\ disk[f].pre \in Seq(HookEntries) /\ e \in HookEntries
        /\ disk'[f].pre = Append(disk[f].pre, e)
        /\ \A q \in Runs : FileOf(q)' = FileOf(q)
        /\ \A q \in Runs : stale'[q] = (stale[q] \/ (Busy(q) /\ FileOf(q) = f))
        /\ added' = added \cup {e}
        /\ UNCHANGED <<at, seen, raced, torn>>
    BY <1>7, AddHookIs
  <2>. DEFINE s == disk[f].pre
  <2>2. /\ Len(s) \in Nat /\ DOMAIN s = 1..Len(s)
        /\ DOMAIN Append(s, e) = 1..(Len(s) + 1)
        /\ \A i \in 1..(Len(s) + 1) : Append(s, e)[i] = IF i = Len(s) + 1 THEN e ELSE s[i]
    <3>1. s \in Seq(HookEntries)
      BY <2>1
    <3>2. /\ DOMAIN Append(s, e) = 1..(Len(s) + 1)
          /\ \A i \in 1..(Len(s) + 1) : Append(s, e)[i] = IF i = Len(s) + 1 THEN e ELSE s[i]
      BY <2>1, <3>1, AtTheEnd
    <3>3. Len(s) \in Nat /\ DOMAIN s = 1..Len(s)
      BY <3>1, LenProperties
    <3>. QED  BY <3>2, <3>3
  <2>3. f \in Configurations /\ f # "servers"
    BY ConfigurationsAre
  <2>4. /\ Len(s) + 1 \in DOMAIN Append(s, e) /\ Append(s, e)[Len(s) + 1] = e
        /\ \A i \in DOMAIN s : i \in DOMAIN Append(s, e) /\ Append(s, e)[i] = s[i]
    BY <2>2
  <2>5. Has(f, disk'[f], e)
    BY <2>1, <2>3, <2>4 DEF Has
  <2>6. \A x : Has(f, disk[f], x) => Has(f, disk'[f], x)
    BY <2>1, <2>3, <2>4 DEF Has
  <2>. QED  BY <2>1, <2>3, <2>5, <2>6, AddKept
<1>8. ASSUME NEW n \in UserServers, AddServer(n) PROVE KeptInv'
  <2>1. /\ disk["servers"].form # "broken"
        /\ \A g \in Files : g # "servers" => disk'[g] = disk[g]
        /\ disk'["servers"].servers[n] # NoServer
        /\ \A m \in UserServers :
              m # n => disk'["servers"].servers[m] = disk["servers"].servers[m]
        /\ \A q \in Runs : FileOf(q)' = FileOf(q)
        /\ \A q \in Runs : stale'[q] = (stale[q] \/ (Busy(q) /\ FileOf(q) = "servers"))
        /\ added' = added \cup {n}
        /\ UNCHANGED <<at, seen, raced, torn>>
    BY <1>8, AddServerIs
  <2>2. "servers" \in Configurations
    BY ConfigurationsAre
  <2>3. Has("servers", disk'["servers"], n)
    BY <2>1 DEF Has
  <2>4. \A x : Has("servers", disk["servers"], x) => Has("servers", disk'["servers"], x)
    BY <2>1 DEF Has
  <2>. QED  BY <2>1, <2>2, <2>3, <2>4, AddKept
<1>. QED
  BY <1>2, <1>3, <1>4, <1>5, <1>6, <1>7, <1>8, TruncateKept, WriteKept DEF Next

LEMMA EntriesKept == ASSUME TypeInv, KeptInv PROVE ClientsEntriesKept
<1>. SUFFICES ASSUME ~ raced, ~ torn, \A r \in Runs : at[r] # "write", NEW e \in added
              PROVE  e \in InSettings("settings") \cup InSettings("cursor settings")
                           \cup { n \in UserServers : disk["servers"].servers[n] # NoServer }
  BY DEF ClientsEntriesKept
<1>1. PICK f \in Configurations : Has(f, disk[f], e)
  BY DEF KeptInv, Kept, Holds
<1>2. CASE f = "servers"
  BY <1>1, <1>2 DEF Has
<1>3. CASE f \in Settings
  <2>1. f # "servers" /\ f \in {"settings", "cursor settings"}
    BY <1>3, KindsOfFiles DEF Settings
  <2>2. \E i \in DOMAIN disk[f].pre : disk[f].pre[i] = e
    BY <1>1, <2>1 DEF Has
  <2>3. e \in InSettings(f)
    BY <2>2 DEF InSettings, Range
  <2>. QED  BY <2>1, <2>3
<1>. QED  BY <1>2, <1>3, ConfigurationsAre

LEMMA RefreshesSettle == ASSUME TypeInv PROVE RefreshSettles
<1>1. disk["md"] \in TextFile
  BY FileTypeIs, KindsOfFiles DEF TypeInv, TypeOK
<1>. QED  BY <1>1, RefreshedTwice DEF RefreshSettles

(***************************************************************************)
(* The invariant of the installation                                       *)
(***************************************************************************)

SetupInv == TypeInv /\ OnceInv /\ ScriptsInv /\ KeptInv

\* However many runs of init overlap, are killed and repeat, and whatever the
\* client writes meanwhile: the hooks are registered once, they name scripts
\* that are there, the client's entries survive unless a copy was overtaken or a
\* write cut short, and refreshes of the section settle (init.ts:317-359,
\* 499-660).
THEOREM InstallationStaysSound == Spec => []InstallationIsSound
<1>1. Init => SetupInv
  BY InitType, InitOnce, InitScripts, InitKept DEF SetupInv
<1>2. SetupInv /\ [Next]_vars => SetupInv'
  BY NextType, NextOnce, NextScripts, NextKept DEF SetupInv
<1>3. SetupInv => InstallationIsSound
  BY ScriptsRun, EntriesKept, RefreshesSettle
  DEF SetupInv, OnceInv, InstallationIsSound, TypeInv
<1>. QED  BY <1>1, <1>2, <1>3, PTL DEF Spec

(***************************************************************************)
(* What a step may never do                                                *)
(***************************************************************************)

\* Only a run that is at its write makes a file parse that did not.
BrokenKept ==
    \A f \in Settings \cup {"servers"} :
        (disk[f].form = "broken" /\ disk'[f].form = "object")
        => \E r \in Runs : at[r] = "write" /\ seen[r].form # "broken"

LinesAround ==
    \A r \in Runs :
        (Write(r) /\ FileOf(r) = "md" /\ seen[r].form = "object" /\ WellFormed(seen[r].text))
        => SameLines(seen[r].text, disk'["md"].text)

LEMMA NextKeepsBroken == ASSUME TypeInv, [Next]_vars PROVE BrokenKept
<1>. SUFFICES ASSUME NEW f \in Configurations, disk[f].form = "broken", disk'[f].form = "object"
              PROVE  \E r \in Runs : at[r] = "write" /\ seen[r].form # "broken"
  BY DEF BrokenKept, Configurations
<1>. DEFINE Said == \E r \in Runs : at[r] = "write" /\ seen[r].form # "broken"
<1>1. f \in Files /\ disk' # disk
  BY ConfigurationsAre
<1>2. ~ UNCHANGED vars
  BY <1>1 DEF vars
<1>3. ASSUME \E g \in Settings, d \in Documents : Reads(g, d) PROVE FALSE
  BY <1>2, <1>3, ReadsIs
<1>4. ASSUME NEW r \in Runs, (\E o \in Options : Start(r, o)) \/ Look(r) \/ Kill(r) PROVE FALSE
  BY <1>1, <1>4 DEF Start, Look, Kill
<1>5. ASSUME NEW r \in Runs, Truncate(r) PROVE FALSE
  <2>1. \A g \in Files : disk'[g] = IF g = FileOf(r) THEN Emptied(FileOf(r)) ELSE disk[g]
    BY <1>5, TruncateIs
  <2>2. Emptied(f).form = "broken"
    BY ConfigurationsAre, EmptiedIs
  <2>3. disk'[f].form = "broken"
    BY <1>1, <2>1, <2>2
  <2>. QED  BY <2>3
<1>6. ASSUME NEW r \in Runs, Write(r) PROVE Said
  <2>1. /\ at[r] = "write"
        /\ \A g \in Files :
              disk'[g] = IF g = FileOf(r) THEN Rewritten(FileOf(r), seen[r], opts[r]) ELSE disk[g]
    BY <1>6, WriteIs
  <2>2. disk'[f] # disk[f]
    OBVIOUS
  <2>3. f = FileOf(r)
    BY <1>1, <2>1, <2>2
  <2>4. seen[r].form # "broken"
    BY <2>1, <2>3 DEF TypeInv, SeenFits, Busy
  <2>. QED  BY <2>1, <2>4
<1>7. ASSUME NEW g \in Settings, NEW e \in UserHooks, AddHook(g, e) PROVE FALSE
  BY <1>1, <1>7, AddHookIs
<1>8. ASSUME NEW n \in UserServers, AddServer(n) PROVE FALSE
  BY <1>1, <1>8, AddServerIs
<1>. HIDE DEF Said
<1>9. Said
  BY <1>2, <1>3, <1>4, <1>5, <1>6, <1>7, <1>8 DEF Next
<1>. QED  BY <1>9 DEF Said

LEMMA NextKeepsLines == ASSUME TypeInv PROVE LinesAround
<1>. SUFFICES ASSUME NEW r \in Runs, Write(r), FileOf(r) = "md", seen[r].form = "object",
                     WellFormed(seen[r].text)
              PROVE  SameLines(seen[r].text, disk'["md"].text)
  BY DEF LinesAround
<1>1. disk'["md"] = Rewritten("md", seen[r], opts[r])
  BY WriteIs
<1>2. Rewritten("md", seen[r], opts[r]) = runInitClaudeMd(seen[r], opts[r].update)
  BY RewrittenIs
<1>3. at[r] = "write"
  BY DEF Write
<1>4. seen[r] \in TextFile
  BY <1>3, FileTypeIs DEF TypeInv, SeenFits, Busy
<1>5. opts[r].update \in BOOLEAN
  BY OptsAre DEF TypeInv, OptionType
<1>. QED  BY <1>1, <1>2, <1>4, <1>5, LinesKept

\* No run replaces a text of the user, whatever the texts are: a file that does
\* not parse is written only by a run that read it before it broke, and adding or
\* refreshing the section keeps every line around it, in order (init.ts:317-359,
\* 503-516 and 569-576).
THEOREM TextsStayKept == Spec => TextsAreKept
<1>1. TypeInv /\ [Next]_vars => BrokenKept
  BY NextKeepsBroken
<1>2. TypeInv => LinesAround
  BY NextKeepsLines
<1>. QED  BY <1>1, <1>2, SetupIsTyped, PTL DEF Spec, TextsAreKept, BrokenIsKept, UsersLinesKept, BrokenKept, LinesAround

(***************************************************************************)
(* What mai watch writes                                                   *)
(***************************************************************************)

\* The output is that of the file as it is, unless the watcher has something
\* left to do, or heard nothing of a change: from the first render until it
\* stops.
Settled ==
    (watcher \in {"rendered", "watching"} /\ ~ news /\ ~ timer /\ ~ missed /\ ExitsClean(file))
    => output = runRender(file, 0)

WatchInv == WatchTypeOK /\ OutputIsWhole /\ Settled

LEMMA WatchStarts == WatchInit => WatchInv
BY DEF WatchInit, WatchInv, WatchTypeOK, OutputIsWhole, Settled, Contents

\* A render leaves a whole output, and the one of the file.
LEMMA RerenderKeeps ==
    ASSUME WatchInv, Rerender, UNCHANGED <<strict, file>>
    PROVE  OutputIsWhole' /\ Settled'
<1>1. \A d : ExitsClean(d)' <=> ExitsClean(d)
  BY DEF ExitsClean
<1>2. \A d : runRender(d, 0)' = runRender(d, 0)
  BY DEF runRender, applyBudget, Keep, Sections, Critical, Affordable, Spend
<1>3. ExitsClean(file)' <=> ExitsClean(file)
  BY DEF ExitsClean
<1>4. CASE ExitsClean(file)
  <2>1. file \in Contents /\ output' = runRender(file, 0)
    BY <1>4 DEF WatchInv, WatchTypeOK, Rerender
  <2>2. OutputIsWhole'
    BY <1>4, <2>1 DEF OutputIsWhole, ExitsClean, runRender
  <2> QED BY <2>1, <2>2 DEF Settled
<1>5. CASE ~ ExitsClean(file)
  <2>1. output' = output
    BY <1>5 DEF Rerender
  <2>2. OutputIsWhole'
    BY <2>1 DEF WatchInv, OutputIsWhole, ExitsClean, runRender
  <2> QED BY <1>3, <1>5, <2>2 DEF Settled
<1> QED BY <1>4, <1>5

\* A step that writes no output.
LEMMA OutputKeeps ==
    ASSUME WatchInv, UNCHANGED <<strict, output>>
    PROVE  OutputIsWhole'
BY DEF WatchInv, OutputIsWhole, ExitsClean

LEMMA WatchStepKeeps ==
    ASSUME WatchInv, WatchNext
    PROVE  WatchInv'
<1>0. /\ {strict, filling, news, timer, missed} \subseteq BOOLEAN
      /\ WatchTypeOK /\ OutputIsWhole /\ Settled
  BY DEF WatchInv, WatchTypeOK
<1>1. CASE RenderFirst
  <2>1. WatchTypeOK'
    BY <1>0, <1>1 DEF RenderFirst, Rerender, WatchTypeOK
  <2>2. OutputIsWhole' /\ Settled'
    BY <1>1, RerenderKeeps DEF RenderFirst
  <2> QED BY <2>1, <2>2 DEF WatchInv
<1>2. CASE Listen
  <2>1. WatchTypeOK'
    BY <1>0, <1>2 DEF Listen, WatchTypeOK
  <2>2. Settled'
    BY <1>2 DEF Listen, WatchInv, Settled, ExitsClean
  <2> QED BY <1>2, <2>1, <2>2, OutputKeeps DEF WatchInv, Listen
<1>3. CASE Hear
  <2>1. WatchTypeOK'
    BY <1>0, <1>3 DEF Hear, WatchTypeOK
  <2>2. Settled'
    BY <1>3 DEF Hear, Settled
  <2> QED BY <1>3, <2>1, <2>2, OutputKeeps DEF WatchInv, Hear
<1>4. CASE Fire
  <2>1. WatchTypeOK'
    BY <1>0, <1>4 DEF Fire, Rerender, WatchTypeOK
  <2>2. OutputIsWhole' /\ Settled'
    BY <1>4, RerenderKeeps DEF Fire
  <2> QED BY <2>1, <2>2 DEF WatchInv
<1>5. CASE FallBack
  <2>1. WatchTypeOK'
    BY <1>0, <1>5 DEF FallBack, WatchTypeOK
  <2>2. ~ news' /\ (~ missed' => ~ news /\ ~ missed)
    BY <1>0, <1>5 DEF FallBack
  <2>3. UNCHANGED <<strict, file, watcher, timer, output>>
    BY <1>5 DEF FallBack
  <2>4. Settled'
    BY <1>0, <2>2, <2>3 DEF Settled, ExitsClean
  <2> QED BY <1>5, <2>1, <2>4, OutputKeeps DEF WatchInv, FallBack
<1>6. CASE Stop
  <2>1. WatchTypeOK'
    BY <1>0, <1>6 DEF Stop, WatchTypeOK
  <2>2. Settled'
    BY <1>6 DEF Stop, Settled
  <2> QED BY <1>6, <2>1, <2>2, OutputKeeps DEF WatchInv, Stop
<1>7. ASSUME Notify, file' \in Contents, filling' \in BOOLEAN,
             listening' \in {"nothing", "file", "another file", "directory"},
             UNCHANGED <<strict, watcher, timer, output, printed>>
      PROVE  WatchInv'
  <2>1. WatchTypeOK'
    BY <1>0, <1>7 DEF Notify, WatchTypeOK
  <2>2. news' \/ missed'
    BY <1>7 DEF Notify
  <2>3. Settled'
    BY <2>2 DEF Settled
  <2> QED BY <1>7, <2>1, <2>3, OutputKeeps DEF WatchInv
<1>8. ASSUME NEW h \in Halves, SavePart(h)
      PROVE  WatchInv'
  BY <1>0, <1>7, <1>8 DEF SavePart, WatchTypeOK, Contents
<1>9. ASSUME NEW d \in Drafts, Fill(d)
      PROVE  WatchInv'
  BY <1>0, <1>7, <1>9 DEF Fill, WatchTypeOK, Contents
<1>10. ASSUME NEW d \in Drafts, RenameOver(d)
       PROVE  WatchInv'
  BY <1>0, <1>7, <1>10 DEF RenameOver, WatchTypeOK, Contents
<1>11. ASSUME NEW b \in Budgets, RenderOnce(b)
       PROVE  WatchInv'
  <2>1. printed'.draft \in Contents
    BY <1>0, <1>11 DEF RenderOnce, WatchTypeOK
  <2>2. WatchTypeOK'
    BY <1>0, <1>11, <2>1 DEF RenderOnce, WatchTypeOK
  <2>3. Settled'
    BY <1>11 DEF RenderOnce, WatchInv, Settled, ExitsClean
  <2> QED BY <1>11, <2>2, <2>3, OutputKeeps DEF WatchInv, RenderOnce
<1> QED BY <1>1, <1>2, <1>3, <1>4, <1>5, <1>6, <1>8, <1>9, <1>10, <1>11 DEF WatchNext, WatcherStep

\* The output file holds the whole output of one text, and that of the file
\* as it is whenever the watcher has nothing left to do and no change was lost
\* unheard (watch.ts:32-71): for all drafts and all halves of them.
THEOREM WatchOutputIsCurrent == AuthoringSpec => []OutputIsCurrent
<1>1. AuthoringInit => WatchInv
  BY WatchStarts DEF AuthoringInit
<1>2. WatchInv /\ [AuthoringNext]_authoringVars => WatchInv'
  <2>1. ASSUME WatchInv, UNCHANGED watchVars PROVE WatchInv'
    BY <2>1 DEF watchVars, WatchInv, WatchTypeOK, OutputIsWhole, Settled, ExitsClean
  <2>2. ASSUME WatchInv, AuthoringNext PROVE WatchInv'
    BY <2>1, <2>2, WatchStepKeeps DEF AuthoringNext
  <2> QED BY <2>1, <2>2 DEF authoringVars
<1>3. WatchInv => OutputIsCurrent
  BY DEF WatchInv, OutputIsCurrent, Settled, IdleIsCurrent
<1> QED BY <1>1, <1>2, <1>3, PTL DEF AuthoringSpec

(***************************************************************************)
(* Sums                                                                    *)
(***************************************************************************)

Summed(g, f, n) == g = [k \in 0..n |-> IF k = 0 THEN 0 ELSE g[k - 1] + f[k]]

\* The recursion of SumOf has a solution.
LEMMA SummedExists ==
    ASSUME NEW f, NEW n \in Nat
    PROVE  \E g : Summed(g, f, n)
<1> DEFINE J == {m \in Nat : \E g : Summed(g, f, m)}
<1>1. \A m \in Nat : m \in J <=> \E g : Summed(g, f, m)
  OBVIOUS
<1> HIDE DEF J
<1>2. 0 \in J
  <2>1. Summed([k \in 0..0 |-> 0], f, 0)
    BY DEF Summed
  <2> QED BY <2>1, <1>1
<1>3. ASSUME NEW m \in 0..n, m < n, m \in J
      PROVE  m + 1 \in J
  <2>1. PICK g : Summed(g, f, m)
    BY <1>1, <1>3
  <2> DEFINE h == [k \in 0..m + 1 |-> IF k = 0 THEN 0 ELSE g[k - 1] + f[k]]
  <2>2. \A k \in 0..m : g[k] = IF k = 0 THEN 0 ELSE g[k - 1] + f[k]
    BY <2>1, Zenon DEF Summed
  <2>3. \A k \in 0..m + 1 : h[k] = IF k = 0 THEN 0 ELSE g[k - 1] + f[k]
    BY Zenon
  <2>4. h = [k \in 0..m + 1 |-> h[k]]
    OBVIOUS
  <2> HIDE DEF h
  <2>5. \A k \in 0..m + 1 : h[k] = IF k = 0 THEN 0 ELSE h[k - 1] + f[k]
    <3>1. TAKE k \in 0..m + 1
    <3>2. CASE k = 0
      BY <2>3, <3>2
    <3>3. CASE k # 0
      <4>1. k - 1 \in 0..m /\ k - 1 \in 0..m + 1
        BY <3>3
      <4>2. h[k - 1] = g[k - 1]
        BY <2>2, <2>3, <4>1
      <4> QED BY <2>3, <3>3, <4>2
    <3> QED BY <3>2, <3>3
  <2>6. Summed(h, f, m + 1)
    BY <2>4, <2>5 DEF Summed
  <2> QED BY <2>6, <1>1
<1>4. \A m \in 0..n : m \in J
  BY <1>2, <1>3, HandedFrom
<1> QED BY <1>1, <1>4

RunningSum(g, f, n) ==
    g[0] = 0 /\ (\A k \in 1..n : g[k] = g[k - 1] + f[k]) /\ SumOf(f, n) = g[n]

LEMMA SumIs ==
    ASSUME NEW f, NEW n \in Nat
    PROVE  \E g : RunningSum(g, f, n)
<1> DEFINE g == CHOOSE h : Summed(h, f, n)
<1>1. Summed(g, f, n)
  BY SummedExists
<1>2. SumOf(f, n) = g[n]
  BY DEF SumOf, Summed
<1> HIDE DEF g
<1>3. \A k \in 0..n : g[k] = IF k = 0 THEN 0 ELSE g[k - 1] + f[k]
  BY <1>1, Zenon DEF Summed
<1> QED BY <1>2, <1>3 DEF RunningSum

LEMMA SumIsANumber ==
    ASSUME NEW n \in Nat, NEW f \in [1..n -> Nat]
    PROVE  SumOf(f, n) \in Nat
<1>1. PICK g : g[0] = 0 /\ (\A k \in 1..n : g[k] = g[k - 1] + f[k]) /\ SumOf(f, n) = g[n]
  BY SumIs DEF RunningSum
<1> DEFINE J == {k \in Nat : g[k] \in Nat}
<1>2. 0 \in J
  BY <1>1
<1>3. ASSUME NEW k \in 0..n, k < n, k \in J
      PROVE  k + 1 \in J
  <2>1. k + 1 \in 1..n /\ (k + 1) - 1 = k /\ k + 1 \in Nat
    BY <1>3
  <2>2. g[k + 1] = g[k] + f[k + 1]
    BY <1>1, <2>1
  <2> QED BY <1>3, <2>1, <2>2
<1> HIDE DEF J
<1>4. \A k \in 0..n : k \in J
  BY <1>2, <1>3, HandedFrom
<1> QED BY <1>1, <1>4 DEF J

\* h is f with v more at i.
Adds(h, f, n, i, v) ==
    /\ i \in 1..n /\ v \in Nat
    /\ f \in [1..n -> Nat] /\ h \in [1..n -> Nat]
    /\ h[i] = f[i] + v
    /\ \A k \in 1..n : k # i => h[k] = f[k]

\* A sum of which one number changes.
LEMMA SumChanges ==
    ASSUME NEW n \in Nat, NEW f, NEW h, NEW i, NEW v, Adds(h, f, n, i, v)
    PROVE  SumOf(h, n) = SumOf(f, n) + v
<1>0. /\ i \in 1..n /\ v \in Nat
      /\ f \in [1..n -> Nat] /\ h \in [1..n -> Nat]
      /\ h[i] = f[i] + v
      /\ \A k \in 1..n : k # i => h[k] = f[k]
  BY DEF Adds
<1>1. PICK a : a[0] = 0 /\ (\A k \in 1..n : a[k] = a[k - 1] + f[k]) /\ SumOf(f, n) = a[n]
  BY SumIs DEF RunningSum
<1>2. PICK b : b[0] = 0 /\ (\A k \in 1..n : b[k] = b[k - 1] + h[k]) /\ SumOf(h, n) = b[n]
  BY SumIs DEF RunningSum
<1> DEFINE J == {k \in Nat : /\ a[k] \in Nat /\ b[k] \in Nat
                             /\ k < i => b[k] = a[k]
                             /\ k >= i => b[k] = a[k] + v}
<1>3. 0 \in J
  BY <1>0, <1>1, <1>2
<1>4. ASSUME NEW k \in 0..n, k < n, k \in J
      PROVE  k + 1 \in J
  <2>0. (k < i => b[k] = a[k]) /\ (k >= i => b[k] = a[k] + v)
    BY <1>4
  <2>1. k + 1 \in 1..n /\ (k + 1) - 1 = k /\ k + 1 \in Nat /\ k \in Nat
    BY <1>4
  <2>2. a[k + 1] = a[k] + f[k + 1] /\ b[k + 1] = b[k] + h[k + 1]
    BY <1>1, <1>2, <2>1
  <2>3. f[k + 1] \in Nat /\ h[k + 1] \in Nat /\ a[k] \in Nat /\ b[k] \in Nat
    BY <1>0, <1>4, <2>1
  <2>4. a[k + 1] \in Nat /\ b[k + 1] \in Nat
    <3>1. \A x, y \in Nat : x + y \in Nat
      OBVIOUS
    <3> HIDE DEF J
    <3> QED BY <2>2, <2>3, <3>1
  <2>5. k + 1 < i => b[k + 1] = a[k + 1]
    <3>1. SUFFICES ASSUME k + 1 < i
                   PROVE  b[k + 1] = a[k + 1]
      OBVIOUS
    <3>2. b[k] = a[k] /\ h[k + 1] = f[k + 1]
      BY <1>0, <1>4, <2>1, <3>1
    <3> QED BY <2>2, <3>2
  <2>6. k + 1 >= i => b[k + 1] = a[k + 1] + v
    <3>1. CASE k + 1 = i
      <4>1. b[k] = a[k]
        BY <1>0, <2>1, <2>0, <3>1
      <4>2. h[k + 1] = f[k + 1] + v
        BY <1>0, <3>1, Zenon
      <4>3. b[k + 1] = a[k] + (f[k + 1] + v)
        BY <2>2, <4>1, <4>2, Zenon
      <4>4. a[k] \in Nat /\ f[k + 1] \in Nat /\ v \in Nat /\ a[k + 1] = a[k] + f[k + 1]
        BY <1>0, <2>2, <2>3
      <4> QED BY ONLY <4>3, <4>4
    <3>2. CASE k >= i
      <4>1. b[k] = a[k] + v
        BY <2>0, <3>2
      <4>2. k + 1 # i
        BY <1>0, <2>1, <3>2
      <4>3. h[k + 1] = f[k + 1]
        BY <1>0, <2>1, <4>2
      <4>4. b[k + 1] = (a[k] + v) + f[k + 1]
        BY <2>2, <4>1, <4>3, Zenon
      <4>5. a[k] \in Nat /\ f[k + 1] \in Nat /\ v \in Nat /\ a[k + 1] = a[k] + f[k + 1]
        BY <1>0, <2>2, <2>3
      <4> QED BY ONLY <4>4, <4>5
    <3> QED BY <1>0, <2>1, <3>1, <3>2
  <2> QED BY <2>1, <2>4, <2>5, <2>6
<1> HIDE DEF J
<1>5. \A k \in 0..n : k \in J
  BY <1>3, <1>4, HandedFrom
<1>6. n \in J
  BY <1>5
<1> QED BY <1>0, <1>1, <1>2, <1>6 DEF J

(***************************************************************************)
(* Drafts                                                                  *)
(***************************************************************************)

LEMMA Pieces ==
    ASSUME NEW d \in Contents
    PROVE  /\ Len(d.pieces) \in Nat /\ DOMAIN d.pieces = 1..Len(d.pieces)
           /\ \A i \in 1..Len(d.pieces) :
                 /\ d.pieces[i].length \in Nat
                 /\ d.pieces[i].priority \in {Outside} \cup Range(Ranks)
                 /\ Cost(d, i) \in Nat
           /\ Sections(d) \subseteq 1..Len(d.pieces)
<1>1. d.pieces \in Seq([priority : {Outside} \cup Range(Ranks), length : Nat])
  BY WatchAssumption
<1>2. /\ Len(d.pieces) \in Nat /\ DOMAIN d.pieces = 1..Len(d.pieces)
      /\ \A i \in 1..Len(d.pieces) :
            /\ d.pieces[i].length \in Nat
            /\ d.pieces[i].priority \in {Outside} \cup Range(Ranks)
  <2> DEFINE P == {Outside} \cup Range(Ranks)
             s == d.pieces
  <2>1. s \in Seq([priority : P, length : Nat])
    BY <1>1
  <2> HIDE DEF P, s
  <2>2. Len(s) \in Nat /\ DOMAIN s = 1..Len(s)
        /\ \A i \in 1..Len(s) : s[i] \in [priority : P, length : Nat]
    BY <2>1, LenProperties, ElementOfSeq
  <2>3. \A i \in 1..Len(s) : s[i].length \in Nat /\ s[i].priority \in P
    BY <2>2
  <2> QED BY <2>2, <2>3 DEF P, s
<1>3. \A x \in Nat : estimateTokens(x) \in Nat
  BY DEF estimateTokens
<1> QED BY <1>2, <1>3 DEF Cost, Sections

LEMMA Ranked ==
    ASSUME NEW d \in Contents, NEW i \in Sections(d)
    PROVE  Rank(d, i) \in 1..4
<1>1. d.pieces[i].priority \in {Outside} \cup Range(Ranks) /\ d.pieces[i].priority # Outside
  BY Pieces DEF Sections
<1>2. DOMAIN Ranks = 1..4
  BY DEF Ranks
<1>3. \E r \in 1..4 : Ranks[r] = d.pieces[i].priority
  BY <1>1, <1>2 DEF Range
<1> QED BY <1>2, <1>3 DEF Rank

\* Each section has its turn, in the order of Before.
LEMMA Turns ==
    ASSUME NEW d \in Contents, NEW i \in Sections(d)
    PROVE  /\ TurnOf(d, i) \in 1..5 * Len(d.pieces)
           /\ \A j \in Sections(d) : Before(d, i, j) => TurnOf(d, i) < TurnOf(d, j)
           /\ \A j \in Sections(d) : TurnOf(d, i) = TurnOf(d, j) => i = j
<1> DEFINE n == Len(d.pieces)
           R(j) == Rank(d, j)
<1>1. n \in Nat /\ \A j \in Sections(d) : j \in 1..n /\ R(j) \in 1..4
  BY Pieces, Ranked
<1>2. \A j \in Sections(d) : TurnOf(d, j) = R(j) * n + j
  BY DEF TurnOf
<1>3. \A j \in Sections(d) : Before(d, i, j) <=> R(i) < R(j) \/ (R(i) = R(j) /\ i < j)
  BY DEF Before
<1> HIDE DEF n, R
<1>4. \A x \in 1..4, p \in 1..n : x * n + p \in 1..5 * n
  <2>1. TAKE x \in 1..4, p \in 1..n
  <2>2. x = 1 \/ x = 2 \/ x = 3 \/ x = 4
    OBVIOUS
  <2> QED BY <1>1, <2>2
<1>5. \A x \in 1..4, y \in 1..4, p \in 1..n, q \in 1..n :
         x < y \/ (x = y /\ p < q) => x * n + p < y * n + q
  <2>1. TAKE x \in 1..4, y \in 1..4, p \in 1..n, q \in 1..n
  <2>2. x = 1 \/ x = 2 \/ x = 3 \/ x = 4
    OBVIOUS
  <2>3. y = 1 \/ y = 2 \/ y = 3 \/ y = 4
    OBVIOUS
  <2> QED BY <1>1, <2>2, <2>3
<1>6. TurnOf(d, i) \in 1..5 * n
  BY <1>1, <1>2, <1>4
<1>7. ASSUME NEW j \in Sections(d), Before(d, i, j)
      PROVE  TurnOf(d, i) < TurnOf(d, j)
  BY <1>1, <1>2, <1>3, <1>5, <1>7
<1>8. ASSUME NEW j \in Sections(d), TurnOf(d, i) = TurnOf(d, j)
      PROVE  i = j
  <2>1. i \in 1..n /\ j \in 1..n /\ R(i) \in 1..4 /\ R(j) \in 1..4
    BY <1>1
  <2>2. R(i) * n + i = R(j) * n + j
    BY <1>2, <1>8
  <2>3. ~ (R(i) < R(j) \/ (R(i) = R(j) /\ i < j))
    <3>1. R(i) * n + i \in Int
      BY <1>1, <1>4, <2>1
    <3> QED BY <1>5, <2>1, <2>2, <3>1
  <2>4. ~ (R(j) < R(i) \/ (R(j) = R(i) /\ j < i))
    <3>1. R(i) * n + i \in Int
      BY <1>1, <1>4, <2>1
    <3> QED BY <1>5, <2>1, <2>2, <3>1
  <2> QED BY <2>1, <2>3, <2>4
<1> QED BY <1>6, <1>7, <1>8 DEF n

Choosable(d) == Sections(d) \ Critical(d)

\* What the sections of a set cost, with one more.
LEMMA CostsAdd ==
    ASSUME NEW d \in Contents, NEW S \in SUBSET Sections(d)
    PROVE  /\ SumOver(d, S, Costs(d)) \in Nat
           /\ \A i \in Sections(d) \ S :
                SumOver(d, S \cup {i}, Costs(d)) = SumOver(d, S, Costs(d)) + Cost(d, i)
<1> DEFINE n == Len(d.pieces)
           F(T) == [i \in 1..n |-> IF i \in T THEN Cost(d, i) ELSE 0]
<1>1. /\ n \in Nat /\ DOMAIN d.pieces = 1..n /\ \A i \in 1..n : Cost(d, i) \in Nat
      /\ Sections(d) \subseteq 1..n
  BY Pieces
<1>2. \A T : F(T) \in [1..n -> Nat]
  BY <1>1
<1>3. \A T : SumOver(d, T, Costs(d)) = SumOf(F(T), n)
  <2>1. TAKE T
  <2>2. [i \in DOMAIN d.pieces |-> IF i \in T THEN Costs(d)[i] ELSE 0] = F(T)
    BY <1>1 DEF Costs
  <2> QED BY <2>2 DEF SumOver
<1>4. ASSUME NEW i \in Sections(d) \ S
      PROVE  SumOver(d, S \cup {i}, Costs(d)) = SumOver(d, S, Costs(d)) + Cost(d, i)
  <2> DEFINE f == F(S)
             h == F(S \cup {i})
  <2>1. i \in 1..n /\ Cost(d, i) \in Nat /\ f[i] = 0 /\ h[i] = Cost(d, i)
    BY <1>1, <1>4
  <2>2. h[i] = f[i] + Cost(d, i) /\ \A k \in 1..n : k # i => h[k] = f[k]
    BY <2>1
  <2>3. f \in [1..n -> Nat] /\ h \in [1..n -> Nat]
    BY <1>2
  <2>4. Adds(h, f, n, i, Cost(d, i))
    BY <2>1, <2>2, <2>3 DEF Adds
  <2> HIDE DEF f, h, n
  <2>5. SumOf(h, n) = SumOf(f, n) + Cost(d, i)
    BY <1>1, <2>4, SumChanges
  <2> QED BY <1>3, <2>5 DEF f, h
<1>5. SumOver(d, S, Costs(d)) \in Nat
  <2> HIDE DEF F, n
  <2>1. SumOf(F(S), n) \in Nat
    BY <1>1, <1>2, SumIsANumber
  <2> QED BY <1>3, <2>1
<1> QED BY <1>4, <1>5

LEMMA NothingCosts ==
    ASSUME NEW d \in Contents
    PROVE  SumOver(d, {}, Costs(d)) = 0 /\ Base(d) \in Nat
<1> DEFINE n == Len(d.pieces)
           f == [i \in 1..n |-> 0]
           h == [i \in 1..n |-> IF i \in (1..n) \ Sections(d) THEN d.pieces[i].length ELSE 0]
<1>1. n \in Nat /\ DOMAIN d.pieces = 1..n /\ \A i \in 1..n : d.pieces[i].length \in Nat
  BY Pieces
<1>2. SumOver(d, {}, Costs(d)) = SumOf(f, n)
  <2>1. [i \in DOMAIN d.pieces |-> IF i \in {} THEN Costs(d)[i] ELSE 0] = f
    BY <1>1
  <2> QED BY <2>1 DEF SumOver
<1>3. SumOf(f, n) = 0
  <2>0. \A k \in 1..n : f[k] = 0
    OBVIOUS
  <2> HIDE DEF f
  <2>1. PICK g : g[0] = 0 /\ (\A k \in 1..n : g[k] = g[k - 1] + f[k]) /\ SumOf(f, n) = g[n]
    BY <1>1, SumIs DEF RunningSum
  <2> DEFINE J == {k \in Nat : g[k] = 0}
  <2>2. 0 \in J
    BY <2>1
  <2>3. ASSUME NEW k \in 0..n, k < n, k \in J
        PROVE  k + 1 \in J
    <3>1. k + 1 \in 1..n /\ (k + 1) - 1 = k /\ k + 1 \in Nat
      BY <1>1, <2>3
    <3> QED BY <2>0, <2>1, <2>3, <3>1
  <2> HIDE DEF J
  <2>4. \A k \in 0..n : k \in J
    BY <1>1, <2>2, <2>3, HandedFrom
  <2> QED BY <1>1, <2>1, <2>4 DEF J
<1>4. Base(d) = estimateTokens(SumOf(h, n))
  <2>1. [i \in DOMAIN d.pieces |->
            IF i \in DOMAIN d.pieces \ Sections(d) THEN Lengths(d)[i] ELSE 0] = h
    BY <1>1 DEF Lengths
  <2> QED BY <2>1 DEF Base, SumOver
<1>5. SumOf(h, n) \in Nat
  <2>1. h \in [1..n -> Nat]
    BY <1>1
  <2> HIDE DEF h
  <2> QED BY <1>1, <2>1, SumIsANumber
<1>6. \A x \in Nat : estimateTokens(x) \in Nat
  BY DEF estimateTokens
<1> QED BY <1>2, <1>3, <1>4, <1>5, <1>6

(***************************************************************************)
(* The walk over the sections                                              *)
(***************************************************************************)

AtTurn(d, k) == { i \in Sections(d) \ Critical(d) : TurnOf(d, i) = k }

Unspent(d, budget) == [tokens |-> budget - Base(d), keep |-> {}]

AfterTurn(d, left, k) ==
    IF AtTurn(d, k) = {} THEN left ELSE Spend(d, left, CHOOSE i \in AtTurn(d, k) : TRUE)

Walked(left, d, budget, m) ==
    left = [k \in 0..m |-> IF k = 0 THEN Unspent(d, budget) ELSE AfterTurn(d, left[k - 1], k)]

\* The recursion of Affordable has a solution.
LEMMA WalkedExists ==
    ASSUME NEW d, NEW budget, NEW n \in Nat
    PROVE  \E left : Walked(left, d, budget, n)
<1> DEFINE J == {m \in Nat : \E left : Walked(left, d, budget, m)}
<1>1. \A m \in Nat : m \in J <=> \E left : Walked(left, d, budget, m)
  OBVIOUS
<1> HIDE DEF J
<1>2. 0 \in J
  <2>1. Walked([k \in 0..0 |-> Unspent(d, budget)], d, budget, 0)
    BY DEF Walked
  <2> QED BY <2>1, <1>1
<1>3. ASSUME NEW m \in 0..n, m < n, m \in J
      PROVE  m + 1 \in J
  <2>1. PICK g : Walked(g, d, budget, m)
    BY <1>1, <1>3
  <2> DEFINE h == [k \in 0..m + 1 |-> IF k = 0 THEN Unspent(d, budget)
                                      ELSE AfterTurn(d, g[k - 1], k)]
  <2>2. \A k \in 0..m : g[k] = IF k = 0 THEN Unspent(d, budget)
                               ELSE AfterTurn(d, g[k - 1], k)
    BY <2>1, Zenon DEF Walked
  <2>3. \A k \in 0..m + 1 : h[k] = IF k = 0 THEN Unspent(d, budget)
                                   ELSE AfterTurn(d, g[k - 1], k)
    BY Zenon
  <2>4. h = [k \in 0..m + 1 |-> h[k]]
    OBVIOUS
  <2> HIDE DEF h
  <2>5. \A k \in 0..m + 1 : h[k] = IF k = 0 THEN Unspent(d, budget)
                                   ELSE AfterTurn(d, h[k - 1], k)
    <3>1. TAKE k \in 0..m + 1
    <3>2. CASE k = 0
      BY <2>3, <3>2
    <3>3. CASE k # 0
      <4>1. k - 1 \in 0..m /\ k - 1 \in 0..m + 1
        BY <3>3
      <4>2. h[k - 1] = g[k - 1]
        BY <2>2, <2>3, <4>1
      <4> QED BY <2>3, <3>3, <4>2
    <3> QED BY <3>2, <3>3
  <2>6. Walked(h, d, budget, m + 1)
    BY <2>4, <2>5 DEF Walked
  <2> QED BY <2>6, <1>1
<1>4. \A m \in 0..n : m \in J
  BY <1>2, <1>3, HandedFrom
<1> QED BY <1>1, <1>4

\* What is kept of the turns up to k, and what is left of the budget then.
PaidFor(d, budget, k, left) ==
    /\ left.keep \subseteq { i \in Choosable(d) : TurnOf(d, i) <= k }
    /\ left.tokens \in Int
    /\ left.tokens = budget - (Base(d) + SumOver(d, left.keep, Costs(d)))
    /\ left.keep # {} => left.tokens >= 0
    /\ \A i \in Choosable(d) \ left.keep : TurnOf(d, i) <= k => left.tokens < Cost(d, i)
    /\ \A i \in Choosable(d) \ left.keep, j \in left.keep :
          TurnOf(d, i) < TurnOf(d, j) => Cost(d, i) > Cost(d, j)

\* A section whose turn it is.
LEMMA SpendPays ==
    ASSUME NEW d \in Contents, NEW budget \in Nat, NEW k \in Nat, NEW left,
           PaidFor(d, budget, k, left), NEW x \in Choosable(d), TurnOf(d, x) = k + 1
    PROVE  PaidFor(d, budget, k + 1, Spend(d, left, x))
<1> DEFINE C == Choosable(d)
           T(i) == TurnOf(d, i)
           c(i) == Cost(d, i)
           keep == left.keep
           tokens == left.tokens
           sum(S) == SumOver(d, S, Costs(d))
           base == Base(d)
<1>1. /\ keep \subseteq { i \in C : T(i) <= k } /\ tokens \in Int
      /\ tokens = budget - (base + sum(keep))
      /\ keep # {} => tokens >= 0
      /\ \A i \in C \ keep : T(i) <= k => tokens < c(i)
      /\ \A i \in C \ keep, j \in keep : T(i) < T(j) => c(i) > c(j)
  BY DEF PaidFor
<1>2. C \subseteq Sections(d)
  BY DEF Choosable
<1>3. \A i \in C : T(i) \in Nat /\ c(i) \in Nat
  <2>1. TAKE i \in C
  <2>2. i \in Sections(d) /\ i \in 1..Len(d.pieces)
    BY <1>2, Pieces
  <2> QED BY <2>2, Turns, Pieces
<1>4. \A i \in C : T(i) <= k + 1 => T(i) <= k \/ i = x
  <2>1. TAKE i \in C
  <2>2. T(i) = T(x) => i = x
    BY <1>2, Turns
  <2>3. T(i) \in Nat
    BY <1>3
  <2> QED BY <2>2, <2>3
<1>5. base \in Nat /\ sum(keep) \in Nat /\ (x \notin keep => sum(keep \cup {x}) = sum(keep) + c(x))
  <2>1. keep \in SUBSET Sections(d) /\ x \in Sections(d)
    BY <1>1, <1>2
  <2> HIDE DEF keep
  <2> QED BY <2>1, CostsAdd, NothingCosts
<1>6. x \notin keep /\ T(x) = k + 1 /\ c(x) \in Nat
  BY <1>1, <1>3
<1>7. CASE tokens < c(x)
  <2>1. Spend(d, left, x) = left
    BY <1>7 DEF Spend
  <2>2. \A i \in C \ keep : T(i) <= k + 1 => tokens < c(i)
    BY <1>1, <1>4, <1>7
  <2>3. keep \subseteq { i \in C : T(i) <= k + 1 }
    BY <1>1, <1>3
  <2> HIDE DEF C, T, c, sum, base
  <2>4. PaidFor(d, budget, k + 1, left)
    BY <1>1, <2>2, <2>3 DEF PaidFor, C, T, c, sum, base
  <2> QED BY <2>1, <2>4
<1>8. CASE ~ (tokens < c(x))
  <2> DEFINE more == keep \cup {x}
             less == tokens - c(x)
  <2>1. Spend(d, left, x) = [tokens |-> less, keep |-> more]
    BY <1>8 DEF Spend
  <2>2. less \in Int /\ less >= 0 /\ less <= tokens
    BY <1>1, <1>6, <1>8
  <2>3. less = budget - (base + sum(more))
    <3>1. sum(more) = sum(keep) + c(x)
      BY <1>5, <1>6
    <3> HIDE DEF more, sum, base, keep, c
    <3> QED BY <1>1, <1>5, <1>6, <3>1
  <2>4. more \subseteq { i \in C : T(i) <= k + 1 }
    BY <1>1, <1>3, <1>6
  <2>5. \A i \in C \ more : T(i) <= k + 1 => less < c(i)
    <3>1. TAKE i \in C \ more
    <3>2. HAVE T(i) <= k + 1
    <3>3. tokens < c(i) /\ c(i) \in Nat
      BY <1>1, <1>3, <1>4, <3>2
    <3> QED BY <1>1, <2>2, <3>3
  <2>6. \A i \in C \ more, j \in more : T(i) < T(j) => c(i) > c(j)
    <3>1. TAKE i \in C \ more, j \in more
    <3>2. HAVE T(i) < T(j)
    <3>3. CASE j = x
      <4>1. T(i) \in Nat /\ c(i) \in Nat
        BY <1>3
      <4>2. T(i) <= k
        BY <1>6, <3>2, <3>3, <4>1
      <4>3. tokens < c(i)
        BY <1>1, <4>2
      <4>4. c(i) > c(x)
        BY <1>1, <1>6, <1>8, <4>1, <4>3
      <4> QED BY <3>3, <4>4
    <3>4. CASE j \in keep
      BY <1>1, <3>2, <3>4
    <3> QED BY <3>3, <3>4
  <2> HIDE DEF C, T, c, sum, base, more, less
  <2>7. PaidFor(d, budget, k + 1, [tokens |-> less, keep |-> more])
    BY <2>2, <2>3, <2>4, <2>5, <2>6 DEF PaidFor, C, T, c, sum, base
  <2> QED BY <2>1, <2>7
<1> QED BY <1>7, <1>8

\* Every turn.
LEMMA TurnPays ==
    ASSUME NEW d \in Contents, NEW budget \in Nat, NEW k \in Nat, NEW left,
           PaidFor(d, budget, k, left)
    PROVE  PaidFor(d, budget, k + 1, AfterTurn(d, left, k + 1))
<1>1. CASE AtTurn(d, k + 1) = {}
  <2>1. \A i \in Choosable(d) : TurnOf(d, i) # k + 1
    BY <1>1 DEF AtTurn, Choosable
  <2>2. \A i \in Choosable(d) : TurnOf(d, i) \in Nat
    <3>1. TAKE i \in Choosable(d)
    <3> QED BY Turns, Pieces DEF Choosable
  <2>3. \A i \in Choosable(d) : TurnOf(d, i) <= k + 1 <=> TurnOf(d, i) <= k
    BY <2>1, <2>2
  <2>4. PaidFor(d, budget, k + 1, left)
    BY <2>3 DEF PaidFor
  <2> QED BY <1>1, <2>4 DEF AfterTurn
<1>2. CASE AtTurn(d, k + 1) # {}
  <2> DEFINE x == CHOOSE i \in AtTurn(d, k + 1) : TRUE
  <2>1. x \in AtTurn(d, k + 1)
    BY <1>2
  <2>2. AfterTurn(d, left, k + 1) = Spend(d, left, x)
    BY <1>2 DEF AfterTurn
  <2> HIDE DEF x
  <2>3. x \in Choosable(d) /\ TurnOf(d, x) = k + 1
    BY <2>1 DEF AtTurn, Choosable
  <2>4. PaidFor(d, budget, k + 1, Spend(d, left, x))
    BY <2>3, SpendPays
  <2> QED BY <2>2, <2>4
<1> QED BY <1>1, <1>2

\* All of them.
LEMMA AffordableIsPaidFor ==
    ASSUME NEW d \in Contents, NEW budget \in Nat
    PROVE  \E left : /\ left.keep = Affordable(d, budget)
                     /\ PaidFor(d, budget, 5 * Len(d.pieces), left)
<1> DEFINE n == 5 * Len(d.pieces)
           walk == CHOOSE left : Walked(left, d, budget, n)
<1>1. n \in Nat /\ (Len(Ranks) + 1) * Len(d.pieces) = n
  <2>1. Len(d.pieces) \in Nat
    BY Pieces
  <2>2. Len(Ranks) = 4
    BY DEF Ranks
  <2>3. (4 + 1) * Len(d.pieces) = 5 * Len(d.pieces)
    BY <2>1
  <2> QED BY <2>1, <2>2, <2>3
<1>2. Affordable(d, budget) = walk[n].keep
  BY <1>1 DEF Affordable, Walked, AfterTurn, AtTurn, Unspent
<1>3. Walked(walk, d, budget, n)
  <2> HIDE DEF n
  <2> QED BY <1>1, WalkedExists
<1> HIDE DEF walk, n
<1>4. \A k \in 0..n : walk[k] = IF k = 0 THEN Unspent(d, budget)
                                ELSE AfterTurn(d, walk[k - 1], k)
  BY <1>3, Zenon DEF Walked
<1> DEFINE J == {k \in Nat : PaidFor(d, budget, k, walk[k])}
<1>5. 0 \in J
  <2>1. walk[0] = Unspent(d, budget)
    BY <1>1, <1>4
  <2>2. \A i \in Choosable(d) : TurnOf(d, i) > 0 /\ TurnOf(d, i) \in Nat
    <3>1. TAKE i \in Choosable(d)
    <3> QED BY Turns, Pieces DEF Choosable
  <2>3. Base(d) \in Nat /\ SumOver(d, {}, Costs(d)) = 0
    BY NothingCosts
  <2>4. budget - Base(d) = budget - (Base(d) + 0) /\ budget - Base(d) \in Int
    BY <2>3
  <2>5. PaidFor(d, budget, 0, Unspent(d, budget))
    BY <2>2, <2>3, <2>4 DEF PaidFor, Unspent
  <2> QED BY <2>1, <2>5
<1>6. ASSUME NEW k \in 0..n, k < n, k \in J
      PROVE  k + 1 \in J
  <2>1. k \in Nat /\ k + 1 \in 0..n /\ k + 1 # 0 /\ (k + 1) - 1 = k
    BY <1>1, <1>6
  <2>2. walk[k + 1] = AfterTurn(d, walk[k], k + 1)
    BY <1>4, <2>1
  <2>3. PaidFor(d, budget, k, walk[k])
    BY <1>6
  <2>4. PaidFor(d, budget, k + 1, AfterTurn(d, walk[k], k + 1))
    BY <2>1, <2>3, TurnPays
  <2> QED BY <2>1, <2>2, <2>4
<1> HIDE DEF J
<1>7. \A k \in 0..n : k \in J
  BY <1>1, <1>5, <1>6, HandedFrom
<1>8. PaidFor(d, budget, n, walk[n])
  BY <1>1, <1>7 DEF J
<1> QED BY <1>2, <1>8 DEF n

(***************************************************************************)
(* What mai render --budget prints                                         *)
(***************************************************************************)

GoneOf(d, pieces) == { i \in DOMAIN d.pieces : pieces[i] = Omitted }

\* What is omitted is what is not kept.
LEMMA GoneIsNotKept ==
    ASSUME NEW d \in Contents, NEW budget
    PROVE  GoneOf(d, applyBudget(d, budget)) = Sections(d) \ Keep(d, budget)
<1>1. \A i \in DOMAIN d.pieces : d.pieces[i] # Omitted
  <2>1. TAKE i \in DOMAIN d.pieces
  <2>2. d.pieces[i].priority \in {Outside} \cup Range(Ranks)
    BY Pieces
  <2>3. Range(Ranks) = {"critical", "high", "medium", "low"}
    <3>1. DOMAIN Ranks = 1..4
      BY DEF Ranks
    <3>2. /\ Ranks[1] = "critical" /\ Ranks[2] = "high"
          /\ Ranks[3] = "medium" /\ Ranks[4] = "low"
      BY DEF Ranks
    <3> QED BY <3>1, <3>2 DEF Range
  <2>4. d.pieces[i].priority # "omitted"
    BY <2>2, <2>3 DEF Outside
  <2>5. Omitted.priority = "omitted"
    BY DEF Omitted
  <2> QED BY <2>4, <2>5
<1>2. Sections(d) \subseteq DOMAIN d.pieces
  BY DEF Sections
<1> HIDE DEF Omitted
<1> QED BY <1>1, <1>2 DEF GoneOf, applyBudget

\* What BudgetGoesByRank says of one answer.
GoesByRank(d, budget, gone) ==
    LET paid == Sections(d) \ (gone \cup Critical(d))
    IN /\ gone \subseteq Sections(d) \ Critical(d)
       /\ (budget > 0 /\ paid # {}) => Base(d) + SumOver(d, paid, Costs(d)) <= budget
       /\ \A i \in gone, j \in paid : Before(d, i, j) => Cost(d, i) > Cost(d, j)

LEMMA RenderGoesByRank ==
    ASSUME NEW d \in Contents, NEW budget \in Nat
    PROVE  GoesByRank(d, budget, Sections(d) \ Keep(d, budget))
<1> DEFINE gone == Sections(d) \ Keep(d, budget)
           paid == Sections(d) \ (gone \cup Critical(d))
<1>1. CASE budget = 0
  <2>1. gone = {}
    BY <1>1 DEF Keep
  <2> QED BY <1>1, <2>1 DEF GoesByRank
<1>2. CASE budget > 0
  <2>1. PICK left : /\ left.keep = Affordable(d, budget)
                    /\ PaidFor(d, budget, 5 * Len(d.pieces), left)
    BY AffordableIsPaidFor
  <2> DEFINE kept == left.keep
  <2>2. kept \subseteq Choosable(d)
    BY <2>1 DEF PaidFor
  <2>3. Keep(d, budget) = Critical(d) \cup kept
    BY <1>2, <2>1 DEF Keep
  <2>4. Critical(d) \subseteq Sections(d)
    BY DEF Critical
  <2>5. gone = Choosable(d) \ kept /\ paid = kept
    BY <2>2, <2>3, <2>4 DEF Choosable
  <2> HIDE DEF gone, paid, kept
  <2>6. paid # {} => Base(d) + SumOver(d, paid, Costs(d)) <= budget
    <3>1. SUFFICES ASSUME paid # {}
                   PROVE  Base(d) + SumOver(d, paid, Costs(d)) <= budget
      OBVIOUS
    <3>2. left.tokens >= 0 /\ left.tokens = budget - (Base(d) + SumOver(d, paid, Costs(d)))
      BY <2>1, <2>5, <3>1 DEF PaidFor, kept
    <3>3. paid \in SUBSET Sections(d)
      BY <2>2, <2>5 DEF Choosable
    <3>4. Base(d) \in Nat /\ SumOver(d, paid, Costs(d)) \in Nat
      BY <3>3, NothingCosts, CostsAdd
    <3> QED BY <3>2, <3>4
  <2>7. \A i \in gone, j \in paid : Before(d, i, j) => Cost(d, i) > Cost(d, j)
    <3>1. TAKE i \in gone, j \in paid
    <3>2. HAVE Before(d, i, j)
    <3>3. i \in Sections(d) /\ j \in Sections(d)
      BY <2>2, <2>5 DEF Choosable
    <3>4. TurnOf(d, i) < TurnOf(d, j)
      BY <3>2, <3>3, Turns
    <3> QED BY <2>1, <2>5, <3>4 DEF PaidFor, kept
  <2>8. gone \subseteq Sections(d) \ Critical(d)
    BY <2>5 DEF Choosable
  <2> QED BY <2>6, <2>7, <2>8 DEF GoesByRank, gone, paid
<1> QED BY <1>1, <1>2

\* The last answer is that of one draft under one budget.
Answered ==
    printed # NoOutput =>
        \E d \in Contents, budget \in Budgets :
            printed = [draft |-> d, budget |-> budget, pieces |-> applyBudget(d, budget)]

LEMMA WatchAnswers ==
    ASSUME WatchInv, Answered, [WatchNext]_watchVars
    PROVE  Answered'
<1>1. CASE UNCHANGED printed
  BY <1>1 DEF Answered
<1>2. ASSUME NEW b \in Budgets, RenderOnce(b)
      PROVE  Answered'
  <2>1. file \in Contents /\ file.parses
    BY <1>2 DEF RenderOnce, WatchInv, WatchTypeOK, ExitsClean
  <2>2. printed' = [draft |-> file, budget |-> b, pieces |-> applyBudget(file, b)]
    BY <1>2, <2>1 DEF RenderOnce, runRender
  <2> QED BY <2>1, <2>2 DEF Answered
<1>3. ASSUME NEW d, SavePart(d) \/ Fill(d) \/ RenameOver(d)
      PROVE  UNCHANGED printed
  BY <1>3 DEF SavePart, Fill, RenameOver
<1>4. CASE WatcherStep \/ FallBack \/ Stop
  BY <1>1, <1>4 DEF WatcherStep, RenderFirst, Listen, Hear, Fire, FallBack, Stop
<1>5. CASE UNCHANGED watchVars
  BY <1>1, <1>5 DEF watchVars
<1> QED BY <1>1, <1>2, <1>3, <1>4, <1>5 DEF WatchNext

LEMMA AnsweredGoesByRank ==
    ASSUME Answered
    PROVE  BudgetGoesByRank
<1>1. SUFFICES ASSUME printed # NoOutput
               PROVE  BudgetGoesByRank
  BY DEF BudgetGoesByRank
<1>2. PICK d \in Contents, b \in Budgets :
         printed = [draft |-> d, budget |-> b, pieces |-> applyBudget(d, b)]
  BY <1>1 DEF Answered
<1>3. printed.draft = d /\ printed.budget = b /\ printed.pieces = applyBudget(d, b)
  BY <1>2
<1>4. b \in Nat
  BY WatchAssumption
<1>5. GoesByRank(d, b, GoneOf(d, applyBudget(d, b)))
  BY <1>4, GoneIsNotKept, RenderGoesByRank
<1>6. GoesByRank(printed.draft, printed.budget, GoneOf(printed.draft, printed.pieces))
  BY <1>3, <1>5
<1> QED BY <1>6 DEF BudgetGoesByRank, GoesByRank, GoneOf

\* What mai render --budget leaves out goes only for the budget, and never
\* while a section that matters no more and costs no less stays; what stays is
\* paid for (render.ts:61-102): for all drafts and budgets.
THEOREM SectionsGoByRank == AuthoringSpec => []BudgetGoesByRank
<1>1. AuthoringInit => WatchInv /\ Answered
  BY WatchStarts DEF AuthoringInit, WatchInit, Answered
<1>2. WatchInv /\ Answered /\ [AuthoringNext]_authoringVars => (WatchInv /\ Answered)'
  <2>1. ASSUME WatchInv, UNCHANGED watchVars PROVE WatchInv'
    BY <2>1 DEF watchVars, WatchInv, WatchTypeOK, OutputIsWhole, Settled, ExitsClean
  <2>2. [AuthoringNext]_authoringVars => [WatchNext]_watchVars
    BY DEF AuthoringNext, authoringVars
  <2> QED BY <2>1, <2>2, WatchStepKeeps, WatchAnswers
<1>3. Answered => BudgetGoesByRank
  BY AnsweredGoesByRank
<1> QED BY <1>1, <1>2, <1>3, PTL DEF AuthoringSpec

(***************************************************************************)
(* Counting tags                                                           *)
(***************************************************************************)

\* How many more of the lines from a to b open than close.
Net(O, C, a, b) == Cardinality(O \cap (a..b)) - Cardinality(C \cap (a..b))

\* What one more line adds to a count.
OneMore(S, a, b) ==
    /\ Cardinality(S \cap (a..b)) \in Nat
    /\ Cardinality(S \cap (a..(b + 1)))
         = Cardinality(S \cap (a..b)) + (IF b + 1 \in S THEN 1 ELSE 0)
    /\ Cardinality(S \cap ((b + 1)..b)) = 0

LEMMA CountOne ==
    ASSUME NEW S, NEW a \in Nat, NEW b \in Nat, a <= b + 1
    PROVE  OneMore(S, a, b)
<1>1. IsFiniteSet(a..b)
  BY FS_Interval
<1>2. IsFiniteSet(S \cap (a..b))
  BY <1>1, FS_Intersection
<1>3. Cardinality(S \cap (a..b)) \in Nat
  BY <1>2, FS_CardinalityType
<1>4. (b + 1)..b = {} /\ a..(b + 1) = (a..b) \cup {b + 1} /\ b + 1 \notin a..b
  OBVIOUS
<1>5. Cardinality(S \cap ((b + 1)..b)) = 0
  <2>1. S \cap ((b + 1)..b) = {}
    BY <1>4
  <2> QED BY <2>1, FS_EmptySet
<1>6. CASE b + 1 \in S
  <2>1. S \cap (a..(b + 1)) = (S \cap (a..b)) \cup {b + 1} /\ b + 1 \notin S \cap (a..b)
    BY <1>4, <1>6
  <2>2. Cardinality((S \cap (a..b)) \cup {b + 1}) = Cardinality(S \cap (a..b)) + 1
    BY <1>2, <2>1, FS_AddElement
  <2> QED BY <1>3, <1>5, <1>6, <2>1, <2>2 DEF OneMore
<1>7. CASE b + 1 \notin S
  <2>1. S \cap (a..(b + 1)) = S \cap (a..b)
    BY <1>4, <1>7
  <2> QED BY <1>3, <1>5, <1>7, <2>1 DEF OneMore
<1> QED BY <1>6, <1>7

LEMMA NetGrows ==
    ASSUME NEW O, NEW C, NEW a \in Nat, NEW b \in Nat, a <= b + 1
    PROVE  /\ Net(O, C, a, b) \in Int
           /\ Net(O, C, b + 1, b) = 0
           /\ (b + 1 \in O /\ b + 1 \notin C) => Net(O, C, a, b + 1) = Net(O, C, a, b) + 1
           /\ (b + 1 \notin O /\ b + 1 \in C) => Net(O, C, a, b + 1) = Net(O, C, a, b) - 1
           /\ (b + 1 \notin O /\ b + 1 \notin C) => Net(O, C, a, b + 1) = Net(O, C, a, b)
<1> DEFINE o == Cardinality(O \cap (a..b))
           c == Cardinality(C \cap (a..b))
           oo == Cardinality(O \cap (a..(b + 1)))
           cc == Cardinality(C \cap (a..(b + 1)))
<1>0. OneMore(O, a, b) /\ OneMore(C, a, b)
  BY CountOne
<1>1. o \in Nat /\ oo = o + (IF b + 1 \in O THEN 1 ELSE 0) /\ Cardinality(O \cap ((b + 1)..b)) = 0
  BY <1>0 DEF OneMore
<1>2. c \in Nat /\ cc = c + (IF b + 1 \in C THEN 1 ELSE 0) /\ Cardinality(C \cap ((b + 1)..b)) = 0
  BY <1>0 DEF OneMore
<1>3. Net(O, C, a, b) = o - c /\ Net(O, C, a, b + 1) = oo - cc /\ Net(O, C, b + 1, b) = 0
  BY <1>1, <1>2 DEF Net
<1> HIDE DEF o, c, oo, cc
<1> QED BY <1>1, <1>2, <1>3

\* d counts the openers that wait, l the close tags that closed nothing.
Counts(d, l, O, C, n) ==
    /\ \A k \in 0..n : d[k] \in Nat /\ l[k] \in Nat
    /\ d[0] = 0 /\ l[0] = 0
    /\ O \cap C = {}
    /\ \A k \in 0..n : k < n =>
          /\ k + 1 \in O => d[k + 1] = d[k] + 1 /\ l[k + 1] = l[k]
          /\ k + 1 \in C => IF d[k] = 0 THEN d[k + 1] = 0 /\ l[k + 1] = l[k] + 1
                            ELSE d[k + 1] = d[k] - 1 /\ l[k + 1] = l[k]
          /\ (k + 1 \notin O /\ k + 1 \notin C) => d[k + 1] = d[k] /\ l[k + 1] = l[k]

Counted1(O, C, dk, lk, k) ==
    /\ Net(O, C, 1, k) = dk - lk
    /\ \A j \in 1..k : - Net(O, C, 1, j) <= lk
    /\ lk = 0 \/ \E j \in 1..k : - Net(O, C, 1, j) = lk
    /\ \A j \in 1..k : Net(O, C, j, k) <= dk
    /\ dk = 0 \/ \E j \in 1..k : Net(O, C, j, k) = dk

\* One line.
LEMMA CountStep ==
    ASSUME NEW O, NEW C, NEW k \in Nat, NEW dk \in Nat, NEW lk \in Nat,
           NEW x \in Nat, NEW y \in Nat,
           O \cap C = {}, Counted1(O, C, dk, lk, k),
           k + 1 \in O => x = dk + 1 /\ y = lk,
           k + 1 \in C => IF dk = 0 THEN x = 0 /\ y = lk + 1 ELSE x = dk - 1 /\ y = lk,
           (k + 1 \notin O /\ k + 1 \notin C) => x = dk /\ y = lk
    PROVE  Counted1(O, C, x, y, k + 1)
<1> DEFINE N(j) == Net(O, C, j, k)
           M(j) == Net(O, C, j, k + 1)
           P(j) == Net(O, C, 1, j)
<1>1. /\ P(k) = dk - lk /\ N(1) = P(k) /\ M(1) = P(k + 1)
      /\ \A j \in 1..k : - P(j) <= lk
      /\ lk = 0 \/ \E j \in 1..k : - P(j) = lk
      /\ \A j \in 1..k : N(j) <= dk
      /\ dk = 0 \/ \E j \in 1..k : N(j) = dk
  BY DEF Counted1
<1>2. N(k + 1) = 0 /\ \A j \in 1..k : P(j) \in Int
  <2>1. \A j \in 1..k : P(j) \in Int
    <3>1. TAKE j \in 1..k
    <3>2. 1 \in Nat /\ j \in Nat /\ 1 <= j + 1
      OBVIOUS
    <3> QED BY <3>2, NetGrows
  <2>2. k + 1 \in Nat /\ k + 1 <= k + 1
    OBVIOUS
  <2> QED BY <2>1, <2>2, NetGrows
<1>3. \A j \in 1..(k + 1) :
         /\ N(j) \in Int /\ M(j) \in Int
         /\ k + 1 \in O => M(j) = N(j) + 1
         /\ k + 1 \in C => M(j) = N(j) - 1
         /\ (k + 1 \notin O /\ k + 1 \notin C) => M(j) = N(j)
  <2>1. TAKE j \in 1..(k + 1)
  <2>2. j \in Nat /\ j <= k + 1
    OBVIOUS
  <2>3. /\ N(j) \in Int
        /\ (k + 1 \in O /\ k + 1 \notin C) => M(j) = N(j) + 1
        /\ (k + 1 \notin O /\ k + 1 \in C) => M(j) = N(j) - 1
        /\ (k + 1 \notin O /\ k + 1 \notin C) => M(j) = N(j)
    BY <2>2, NetGrows
  <2> HIDE DEF N, M
  <2> QED BY <2>3
<1> HIDE DEF N, M, P
<1>4. 1 \in 1..(k + 1) /\ k + 1 \in 1..(k + 1) /\ \A j \in 1..(k + 1) : j \in 1..k \/ j = k + 1
  OBVIOUS
<1>5. P(k + 1) = x - y /\ P(k + 1) \in Int
  <2>1. M(1) \in Int /\ N(1) = dk - lk /\ P(k + 1) = M(1)
    BY <1>1, <1>3, <1>4
  <2>2. CASE k + 1 \in O
    <3>1. M(1) = N(1) + 1 /\ x = dk + 1 /\ y = lk
      BY <1>3, <1>4, <2>2
    <3> QED BY <2>1, <3>1
  <2>3. CASE k + 1 \in C
    <3>1. M(1) = N(1) - 1
      BY <1>3, <1>4, <2>3
    <3> QED BY <2>1, <2>3, <3>1
  <2>4. CASE k + 1 \notin O /\ k + 1 \notin C
    <3>1. M(1) = N(1)
      BY <1>3, <1>4, <2>4
    <3> QED BY <2>1, <2>4, <3>1
  <2> QED BY <2>2, <2>3, <2>4
<1>6. lk <= y
  BY <1>4
<1>7. \A j \in 1..(k + 1) : - P(j) <= y
  <2>1. TAKE j \in 1..(k + 1)
  <2>2. CASE j = k + 1
    <3>1. P(k + 1) = x - y
      BY <1>5
    <3> QED BY <2>2, <3>1
  <2>3. CASE j \in 1..k
    <3>1. - P(j) <= lk /\ P(j) \in Int
      BY <1>1, <1>2, <2>3
    <3> QED BY <1>6, <3>1
  <2> QED BY <1>4, <2>2, <2>3
<1>8. y = 0 \/ \E j \in 1..(k + 1) : - P(j) = y
  <2>1. CASE y = lk
    BY <1>1, <2>1
  <2>2. CASE y # lk
    <3>1. x = 0
      BY <2>2
    <3>2. - P(k + 1) = y
      BY <1>5, <3>1
    <3> QED BY <1>4, <3>2
  <2> QED BY <2>1, <2>2
<1>9. /\ \A j \in 1..(k + 1) : M(j) <= x
      /\ x = 0 \/ \E j \in 1..(k + 1) : M(j) = x
  <2>0. \A j \in 1..(k + 1) : N(j) <= dk
    BY <1>1, <1>2, <1>4
  <2>1. CASE k + 1 \in O
    <3>1. x = dk + 1
      BY <2>1
    <3>2. \A j \in 1..(k + 1) : M(j) <= x
      BY <1>3, <2>0, <2>1, <3>1
    <3>3. \E j \in 1..(k + 1) : N(j) = dk
      BY <1>1, <1>2, <1>4
    <3> QED BY <1>3, <2>1, <3>1, <3>2, <3>3
  <2>2. CASE k + 1 \in C /\ dk = 0
    <3>1. x = 0
      BY <2>2
    <3> QED BY <1>3, <2>0, <2>2, <3>1
  <2>3. CASE k + 1 \in C /\ dk # 0
    <3>1. x = dk - 1
      BY <2>3
    <3>2. \E j \in 1..(k + 1) : N(j) = dk
      BY <1>1, <1>4, <2>3
    <3> QED BY <1>3, <2>0, <2>3, <3>1, <3>2
  <2>4. CASE k + 1 \notin O /\ k + 1 \notin C
    <3>1. x = dk
      BY <2>4
    <3>2. dk = 0 \/ \E j \in 1..(k + 1) : N(j) = dk
      BY <1>1, <1>4
    <3> QED BY <1>3, <2>0, <2>4, <3>1, <3>2
  <2> QED BY <2>1, <2>2, <2>3, <2>4
<1> QED BY <1>5, <1>7, <1>8, <1>9 DEF Counted1, P, M

\* The counters of a scan are the largest surplus of openers at the end of the
\* lines read so far, and the largest of close tags at their beginning.
LEMMA CountersAreSurpluses ==
    ASSUME NEW d, NEW l, NEW O, NEW C, NEW n \in Nat, Counts(d, l, O, C, n)
    PROVE  \A k \in 0..n : Counted1(O, C, d[k], l[k], k)
<1> DEFINE J == {k \in Nat : Counted1(O, C, d[k], l[k], k)}
<1>1. 0 \in J
  <2>1. Net(O, C, 1, 0) = 0
    <3>1. 1 = 0 + 1
      OBVIOUS
    <3>2. Net(O, C, 0 + 1, 0) = 0
      BY NetGrows
    <3> QED BY <3>1, <3>2
  <2>2. 1..0 = {}
    OBVIOUS
  <2> QED BY <2>1, <2>2 DEF Counts, Counted1
<1>2. ASSUME NEW k \in 0..n, k < n, k \in J
      PROVE  k + 1 \in J
  <2>1. k \in Nat /\ k + 1 \in 0..n /\ k + 1 \in Nat
    BY <1>2
  <2>2. d[k] \in Nat /\ l[k] \in Nat /\ d[k + 1] \in Nat /\ l[k + 1] \in Nat
    BY <2>1 DEF Counts
  <2>3. O \cap C = {} /\ Counted1(O, C, d[k], l[k], k)
    BY <1>2 DEF Counts
  <2>4. /\ k + 1 \in O => d[k + 1] = d[k] + 1 /\ l[k + 1] = l[k]
        /\ k + 1 \in C => IF d[k] = 0 THEN d[k + 1] = 0 /\ l[k + 1] = l[k] + 1
                          ELSE d[k + 1] = d[k] - 1 /\ l[k + 1] = l[k]
        /\ (k + 1 \notin O /\ k + 1 \notin C) => d[k + 1] = d[k] /\ l[k + 1] = l[k]
    BY <1>2 DEF Counts
  <2> HIDE DEF J
  <2>5. Counted1(O, C, d[k + 1], l[k + 1], k + 1)
    BY <2>1, <2>2, <2>3, <2>4, CountStep
  <2> QED BY <2>1, <2>5 DEF J
<1> HIDE DEF J
<1>3. \A k \in 0..n : k \in J
  BY <1>1, <1>2, HandedFrom
<1> QED BY <1>3 DEF J

\* The greatest element.
LEMMA MaxIs ==
    ASSUME NEW S, NEW x \in S, S \subseteq Int, \A y \in S : y <= x
    PROVE  Max(S) = x
<1>1. \A y \in S : x >= y
  OBVIOUS
<1>2. Max(S) \in S /\ \A y \in S : Max(S) >= y
  BY <1>1 DEF Max
<1> DEFINE m == Max(S)
<1>3. m \in S /\ m >= x /\ m <= x
  BY <1>2
<1> HIDE DEF m
<1>4. m = x
  BY <1>3
<1> QED BY <1>4 DEF m

(***************************************************************************)
(* One line of a document                                                  *)
(***************************************************************************)

IfOpens(t)     == { i \in DOMAIN t : t[i].is = "open" /\ t[i].name = "if" }
IfCloses(t)    == { i \in DOMAIN t : t[i].is = "close" /\ t[i].name = "if" }
BlockOpens(t)  == { i \in DOMAIN t : t[i].is = "open" /\ t[i].name \in Counted }
BlockCloses(t) == { i \in DOMAIN t : t[i].is = "close" /\ t[i].name # "if" }

Scan(a, b, m) == [ifs |-> a, blocks |-> b, marks |-> m]

With(s, which, x) == [s EXCEPT ![which] = x]
WithMark(s, x) == [s EXCEPT !.marks = @ \cup {x}]

LEMMA StackOf ==
    ASSUME NEW a, NEW b, NEW m
    PROVE  /\ Scan(a, b, m)["ifs"] = a /\ Scan(a, b, m)["blocks"] = b
           /\ Scan(a, b, m).ifs = a /\ Scan(a, b, m).blocks = b /\ Scan(a, b, m).marks = m
BY DEF Scan

LEMMA StackSet ==
    ASSUME NEW a, NEW b, NEW m, NEW x
    PROVE  /\ With(Scan(a, b, m), "ifs", x) = Scan(x, b, m)
           /\ With(Scan(a, b, m), "blocks", x) = Scan(a, x, m)
           /\ WithMark(Scan(a, b, m), x) = Scan(a, b, m \cup {x})
<1>1. With(Scan(a, b, m), "ifs", x) = Scan(x, b, m)
  BY DEF Scan, With, WithMark
<1>2. With(Scan(a, b, m), "blocks", x) = Scan(a, x, m)
  BY DEF Scan, With, WithMark
<1>3. WithMark(Scan(a, b, m), x) = Scan(a, b, m \cup {x})
  BY DEF Scan, With, WithMark
<1> QED BY <1>1, <1>2, <1>3

\* What a line makes of the two stacks and the marks.
LineGives(next, t, i, known, a, b, m) ==
    /\ i \in IfOpens(t) => next = Scan(Append(a, i), b, m)
    /\ i \in BlockOpens(t) => next = Scan(a, Append(b, i), m)
    /\ i \in IfCloses(t) =>
          next = IF a = <<>> THEN Scan(a, b, m \cup {Mark(i, "stray close")}) ELSE Scan(Front(a), b, m)
    /\ i \in BlockCloses(t) =>
          next = IF b = <<>> THEN Scan(a, b, m \cup {Mark(i, "stray close")}) ELSE Scan(a, Front(b), m)
    /\ t[i].is = "else" =>
          next = IF a = <<>> THEN Scan(a, b, m \cup {Mark(i, "stray else")}) ELSE Scan(a, b, m)
    /\ t[i].is = "call" =>
          next = IF t[i].macro \notin known THEN Scan(a, b, m \cup {Mark(i, "undefined")})
                 ELSE Scan(a, b, m)
    /\ ( /\ i \notin IfOpens(t) \cup BlockOpens(t) \cup IfCloses(t) \cup BlockCloses(t)
         /\ t[i].is \notin {"else", "call"} ) => next = Scan(a, b, m)

LEMMA LinesAre ==
    ASSUME NEW t, NEW i \in DOMAIN t, NEW known, NEW a, NEW b, NEW m
    PROVE  LineGives(processLine(Scan(a, b, m), i, t[i], known), t, i, known, a, b, m)
<1> DEFINE s == Scan(a, b, m)
           next == processLine(s, i, t[i], known)
           stray(what) == m \cup {Mark(i, what)}
<1>1. "if" \notin Counted
  BY DEF Counted
<1> HIDE DEF s
<1>0. /\ \A x : /\ With(s, "ifs", x) = Scan(x, b, m)
               /\ With(s, "blocks", x) = Scan(a, x, m)
               /\ WithMark(s, x) = Scan(a, b, m \cup {x})
  BY StackSet DEF s
<1>2. /\ Push(s, "ifs", i) = Scan(Append(a, i), b, m)
      /\ Push(s, "blocks", i) = Scan(a, Append(b, i), m)
  <2>1. /\ Push(s, "ifs", i) = With(s, "ifs", Append(s["ifs"], i))
        /\ Push(s, "blocks", i) = With(s, "blocks", Append(s["blocks"], i))
    BY DEF Push, With
  <2>2. s["ifs"] = a /\ s["blocks"] = b
    BY StackOf DEF s
  <2> QED BY <1>0, <2>1, <2>2
<1>3. /\ Pop(s, "ifs", i) = IF a = <<>> THEN Scan(a, b, stray("stray close"))
                            ELSE Scan(Front(a), b, m)
      /\ Pop(s, "blocks", i) = IF b = <<>> THEN Scan(a, b, stray("stray close"))
                               ELSE Scan(a, Front(b), m)
  <2>1. /\ Pop(s, "ifs", i) = IF s["ifs"] = <<>> THEN WithMark(s, Mark(i, "stray close"))
                              ELSE With(s, "ifs", Front(s["ifs"]))
        /\ Pop(s, "blocks", i) = IF s["blocks"] = <<>>
                                 THEN WithMark(s, Mark(i, "stray close"))
                                 ELSE With(s, "blocks", Front(s["blocks"]))
    BY DEF Pop, With, WithMark
  <2>2. s["ifs"] = a /\ s["blocks"] = b
    BY StackOf DEF s
  <2> QED BY <1>0, <2>1, <2>2
<1>5. s.ifs = a
  BY StackOf DEF s
<1>6. ASSUME i \in IfOpens(t) PROVE next = Scan(Append(a, i), b, m)
  <2>1. t[i].is = "open" /\ t[i].name = "if" /\ t[i].name \notin Counted
    BY <1>1, <1>6 DEF IfOpens
  <2>2. next = Push(s, "ifs", i)
    BY <2>1 DEF processLine
  <2> QED BY <1>2, <2>2
<1>7. ASSUME i \in BlockOpens(t) PROVE next = Scan(a, Append(b, i), m)
  <2>1. t[i].is = "open" /\ t[i].name \in Counted /\ t[i].name # "if"
    BY <1>1, <1>7 DEF BlockOpens
  <2>2. next = Push(s, "blocks", i)
    BY <2>1 DEF processLine
  <2> QED BY <1>2, <2>2
<1>8. ASSUME i \in IfCloses(t)
      PROVE  next = IF a = <<>> THEN Scan(a, b, stray("stray close")) ELSE Scan(Front(a), b, m)
  <2>1. t[i].is = "close" /\ t[i].name = "if"
    BY <1>8 DEF IfCloses
  <2>2. next = Pop(s, "ifs", i)
    BY <2>1 DEF processLine
  <2> QED BY <1>3, <2>2
<1>9. ASSUME i \in BlockCloses(t)
      PROVE  next = IF b = <<>> THEN Scan(a, b, stray("stray close")) ELSE Scan(a, Front(b), m)
  <2>1. t[i].is = "close" /\ t[i].name # "if"
    BY <1>9 DEF BlockCloses
  <2>2. next = Pop(s, "blocks", i)
    BY <2>1 DEF processLine
  <2> QED BY <1>3, <2>2
<1>10. ASSUME t[i].is = "else"
       PROVE  next = IF a = <<>> THEN Scan(a, b, stray("stray else")) ELSE Scan(a, b, m)
  <2>1. next = IF s.ifs = <<>> THEN WithMark(s, Mark(i, "stray else")) ELSE s
    BY <1>10 DEF processLine, WithMark
  <2> QED BY <1>0, <1>5, <2>1 DEF s
<1>11. ASSUME t[i].is = "call"
       PROVE  next = IF t[i].macro \notin known THEN Scan(a, b, stray("undefined"))
                     ELSE Scan(a, b, m)
  <2>1. next = IF t[i].macro \notin known THEN WithMark(s, Mark(i, "undefined")) ELSE s
    BY <1>11 DEF processLine, WithMark
  <2> QED BY <1>0, <2>1 DEF s
<1>12. ASSUME i \notin IfOpens(t) \cup BlockOpens(t) \cup IfCloses(t) \cup BlockCloses(t),
              t[i].is \notin {"else", "call"}
       PROVE  next = Scan(a, b, m)
  <2>1. t[i].is # "close" /\ ~ (t[i].is = "open" /\ t[i].name \in Counted)
        /\ ~ (t[i].is = "open" /\ t[i].name = "if") /\ t[i].is # "else" /\ t[i].is # "call"
    BY <1>12 DEF IfOpens, IfCloses, BlockOpens, BlockCloses
  <2>2. next = s
    BY <2>1 DEF processLine
  <2> QED BY <2>2 DEF s
<1> HIDE DEF next
<1> QED BY <1>6, <1>7, <1>8, <1>9, <1>10, <1>11, <1>12 DEF LineGives, s, next

(***************************************************************************)
(* The two stacks                                                          *)
(***************************************************************************)

\* The lines on a stack: openers, in the order of the text.
Stacked(q, O, k) ==
    /\ q \in Seq(Nat)
    /\ \A p \in 1..Len(q) : q[p] \in O /\ q[p] \in 1..k
    /\ \A p, r \in 1..Len(q) : p < r => q[p] < q[r]

LEMMA StackGrows ==
    ASSUME NEW q, NEW O, NEW k \in Nat, Stacked(q, O, k)
    PROVE  /\ Len(q) \in Nat /\ (q = <<>> <=> Len(q) = 0)
           /\ Stacked(q, O, k + 1)
           /\ k + 1 \in O => Stacked(Append(q, k + 1), O, k + 1) /\ Len(Append(q, k + 1)) = Len(q) + 1
           /\ q # <<>> => Stacked(Front(q), O, k + 1) /\ Len(Front(q)) = Len(q) - 1
<1>1. /\ q \in Seq(Nat) /\ Len(q) \in Nat /\ (q = <<>> <=> Len(q) = 0)
      /\ \A p \in 1..Len(q) : q[p] \in O /\ q[p] \in 1..k
      /\ \A p, r \in 1..Len(q) : p < r => q[p] < q[r]
  BY EmptySeq, LenProperties DEF Stacked
<1>2. Stacked(q, O, k + 1)
  <2>1. \A p \in 1..Len(q) : q[p] \in 1..(k + 1)
    BY <1>1
  <2> QED BY <1>1, <2>1 DEF Stacked
<1>3. ASSUME k + 1 \in O
      PROVE  Stacked(Append(q, k + 1), O, k + 1) /\ Len(Append(q, k + 1)) = Len(q) + 1
  <2> DEFINE u == Append(q, k + 1)
             n == Len(q)
  <2>1. /\ u \in Seq(Nat) /\ Len(u) = n + 1
        /\ \A p \in 1..n : u[p] = q[p]
        /\ u[n + 1] = k + 1
    BY <1>1, AppendProperties
  <2> HIDE DEF u
  <2>2. \A p \in 1..Len(u) : p \in 1..n \/ p = n + 1
    BY <1>1, <2>1
  <2>3. \A p \in 1..Len(u) : u[p] \in O /\ u[p] \in 1..(k + 1)
    <3>1. TAKE p \in 1..Len(u)
    <3>2. CASE p \in 1..n
      <4>1. u[p] \in O /\ u[p] \in 1..k
        BY <1>1, <2>1, <3>2
      <4> QED BY <4>1
    <3>3. CASE p = n + 1
      <4>1. k + 1 \in 1..(k + 1)
        OBVIOUS
      <4> QED BY <1>3, <2>1, <3>3, <4>1
    <3> QED BY <2>2, <3>2, <3>3
  <2>4. \A p, r \in 1..Len(u) : p < r => u[p] < u[r]
    <3>1. TAKE p, r \in 1..Len(u)
    <3>2. HAVE p < r
    <3>3. p \in 1..n /\ u[p] = q[p] /\ u[p] \in 1..k
      BY <1>1, <2>1, <3>2
    <3>4. CASE r \in 1..n
      BY <1>1, <2>1, <3>2, <3>3, <3>4
    <3>5. CASE r = n + 1
      BY <2>1, <3>3, <3>5
    <3> QED BY <2>2, <3>4, <3>5
  <2> QED BY <2>1, <2>3, <2>4 DEF Stacked, u
<1>4. ASSUME q # <<>>
      PROVE  Stacked(Front(q), O, k + 1) /\ Len(Front(q)) = Len(q) - 1
  <2> DEFINE u == SubSeq(q, 1, Len(q) - 1)
             n == Len(q) - 1
  <2>1. n \in Nat /\ n <= Len(q) /\ 1 \in 1..(Len(q) + 1) /\ n \in 0..Len(q)
    BY <1>1, <1>4
  <2>2. u = SubSeq(q, 1, n) /\ n = Len(q) - 1
    OBVIOUS
  <2> HIDE DEF u, n
  <2>3. (\A p \in 1..n : (1 + p) - 1 = p) /\ (n - 1) + 1 = n /\ 1 <= n + 1
    BY <2>1
  <2>4. /\ SubSeq(q, 1, n) \in Seq(Nat) /\ Len(SubSeq(q, 1, n)) = (n - 1) + 1
        /\ \A p \in 1..((n - 1) + 1) : SubSeq(q, 1, n)[p] = q[(1 + p) - 1]
    BY <1>1, <2>1, <2>3, PartOf
  <2>5. u \in Seq(Nat) /\ Len(u) = n /\ \A p \in 1..n : u[p] = q[p]
    BY <2>2, <2>3, <2>4
  <2>6. \A p \in 1..n : p \in 1..Len(q)
    BY <1>1, <2>1
  <2>7. Stacked(u, O, k + 1)
    BY <1>2, <2>5, <2>6 DEF Stacked
  <2> QED BY <2>2, <2>5, <2>7 DEF Front
<1> QED BY <1>1, <1>2, <1>3, <1>4

LEMMA StackCounts ==
    ASSUME NEW q, NEW O, NEW k \in Nat, Stacked(q, O, k)
    PROVE  Cardinality(Range(q)) = Len(q) /\ Range(q) \subseteq O \cap (1..k)
<1>1. /\ q \in Seq(Nat) /\ Len(q) \in Nat /\ DOMAIN q = 1..Len(q)
      /\ \A p \in 1..Len(q) : q[p] \in O /\ q[p] \in 1..k
      /\ \A p, r \in 1..Len(q) : p < r => q[p] < q[r]
  BY LenProperties DEF Stacked
<1>2. \A p, r \in 1..Len(q) : q[p] = q[r] => p = r
  <2>1. TAKE p, r \in 1..Len(q)
  <2>2. q[p] \in 1..k /\ q[r] \in 1..k
    BY <1>1
  <2>3. (p < r => q[p] < q[r]) /\ (r < p => q[r] < q[p])
    BY <1>1
  <2> QED BY <2>2, <2>3
<1>3. Range(q) = { q[p] : p \in 1..Len(q) }
  BY <1>1 DEF Range
<1>4. ExistsBijection(1..Len(q), Range(q))
  <2> DEFINE f == [p \in 1..Len(q) |-> q[p]]
  <2>0. /\ DOMAIN f = 1..Len(q) /\ f \in [1..Len(q) -> Range(q)]
        /\ \A p \in 1..Len(q) : f[p] = q[p]
    BY <1>3
  <2> HIDE DEF f
  <2>1. f \in Bijection(1..Len(q), Range(q))
    BY <1>2, <1>3, <2>0 DEF Bijection, Injection, Surjection, IsInjective
  <2> QED BY <2>1 DEF ExistsBijection
<1>5. Cardinality(Range(q)) = Len(q)
  BY <1>1, <1>4, FS_CountingElements
<1> QED BY <1>1, <1>3, <1>5

(***************************************************************************)
(* The marks                                                               *)
(***************************************************************************)

Marking(m, C, E, U, k) ==
    /\ \A i : Mark(i, "stray close") \in m => i \in C \cap (1..k)
    /\ \A i : Mark(i, "stray else") \in m <=> i \in E \cap (1..k)
    /\ \A i : Mark(i, "undefined") \in m <=> i \in U \cap (1..k)
    /\ \A x \in m : \E i \in 1..k :
          x \in {Mark(i, "stray close"), Mark(i, "stray else"), Mark(i, "undefined")}

LEMMA LinesUpTo ==
    ASSUME NEW k \in Nat
    PROVE  1..(k + 1) = (1..k) \cup {k + 1} /\ k + 1 \notin 1..k
OBVIOUS

\* A line adds its own mark, if any.
LEMMA MarkingGrows ==
    ASSUME NEW m, NEW C, NEW E, NEW U, NEW k \in Nat, Marking(m, C, E, U, k), NEW X,
           \A x \in X : x \in {Mark(k + 1, "stray close"), Mark(k + 1, "stray else"),
                               Mark(k + 1, "undefined")},
           Mark(k + 1, "stray close") \in X => k + 1 \in C,
           Mark(k + 1, "stray else") \in X <=> k + 1 \in E,
           Mark(k + 1, "undefined") \in X <=> k + 1 \in U
    PROVE  Marking(m \cup X, C, E, U, k + 1)
<1>0. 1..(k + 1) = (1..k) \cup {k + 1} /\ k + 1 \notin 1..k
  BY LinesUpTo
<1>1. \A i : Mark(i, "stray close") \in X => i = k + 1
  BY DEF Mark
<1>2. \A i : Mark(i, "stray else") \in X => i = k + 1
  BY DEF Mark
<1>3. \A i : Mark(i, "undefined") \in X => i = k + 1
  BY DEF Mark
<1>4. \A i : Mark(i, "stray close") \in m \cup X => i \in C \cap (1..(k + 1))
  BY <1>0, <1>1 DEF Marking
<1>5. \A i : Mark(i, "stray else") \in m \cup X <=> i \in E \cap (1..(k + 1))
  BY <1>0, <1>2 DEF Marking
<1>6. \A i : Mark(i, "undefined") \in m \cup X <=> i \in U \cap (1..(k + 1))
  BY <1>0, <1>3 DEF Marking
<1>7. ASSUME NEW x \in m \cup X
      PROVE  \E i \in 1..(k + 1) :
                x \in {Mark(i, "stray close"), Mark(i, "stray else"), Mark(i, "undefined")}
  <2>1. CASE x \in m
    BY <1>0, <2>1 DEF Marking
  <2>2. CASE x \in X
    BY <1>0, <2>2
  <2> QED BY <2>1, <2>2
<1> QED BY <1>4, <1>5, <1>6, <1>7 DEF Marking

Lost(m, C) == { i \in C : Mark(i, "stray close") \in m }

\* What a mark on line i adds to the close tags that closed nothing.
Losing(m, D, i) ==
    /\ IsFiniteSet(Lost(m, D)) /\ Cardinality(Lost(m, D)) \in Nat
    /\ i \in D => Cardinality(Lost(m \cup {Mark(i, "stray close")}, D)) = Cardinality(Lost(m, D)) + 1
    /\ i \notin D => Lost(m \cup {Mark(i, "stray close")}, D) = Lost(m, D)
    /\ Lost(m \cup {Mark(i, "stray else")}, D) = Lost(m, D)
    /\ Lost(m \cup {Mark(i, "undefined")}, D) = Lost(m, D)

LEMMA LostGrows ==
    ASSUME NEW m, NEW C, NEW E, NEW U, NEW k \in Nat, Marking(m, C, E, U, k), NEW D \in SUBSET C
    PROVE  Losing(m, D, k + 1)
<1>1. Lost(m, D) \subseteq 1..k
  BY DEF Lost, Marking
<1>2. IsFiniteSet(Lost(m, D)) /\ Cardinality(Lost(m, D)) \in Nat
  <2>1. IsFiniteSet(1..k)
    BY FS_Interval
  <2> QED BY <1>1, <2>1, FS_Subset, FS_CardinalityType
<1>3. k + 1 \notin Lost(m, D)
  BY <1>1
<1>4. ASSUME k + 1 \in D
      PROVE  Cardinality(Lost(m \cup {Mark(k + 1, "stray close")}, D)) = Cardinality(Lost(m, D)) + 1
  <2>1. Lost(m \cup {Mark(k + 1, "stray close")}, D) = Lost(m, D) \cup {k + 1}
    BY <1>4 DEF Lost, Mark
  <2> QED BY <1>2, <1>3, <2>1, FS_AddElement
<1>5. ASSUME k + 1 \notin D
      PROVE  Lost(m \cup {Mark(k + 1, "stray close")}, D) = Lost(m, D)
  BY <1>5 DEF Lost, Mark
<1>6. Lost(m \cup {Mark(k + 1, "stray else")}, D) = Lost(m, D)
  BY DEF Lost, Mark
<1>7. Lost(m \cup {Mark(k + 1, "undefined")}, D) = Lost(m, D)
  BY DEF Lost, Mark
<1> QED BY <1>2, <1>4, <1>5, <1>6, <1>7 DEF Losing

(***************************************************************************)
(* The whole document                                                      *)
(***************************************************************************)

Fresh == Scan(<<>>, <<>>, {})

Scanned(after, t, known, n) ==
    after = [k \in 0..n |-> IF k = 0 THEN Fresh ELSE processLine(after[k - 1], k, t[k], known)]

\* The recursion of analyzeDiagnostics has a solution.
LEMMA ScannedExists ==
    ASSUME NEW t, NEW known, NEW n \in Nat
    PROVE  \E after : Scanned(after, t, known, n)
<1> DEFINE J == {m \in Nat : \E after : Scanned(after, t, known, m)}
<1>1. \A m \in Nat : m \in J <=> \E after : Scanned(after, t, known, m)
  OBVIOUS
<1> HIDE DEF J
<1>2. 0 \in J
  <2>1. Scanned([k \in 0..0 |-> Fresh], t, known, 0)
    BY DEF Scanned
  <2> QED BY <2>1, <1>1
<1>3. ASSUME NEW m \in 0..n, m < n, m \in J
      PROVE  m + 1 \in J
  <2>1. PICK g : Scanned(g, t, known, m)
    BY <1>1, <1>3
  <2> DEFINE h == [k \in 0..m + 1 |-> IF k = 0 THEN Fresh ELSE processLine(g[k - 1], k, t[k], known)]
  <2>2. \A k \in 0..m : g[k] = IF k = 0 THEN Fresh ELSE processLine(g[k - 1], k, t[k], known)
    BY <2>1, Zenon DEF Scanned
  <2>3. \A k \in 0..m + 1 : h[k] = IF k = 0 THEN Fresh ELSE processLine(g[k - 1], k, t[k], known)
    BY Zenon
  <2>4. h = [k \in 0..m + 1 |-> h[k]]
    OBVIOUS
  <2> HIDE DEF h
  <2>5. \A k \in 0..m + 1 : h[k] = IF k = 0 THEN Fresh ELSE processLine(h[k - 1], k, t[k], known)
    <3>1. TAKE k \in 0..m + 1
    <3>2. CASE k = 0
      BY <2>3, <3>2
    <3>3. CASE k # 0
      <4>1. k - 1 \in 0..m /\ k - 1 \in 0..m + 1
        BY <3>3
      <4>2. h[k - 1] = g[k - 1]
        BY <2>2, <2>3, <4>1
      <4> QED BY <2>3, <3>3, <4>2
    <3> QED BY <3>2, <3>3
  <2>6. Scanned(h, t, known, m + 1)
    BY <2>4, <2>5 DEF Scanned
  <2> QED BY <2>6, <1>1
<1>4. \A m \in 0..n : m \in J
  BY <1>2, <1>3, HandedFrom
<1> QED BY <1>1, <1>4

\* The lines of each kind are no two kinds.
LEMMA KindsDiffer ==
    ASSUME NEW t
    PROVE  /\ IfOpens(t) \cap IfCloses(t) = {} /\ IfOpens(t) \cap BlockOpens(t) = {}
           /\ IfOpens(t) \cap BlockCloses(t) = {} /\ IfCloses(t) \cap BlockOpens(t) = {}
           /\ IfCloses(t) \cap BlockCloses(t) = {} /\ BlockOpens(t) \cap BlockCloses(t) = {}
           /\ \A i \in IfOpens(t) \cup BlockOpens(t) \cup IfCloses(t) \cup BlockCloses(t) :
                 t[i].is # "else" /\ t[i].is # "call"
<1>1. "if" \notin Counted
  BY DEF Counted
<1> QED BY <1>1 DEF IfOpens, IfCloses, BlockOpens, BlockCloses

\* What a line adds to the counts of one kind of block.
Moves(O, C, i, q, m, p, r) ==
    /\ Len(p) \in Nat /\ Cardinality(Lost(r, C)) \in Nat
    /\ i \in O => Len(p) = Len(q) + 1 /\ Cardinality(Lost(r, C)) = Cardinality(Lost(m, C))
    /\ i \in C => IF Len(q) = 0
                  THEN Len(p) = 0 /\ Cardinality(Lost(r, C)) = Cardinality(Lost(m, C)) + 1
                  ELSE Len(p) = Len(q) - 1 /\ Cardinality(Lost(r, C)) = Cardinality(Lost(m, C))
    /\ (i \notin O /\ i \notin C) =>
          Len(p) = Len(q) /\ Cardinality(Lost(r, C)) = Cardinality(Lost(m, C))

Good(t, E, U, k, a, b, m) ==
    /\ Stacked(a, IfOpens(t), k) /\ Stacked(b, BlockOpens(t), k)
    /\ Marking(m, IfCloses(t) \cup BlockCloses(t), E, U, k)

\* One line.
LEMMA ScanStep ==
    ASSUME NEW t, NEW known, NEW k \in Nat, k + 1 \in DOMAIN t, NEW a, NEW b, NEW m, NEW E, NEW U,
           Good(t, E, U, k, a, b, m),
           k + 1 \in E <=> t[k + 1].is = "else" /\ a = <<>>,
           k + 1 \in U <=> t[k + 1].is = "call" /\ t[k + 1].macro \notin known
    PROVE  \E p, q, r :
              /\ processLine(Scan(a, b, m), k + 1, t[k + 1], known) = Scan(p, q, r)
              /\ Good(t, E, U, k + 1, p, q, r)
              /\ Moves(IfOpens(t), IfCloses(t), k + 1, a, m, p, r)
              /\ Moves(BlockOpens(t), BlockCloses(t), k + 1, b, m, q, r)
<1> DEFINE i == k + 1
           IO == IfOpens(t)
           IC == IfCloses(t)
           BO == BlockOpens(t)
           BC == BlockCloses(t)
           next == processLine(Scan(a, b, m), i, t[i], known)
           with(w) == m \cup {Mark(i, w)}
<1>0. LineGives(next, t, i, known, a, b, m)
  <2> HIDE DEF i
  <2>1. i \in DOMAIN t
    BY DEF i
  <2> QED BY <2>1, LinesAre
<1>2. /\ IO \cap IC = {} /\ IO \cap BO = {} /\ IO \cap BC = {} /\ IC \cap BO = {}
      /\ IC \cap BC = {} /\ BO \cap BC = {}
      /\ i \in IO \cup BO \cup IC \cup BC => t[i].is # "else" /\ t[i].is # "call"
  BY KindsDiffer
<1>3. /\ Stacked(a, IO, k) /\ Stacked(b, BO, k) /\ Marking(m, IC \cup BC, E, U, k)
  BY DEF Good
<1>4. /\ Len(a) \in Nat /\ (a = <<>> <=> Len(a) = 0) /\ Stacked(a, IO, i)
      /\ i \in IO => Stacked(Append(a, i), IO, i) /\ Len(Append(a, i)) = Len(a) + 1
      /\ a # <<>> => Stacked(Front(a), IO, i) /\ Len(Front(a)) = Len(a) - 1
  BY <1>3, StackGrows
<1>5. /\ Len(b) \in Nat /\ (b = <<>> <=> Len(b) = 0) /\ Stacked(b, BO, i)
      /\ i \in BO => Stacked(Append(b, i), BO, i) /\ Len(Append(b, i)) = Len(b) + 1
      /\ b # <<>> => Stacked(Front(b), BO, i) /\ Len(Front(b)) = Len(b) - 1
  BY <1>3, StackGrows
<1> DEFINE c(r, D) == Cardinality(Lost(r, D))
<1>6. ASSUME NEW D \in SUBSET (IC \cup BC)
      PROVE  /\ c(m, D) \in Nat
             /\ i \in D => c(with("stray close"), D) = c(m, D) + 1
             /\ i \notin D => c(with("stray close"), D) = c(m, D)
             /\ c(with("stray else"), D) = c(m, D)
             /\ c(with("undefined"), D) = c(m, D)
  <2>1. Losing(m, D, i)
    BY <1>3, LostGrows
  <2> QED BY <2>1 DEF Losing
<1>7. /\ (i \notin E /\ i \notin U) => Marking(m, IC \cup BC, E, U, i)
      /\ (i \notin E /\ i \notin U /\ i \in IC \cup BC) => Marking(with("stray close"), IC \cup BC, E, U, i)
      /\ (i \in E /\ i \notin U) => Marking(with("stray else"), IC \cup BC, E, U, i)
      /\ (i \notin E /\ i \in U) => Marking(with("undefined"), IC \cup BC, E, U, i)
  <2>1. ASSUME i \notin E, i \notin U
        PROVE  Marking(m, IC \cup BC, E, U, i)
    <3>1. Marking(m \cup {}, IC \cup BC, E, U, i)
      BY <1>3, <2>1, MarkingGrows
    <3>2. m \cup {} = m
      OBVIOUS
    <3> QED BY <3>1, <3>2
  <2>2. ASSUME i \notin E, i \notin U, i \in IC \cup BC
        PROVE  Marking(with("stray close"), IC \cup BC, E, U, i)
    <3>1. /\ Mark(i, "stray else") \notin {Mark(i, "stray close")}
          /\ Mark(i, "undefined") \notin {Mark(i, "stray close")}
      BY DEF Mark
    <3> QED BY <1>3, <2>2, <3>1, MarkingGrows
  <2>3. ASSUME i \in E, i \notin U
        PROVE  Marking(with("stray else"), IC \cup BC, E, U, i)
    <3>1. /\ Mark(i, "stray close") \notin {Mark(i, "stray else")}
          /\ Mark(i, "undefined") \notin {Mark(i, "stray else")}
      BY DEF Mark
    <3> QED BY <1>3, <2>3, <3>1, MarkingGrows
  <2>4. ASSUME i \notin E, i \in U
        PROVE  Marking(with("undefined"), IC \cup BC, E, U, i)
    <3>1. /\ Mark(i, "stray close") \notin {Mark(i, "undefined")}
          /\ Mark(i, "stray else") \notin {Mark(i, "undefined")}
      BY DEF Mark
    <3> QED BY <1>3, <2>4, <3>1, MarkingGrows
  <2> QED BY <2>1, <2>2, <2>3, <2>4
<1>8. IC \in SUBSET (IC \cup BC) /\ BC \in SUBSET (IC \cup BC)
  OBVIOUS
<1>1. /\ i \in IO => next = Scan(Append(a, i), b, m)
      /\ i \in BO => next = Scan(a, Append(b, i), m)
      /\ i \in IC => next = IF a = <<>> THEN Scan(a, b, with("stray close")) ELSE Scan(Front(a), b, m)
      /\ i \in BC => next = IF b = <<>> THEN Scan(a, b, with("stray close")) ELSE Scan(a, Front(b), m)
      /\ t[i].is = "else" => next = IF a = <<>> THEN Scan(a, b, with("stray else")) ELSE Scan(a, b, m)
      /\ t[i].is = "call" => next = IF t[i].macro \notin known THEN Scan(a, b, with("undefined"))
                                    ELSE Scan(a, b, m)
      /\ (i \notin IO \cup BO \cup IC \cup BC /\ t[i].is \notin {"else", "call"}) => next = Scan(a, b, m)
  <2> HIDE DEF next
  <2> QED BY <1>0 DEF LineGives
<1> HIDE DEF IO, IC, BO, BC, next, with, c
<1>9. c(m, IC) \in Nat /\ c(m, BC) \in Nat
  BY <1>6, <1>8
<1>10. ~ (t[i].is = "else" /\ t[i].is = "call")
  OBVIOUS
<1> DEFINE Done(p, q, r) ==
               /\ next = Scan(p, q, r)
               /\ Stacked(p, IO, i) /\ Stacked(q, BO, i) /\ Marking(r, IC \cup BC, E, U, i)
               /\ Moves(IO, IC, i, a, m, p, r) /\ Moves(BO, BC, i, b, m, q, r)
<1>11. CASE i \in IO
  <2>1. i \notin IC /\ i \notin BO /\ i \notin BC /\ i \notin E /\ i \notin U
    BY <1>2, <1>11
  <2>2. Moves(IO, IC, i, a, m, Append(a, i), m) /\ Moves(BO, BC, i, b, m, b, m)
    BY <1>4, <1>5, <1>9, <1>11, <2>1 DEF Moves, c
  <2>3. Done(Append(a, i), b, m)
    BY <1>1, <1>4, <1>5, <1>7, <1>11, <2>1, <2>2
  <2> QED BY <2>3 DEF Good, IO, IC, BO, BC, next
<1>12. CASE i \in BO
  <2>1. i \notin IC /\ i \notin IO /\ i \notin BC /\ i \notin E /\ i \notin U
    BY <1>2, <1>12
  <2>2. Moves(IO, IC, i, a, m, a, m) /\ Moves(BO, BC, i, b, m, Append(b, i), m)
    BY <1>4, <1>5, <1>9, <1>12, <2>1 DEF Moves, c
  <2>3. Done(a, Append(b, i), m)
    BY <1>1, <1>4, <1>5, <1>7, <1>12, <2>1, <2>2
  <2> QED BY <2>3 DEF Good, IO, IC, BO, BC, next
<1>13. CASE i \in IC
  <2>1. i \notin IO /\ i \notin BO /\ i \notin BC /\ i \notin E /\ i \notin U
    BY <1>2, <1>13
  <2>2. CASE a = <<>>
    <3>1. c(with("stray close"), IC) = c(m, IC) + 1 /\ c(with("stray close"), BC) = c(m, BC)
      BY <1>6, <1>8, <1>13, <2>1
    <3>2. Moves(IO, IC, i, a, m, a, with("stray close")) /\ Moves(BO, BC, i, b, m, b, with("stray close"))
      <4> DEFINE x == c(with("stray close"), IC)
                 y == c(with("stray close"), BC)
      <4>1. x \in Nat /\ y \in Nat /\ Len(a) \in Nat /\ Len(b) \in Nat
        <5>1. \A n \in Nat : n + 1 \in Nat
          OBVIOUS
        <5>2. x \in Nat /\ y \in Nat
          BY <1>9, <3>1, <5>1
        <5> QED BY <1>4, <1>5, <5>2
      <4>2. Moves(IO, IC, i, a, m, a, with("stray close"))
        BY <1>4, <1>9, <1>13, <2>1, <2>2, <3>1, <4>1 DEF Moves, c
      <4>3. Moves(BO, BC, i, b, m, b, with("stray close"))
        BY <1>5, <1>9, <1>13, <2>1, <2>2, <3>1, <4>1 DEF Moves, c
      <4> QED BY <4>2, <4>3
    <3>3. Done(a, b, with("stray close"))
      BY <1>1, <1>4, <1>5, <1>7, <1>13, <2>1, <2>2, <3>2
    <3> QED BY <3>3 DEF Good, IO, IC, BO, BC, next
  <2>3. CASE a # <<>>
    <3>2. Moves(IO, IC, i, a, m, Front(a), m) /\ Moves(BO, BC, i, b, m, b, m)
      BY <1>4, <1>5, <1>9, <1>13, <2>1, <2>3 DEF Moves, c
    <3>3. Done(Front(a), b, m)
      BY <1>1, <1>4, <1>5, <1>7, <1>13, <2>1, <2>3, <3>2
    <3> QED BY <3>3 DEF Good, IO, IC, BO, BC, next
  <2> QED BY <2>2, <2>3
<1>14. CASE i \in BC
  <2>1. i \notin IO /\ i \notin BO /\ i \notin IC /\ i \notin E /\ i \notin U
    BY <1>2, <1>14
  <2>2. CASE b = <<>>
    <3>1. c(with("stray close"), BC) = c(m, BC) + 1 /\ c(with("stray close"), IC) = c(m, IC)
      BY <1>6, <1>8, <1>14, <2>1
    <3>2. Moves(IO, IC, i, a, m, a, with("stray close")) /\ Moves(BO, BC, i, b, m, b, with("stray close"))
      <4> DEFINE x == c(with("stray close"), IC)
                 y == c(with("stray close"), BC)
      <4>1. x \in Nat /\ y \in Nat /\ Len(a) \in Nat /\ Len(b) \in Nat
        <5>1. \A n \in Nat : n + 1 \in Nat
          OBVIOUS
        <5>2. x \in Nat /\ y \in Nat
          BY <1>9, <3>1, <5>1
        <5> QED BY <1>4, <1>5, <5>2
      <4>2. Moves(IO, IC, i, a, m, a, with("stray close"))
        BY <1>4, <1>9, <1>14, <2>1, <2>2, <3>1, <4>1 DEF Moves, c
      <4>3. Moves(BO, BC, i, b, m, b, with("stray close"))
        BY <1>5, <1>9, <1>14, <2>1, <2>2, <3>1, <4>1 DEF Moves, c
      <4> QED BY <4>2, <4>3
    <3>3. Done(a, b, with("stray close"))
      BY <1>1, <1>4, <1>5, <1>7, <1>14, <2>1, <2>2, <3>2
    <3> QED BY <3>3 DEF Good, IO, IC, BO, BC, next
  <2>3. CASE b # <<>>
    <3>2. Moves(IO, IC, i, a, m, a, m) /\ Moves(BO, BC, i, b, m, Front(b), m)
      BY <1>4, <1>5, <1>9, <1>14, <2>1, <2>3 DEF Moves, c
    <3>3. Done(a, Front(b), m)
      BY <1>1, <1>4, <1>5, <1>7, <1>14, <2>1, <2>3, <3>2
    <3> QED BY <3>3 DEF Good, IO, IC, BO, BC, next
  <2> QED BY <2>2, <2>3
<1>15. ASSUME i \notin IO, i \notin BO, i \notin IC, i \notin BC
       PROVE  /\ Moves(IO, IC, i, a, m, a, m) /\ Moves(BO, BC, i, b, m, b, m)
              /\ Moves(IO, IC, i, a, m, a, with("stray else"))
              /\ Moves(BO, BC, i, b, m, b, with("stray else"))
              /\ Moves(IO, IC, i, a, m, a, with("undefined"))
              /\ Moves(BO, BC, i, b, m, b, with("undefined"))
  <2>1. /\ c(with("stray else"), IC) = c(m, IC) /\ c(with("undefined"), IC) = c(m, IC)
        /\ c(with("stray else"), BC) = c(m, BC) /\ c(with("undefined"), BC) = c(m, BC)
    BY <1>6, <1>8
  <2> QED BY <1>4, <1>5, <1>9, <1>15, <2>1 DEF Moves, c
<1>16. CASE i \notin IO /\ i \notin BO /\ i \notin IC /\ i \notin BC
  <2>1. CASE i \in E
    <3>1. i \notin U /\ next = Scan(a, b, with("stray else"))
      BY <1>1, <1>10, <2>1
    <3>2. Done(a, b, with("stray else"))
      BY <1>4, <1>5, <1>7, <1>15, <1>16, <2>1, <3>1
    <3> QED BY <3>2 DEF Good, IO, IC, BO, BC, next
  <2>2. CASE i \in U
    <3>1. i \notin E /\ next = Scan(a, b, with("undefined"))
      BY <1>1, <1>10, <2>2
    <3>2. Done(a, b, with("undefined"))
      BY <1>4, <1>5, <1>7, <1>15, <1>16, <2>2, <3>1
    <3> QED BY <3>2 DEF Good, IO, IC, BO, BC, next
  <2>3. CASE i \notin E /\ i \notin U
    <3>1. next = Scan(a, b, m)
      BY <1>1, <1>16, <2>3
    <3>2. Done(a, b, m)
      BY <1>4, <1>5, <1>7, <1>15, <1>16, <2>3, <3>1
    <3> QED BY <3>2 DEF Good, IO, IC, BO, BC, next
  <2> QED BY <2>1, <2>2, <2>3
<1> QED BY <1>11, <1>12, <1>13, <1>14, <1>16

UndefinedCalls(t, known) == { i \in DOMAIN t : t[i].is = "call" /\ t[i].macro \notin known }

ElsesAlone(t, after) == { i \in DOMAIN t : t[i].is = "else" /\ after[i - 1].ifs = <<>> }

AllGood(after, t, known, k) ==
    LET s == after[k]
    IN /\ s = Scan(s.ifs, s.blocks, s.marks)
       /\ Good(t, ElsesAlone(t, after), UndefinedCalls(t, known), k, s.ifs, s.blocks, s.marks)

\* Two lines that follow each other.
LEMMA ScanGoesOn ==
    ASSUME NEW t, NEW known, NEW n \in Nat, DOMAIN t = 1..n, NEW after,
           Scanned(after, t, known, n), NEW k \in 0..n, k < n, AllGood(after, t, known, k)
    PROVE  /\ AllGood(after, t, known, k + 1)
           /\ Moves(IfOpens(t), IfCloses(t), k + 1, after[k].ifs, after[k].marks,
                    after[k + 1].ifs, after[k + 1].marks)
           /\ Moves(BlockOpens(t), BlockCloses(t), k + 1, after[k].blocks, after[k].marks,
                    after[k + 1].blocks, after[k + 1].marks)
<1> DEFINE a == after[k].ifs
           b == after[k].blocks
           m == after[k].marks
           E == ElsesAlone(t, after)
           U == UndefinedCalls(t, known)
<1>1. k \in Nat /\ k + 1 \in DOMAIN t /\ k + 1 \in 0..n /\ k + 1 # 0 /\ (k + 1) - 1 = k
  OBVIOUS
<1>2. after[k] = Scan(a, b, m) /\ Good(t, E, U, k, a, b, m)
  BY DEF AllGood
<1>3. after[k + 1] = processLine(Scan(a, b, m), k + 1, t[k + 1], known)
  <2>1. \A x \in 0..n : after[x] = IF x = 0 THEN Fresh ELSE processLine(after[x - 1], x, t[x], known)
    BY Zenon DEF Scanned
  <2> QED BY <1>1, <1>2, <2>1
<1>4. k + 1 \in E <=> t[k + 1].is = "else" /\ a = <<>>
  BY <1>1 DEF ElsesAlone
<1>5. k + 1 \in U <=> t[k + 1].is = "call" /\ t[k + 1].macro \notin known
  BY <1>1 DEF UndefinedCalls
<1> HIDE DEF a, b, m, E, U
<1>6. PICK p, q, r :
         /\ processLine(Scan(a, b, m), k + 1, t[k + 1], known) = Scan(p, q, r)
         /\ Good(t, E, U, k + 1, p, q, r)
         /\ Moves(IfOpens(t), IfCloses(t), k + 1, a, m, p, r)
         /\ Moves(BlockOpens(t), BlockCloses(t), k + 1, b, m, q, r)
  BY <1>1, <1>2, <1>4, <1>5, ScanStep
<1>7. after[k + 1] = Scan(p, q, r)
  BY <1>3, <1>6
<1>8. after[k + 1].ifs = p /\ after[k + 1].blocks = q /\ after[k + 1].marks = r
  BY <1>7, StackOf
<1>9. AllGood(after, t, known, k + 1)
  BY <1>6, <1>7, <1>8 DEF AllGood, E, U
<1> QED BY <1>6, <1>8, <1>9 DEF a, b, m

LEMMA ScanBegins ==
    ASSUME NEW t, NEW known, NEW n \in Nat, NEW after, Scanned(after, t, known, n)
    PROVE  /\ after[0] = Fresh /\ AllGood(after, t, known, 0)
           /\ after[0].ifs = <<>> /\ after[0].blocks = <<>> /\ after[0].marks = {}
<1>1. after[0] = Fresh
  <2>1. \A x \in 0..n : after[x] = IF x = 0 THEN Fresh ELSE processLine(after[x - 1], x, t[x], known)
    BY Zenon DEF Scanned
  <2> QED BY <2>1
<1>2. after[0].ifs = <<>> /\ after[0].blocks = <<>> /\ after[0].marks = {}
  BY <1>1, StackOf DEF Fresh
<1>3. \A O : Stacked(<<>>, O, 0)
  BY EmptySeq DEF Stacked
<1>4. \A C, E, U : Marking({}, C, E, U, 0)
  <2>1. 1..0 = {}
    OBVIOUS
  <2> QED BY <2>1 DEF Marking
<1>5. AllGood(after, t, known, 0)
  BY <1>1, <1>2, <1>3, <1>4 DEF AllGood, Good, Fresh
<1> QED BY <1>1, <1>2, <1>5

\* All lines.
LEMMA ScanIsGood ==
    ASSUME NEW t, NEW known, NEW n \in Nat, DOMAIN t = 1..n, NEW after,
           Scanned(after, t, known, n)
    PROVE  \A k \in 0..n : AllGood(after, t, known, k)
<1> DEFINE J == {k \in Nat : AllGood(after, t, known, k)}
<1>1. 0 \in J
  BY ScanBegins
<1>2. ASSUME NEW k \in 0..n, k < n, k \in J
      PROVE  k + 1 \in J
  <2>1. AllGood(after, t, known, k) /\ k + 1 \in Nat
    BY <1>2
  <2>2. AllGood(after, t, known, k + 1)
    BY <1>2, <2>1, ScanGoesOn
  <2> QED BY <2>1, <2>2
<1> HIDE DEF J
<1>3. \A k \in 0..n : k \in J
  BY <1>1, <1>2, HandedFrom
<1> QED BY <1>3 DEF J

LostBy(s, C) == Cardinality(Lost(s.marks, C))

\* The stack of @if and the close tags it lost count as CountersAreSurpluses says.
LEMMA IfsCount ==
    ASSUME NEW t, NEW known, NEW n \in Nat, DOMAIN t = 1..n, NEW after,
           Scanned(after, t, known, n)
    PROVE  Counts([k \in 0..n |-> Len(after[k].ifs)], [k \in 0..n |-> LostBy(after[k], IfCloses(t))],
                  IfOpens(t), IfCloses(t), n)
<1> DEFINE d == [k \in 0..n |-> Len(after[k].ifs)]
           l == [k \in 0..n |-> LostBy(after[k], IfCloses(t))]
<1>1. \A k \in 0..n : d[k] = Len(after[k].ifs) /\ l[k] = Cardinality(Lost(after[k].marks, IfCloses(t)))
  BY DEF LostBy
<1> HIDE DEF d, l
<1>2. d[0] = 0 /\ l[0] = 0
  <2>1. after[0].ifs = <<>> /\ after[0].marks = {}
    BY ScanBegins
  <2>2. Lost({}, IfCloses(t)) = {}
    BY DEF Lost
  <2>3. Cardinality({}) = 0 /\ Len(<<>>) = 0
    BY FS_EmptySet
  <2>4. 0 \in 0..n
    OBVIOUS
  <2>5. /\ d[0] = Len(after[0].ifs)
        /\ l[0] = Cardinality(Lost(after[0].marks, IfCloses(t)))
    BY <1>1, <2>4
  <2> QED BY <2>1, <2>2, <2>3, <2>5
<1>3. ASSUME NEW k \in 0..n, k < n
      PROVE  /\ k + 1 \in 0..n
             /\ Moves(IfOpens(t), IfCloses(t), k + 1, after[k].ifs, after[k].marks,
                    after[k + 1].ifs, after[k + 1].marks)
  <2>1. AllGood(after, t, known, k)
    BY ScanIsGood
  <2>2. k + 1 \in 0..n
    BY <1>3
  <2> QED BY <1>3, <2>1, <2>2, ScanGoesOn
<1>4. \A k \in 0..n : d[k] \in Nat /\ l[k] \in Nat
  <2>1. TAKE k \in 0..n
  <2>2. CASE k = 0
    BY <1>2, <2>2
  <2>3. CASE k # 0
    <3>1. k - 1 \in 0..n /\ k - 1 < n /\ (k - 1) + 1 = k
      BY <2>3
    <3>2. Moves(IfOpens(t), IfCloses(t), (k - 1) + 1, after[k - 1].ifs, after[k - 1].marks,
                after[(k - 1) + 1].ifs, after[(k - 1) + 1].marks)
      BY <1>3, <3>1
    <3> QED BY <1>1, <3>1, <3>2 DEF Moves
  <2> QED BY <2>2, <2>3
<1>5. IfOpens(t) \cap IfCloses(t) = {}
  BY KindsDiffer
<1>6. ASSUME NEW k \in 0..n, k < n
      PROVE  /\ k + 1 \in IfOpens(t) => d[k + 1] = d[k] + 1 /\ l[k + 1] = l[k]
             /\ k + 1 \in IfCloses(t) => IF d[k] = 0 THEN d[k + 1] = 0 /\ l[k + 1] = l[k] + 1
                                         ELSE d[k + 1] = d[k] - 1 /\ l[k + 1] = l[k]
             /\ (k + 1 \notin IfOpens(t) /\ k + 1 \notin IfCloses(t)) => d[k + 1] = d[k] /\ l[k + 1] = l[k]
  <2>1. k + 1 \in 0..n /\ Moves(IfOpens(t), IfCloses(t), k + 1, after[k].ifs, after[k].marks,
                                after[k + 1].ifs, after[k + 1].marks)
    BY <1>3, <1>6
  <2>2. /\ d[k] = Len(after[k].ifs) /\ l[k] = Cardinality(Lost(after[k].marks, IfCloses(t)))
        /\ d[k + 1] = Len(after[k + 1].ifs)
        /\ l[k + 1] = Cardinality(Lost(after[k + 1].marks, IfCloses(t)))
    BY <1>1, <2>1
  <2> QED BY <2>1, <2>2 DEF Moves
<1>7. Counts(d, l, IfOpens(t), IfCloses(t), n)
  BY <1>2, <1>4, <1>5, <1>6 DEF Counts
<1> QED BY <1>7 DEF d, l

\* And so do those of all other blocks.
LEMMA BlocksCount ==
    ASSUME NEW t, NEW known, NEW n \in Nat, DOMAIN t = 1..n, NEW after,
           Scanned(after, t, known, n)
    PROVE  Counts([k \in 0..n |-> Len(after[k].blocks)], [k \in 0..n |-> LostBy(after[k], BlockCloses(t))],
                  BlockOpens(t), BlockCloses(t), n)
<1> DEFINE d == [k \in 0..n |-> Len(after[k].blocks)]
           l == [k \in 0..n |-> LostBy(after[k], BlockCloses(t))]
<1>1. \A k \in 0..n : d[k] = Len(after[k].blocks) /\ l[k] = Cardinality(Lost(after[k].marks, BlockCloses(t)))
  BY DEF LostBy
<1> HIDE DEF d, l
<1>2. d[0] = 0 /\ l[0] = 0
  <2>1. after[0].blocks = <<>> /\ after[0].marks = {}
    BY ScanBegins
  <2>2. Lost({}, BlockCloses(t)) = {}
    BY DEF Lost
  <2>3. Cardinality({}) = 0 /\ Len(<<>>) = 0
    BY FS_EmptySet
  <2>4. 0 \in 0..n
    OBVIOUS
  <2>5. /\ d[0] = Len(after[0].blocks)
        /\ l[0] = Cardinality(Lost(after[0].marks, BlockCloses(t)))
    BY <1>1, <2>4
  <2> QED BY <2>1, <2>2, <2>3, <2>5
<1>3. ASSUME NEW k \in 0..n, k < n
      PROVE  /\ k + 1 \in 0..n
             /\ Moves(BlockOpens(t), BlockCloses(t), k + 1, after[k].blocks, after[k].marks,
                    after[k + 1].blocks, after[k + 1].marks)
  <2>1. AllGood(after, t, known, k)
    BY ScanIsGood
  <2>2. k + 1 \in 0..n
    BY <1>3
  <2> QED BY <1>3, <2>1, <2>2, ScanGoesOn
<1>4. \A k \in 0..n : d[k] \in Nat /\ l[k] \in Nat
  <2>1. TAKE k \in 0..n
  <2>2. CASE k = 0
    BY <1>2, <2>2
  <2>3. CASE k # 0
    <3>1. k - 1 \in 0..n /\ k - 1 < n /\ (k - 1) + 1 = k
      BY <2>3
    <3>2. Moves(BlockOpens(t), BlockCloses(t), (k - 1) + 1, after[k - 1].blocks, after[k - 1].marks,
                after[(k - 1) + 1].blocks, after[(k - 1) + 1].marks)
      BY <1>3, <3>1
    <3> QED BY <1>1, <3>1, <3>2 DEF Moves
  <2> QED BY <2>2, <2>3
<1>5. BlockOpens(t) \cap BlockCloses(t) = {}
  BY KindsDiffer
<1>6. ASSUME NEW k \in 0..n, k < n
      PROVE  /\ k + 1 \in BlockOpens(t) => d[k + 1] = d[k] + 1 /\ l[k + 1] = l[k]
             /\ k + 1 \in BlockCloses(t) => IF d[k] = 0 THEN d[k + 1] = 0 /\ l[k + 1] = l[k] + 1
                                         ELSE d[k + 1] = d[k] - 1 /\ l[k + 1] = l[k]
             /\ (k + 1 \notin BlockOpens(t) /\ k + 1 \notin BlockCloses(t)) => d[k + 1] = d[k] /\ l[k + 1] = l[k]
  <2>1. k + 1 \in 0..n /\ Moves(BlockOpens(t), BlockCloses(t), k + 1, after[k].blocks, after[k].marks,
                                after[k + 1].blocks, after[k + 1].marks)
    BY <1>3, <1>6
  <2>2. /\ d[k] = Len(after[k].blocks) /\ l[k] = Cardinality(Lost(after[k].marks, BlockCloses(t)))
        /\ d[k + 1] = Len(after[k + 1].blocks)
        /\ l[k + 1] = Cardinality(Lost(after[k + 1].marks, BlockCloses(t)))
    BY <1>1, <2>1
  <2> QED BY <2>1, <2>2 DEF Moves
<1>7. Counts(d, l, BlockOpens(t), BlockCloses(t), n)
  BY <1>2, <1>4, <1>5, <1>6 DEF Counts
<1> QED BY <1>7 DEF d, l

\* The tags of a kind without a partner, from the counters at the end.
Partnerless(O, C, n) ==
    Max({0} \cup { - Net(O, C, 1, i) : i \in 1..n }) + Max({0} \cup { Net(O, C, i, n) : i \in 1..n })

LEMMA PartnerlessIs ==
    ASSUME NEW O, NEW C, NEW n \in Nat, NEW x \in Nat, NEW y \in Nat, Counted1(O, C, x, y, n)
    PROVE  Partnerless(O, C, n) = y + x
<1> DEFINE P(i) == Net(O, C, 1, i)
           N(i) == Net(O, C, i, n)
<1>1. \A i \in 1..n : P(i) \in Int /\ N(i) \in Int
  <2>1. TAKE i \in 1..n
  <2>2. /\ 1 \in Nat /\ i \in Nat /\ 1 <= i + 1 /\ i <= n + 1
    OBVIOUS
  <2> QED BY <2>2, NetGrows
<1>2. /\ \A j \in 1..n : - P(j) <= y
      /\ y = 0 \/ \E j \in 1..n : - P(j) = y
      /\ \A j \in 1..n : N(j) <= x
      /\ x = 0 \/ \E j \in 1..n : N(j) = x
  BY DEF Counted1
<1> HIDE DEF P, N
<1>3. Max({0} \cup { - P(i) : i \in 1..n }) = y
  <2> DEFINE S == {0} \cup { - P(i) : i \in 1..n }
  <2>1. y \in S
    BY <1>2
  <2>2. S \subseteq Int
    BY <1>1
  <2>3. \A z \in S : z <= y
    BY <1>2
  <2> HIDE DEF S
  <2>4. Max(S) = y
    BY <2>1, <2>2, <2>3, MaxIs
  <2> QED BY <2>4 DEF S
<1>4. Max({0} \cup { N(i) : i \in 1..n }) = x
  <2> DEFINE S == {0} \cup { N(i) : i \in 1..n }
  <2>1. x \in S
    BY <1>2
  <2>2. S \subseteq Int
    BY <1>1
  <2>3. \A z \in S : z <= x
    BY <1>2
  <2> HIDE DEF S
  <2>4. Max(S) = x
    BY <2>1, <2>2, <2>3, MaxIs
  <2> QED BY <2>4 DEF S
<1> QED BY <1>3, <1>4 DEF Partnerless, P, N

LEMMA BalanceIsNet ==
    ASSUME NEW t, NEW n \in Nat, DOMAIN t = 1..n, NEW a \in 1..n, NEW b \in 0..n
    PROVE  /\ Balance(t, IsIf, a, b) = Net(IfOpens(t), IfCloses(t), a, b)
           /\ Balance(t, IsBlock, a, b) = Net(BlockOpens(t), BlockCloses(t), a, b)
<1>0. \A i \in a..b : i \in DOMAIN t
  OBVIOUS
<1>1. { i \in a..b : IsIf(t[i]) /\ t[i].is = "open" } = IfOpens(t) \cap (a..b)
  BY <1>0 DEF IsIf, IfOpens
<1>2. { i \in a..b : IsIf(t[i]) /\ t[i].is = "close" } = IfCloses(t) \cap (a..b)
  BY <1>0 DEF IsIf, IfCloses
<1>3. { i \in a..b : IsBlock(t[i]) /\ t[i].is = "open" } = BlockOpens(t) \cap (a..b)
  <2>1. \A i \in a..b : (IsBlock(t[i]) /\ t[i].is = "open")
                         <=> (t[i].is = "open" /\ t[i].name \in Counted)
    BY Zenon DEF IsBlock
  <2> QED BY <1>0, <2>1 DEF BlockOpens
<1>4. { i \in a..b : IsBlock(t[i]) /\ t[i].is = "close" } = BlockCloses(t) \cap (a..b)
  <2>1. \A i \in a..b : (IsBlock(t[i]) /\ t[i].is = "close")
                         <=> (t[i].is = "close" /\ t[i].name # "if")
    BY DEF IsBlock
  <2> QED BY <1>0, <2>1 DEF BlockCloses
<1> QED BY <1>1, <1>2, <1>3, <1>4 DEF Balance, Net

LEMMA UnmatchedIs ==
    ASSUME NEW t, NEW n \in Nat, DOMAIN t = 1..n, Len(t) = n
    PROVE  /\ Unmatched(t, IsIf) = Partnerless(IfOpens(t), IfCloses(t), n)
           /\ Unmatched(t, IsBlock) = Partnerless(BlockOpens(t), BlockCloses(t), n)
<1>1. ASSUME NEW i \in 1..n
      PROVE  /\ Balance(t, IsIf, 1, i) = Net(IfOpens(t), IfCloses(t), 1, i)
             /\ Balance(t, IsIf, i, n) = Net(IfOpens(t), IfCloses(t), i, n)
             /\ Balance(t, IsBlock, 1, i) = Net(BlockOpens(t), BlockCloses(t), 1, i)
             /\ Balance(t, IsBlock, i, n) = Net(BlockOpens(t), BlockCloses(t), i, n)
  <2>1. i \in 0..n /\ 1 \in 1..n /\ n \in 0..n
    OBVIOUS
  <2> QED BY <2>1, BalanceIsNet
<1>2. { - Balance(t, IsIf, 1, i) : i \in DOMAIN t } = { - Net(IfOpens(t), IfCloses(t), 1, i) : i \in 1..n }
  BY <1>1
<1>3. { Balance(t, IsIf, i, Len(t)) : i \in DOMAIN t } = { Net(IfOpens(t), IfCloses(t), i, n) : i \in 1..n }
  BY <1>1
<1>4. { - Balance(t, IsBlock, 1, i) : i \in DOMAIN t }
      = { - Net(BlockOpens(t), BlockCloses(t), 1, i) : i \in 1..n }
  BY <1>1
<1>5. { Balance(t, IsBlock, i, Len(t)) : i \in DOMAIN t }
      = { Net(BlockOpens(t), BlockCloses(t), i, n) : i \in 1..n }
  BY <1>1
<1> QED BY <1>2, <1>3, <1>4, <1>5 DEF Unmatched, Partnerless

\* What a scan leaves behind.
Leaves(t, known, p, q, m) ==
    /\ analyzeDiagnostics(t, known) = m \cup { Mark(i, "unclosed") : i \in Range(p) \cup Range(q) }
    /\ Good(t, StrayElses(t), UndefinedCalls(t, known), Len(t), p, q, m)
    /\ Len(p) + Cardinality(Lost(m, IfCloses(t))) = Unmatched(t, IsIf)
    /\ Len(q) + Cardinality(Lost(m, BlockCloses(t))) = Unmatched(t, IsBlock)

LEMMA ScanLeaves ==
    ASSUME NEW S, NEW t \in Seq(S), NEW known
    PROVE  \E p, q, m : Leaves(t, known, p, q, m)
<1> DEFINE n == Len(t)
           IO == IfOpens(t)
           IC == IfCloses(t)
           BO == BlockOpens(t)
           BC == BlockCloses(t)
           after == CHOOSE x : Scanned(x, t, known, n)
<1>1. n \in Nat /\ DOMAIN t = 1..n
  BY LenProperties
<1>2. analyzeDiagnostics(t, known)
      = after[n].marks \cup { Mark(i, "unclosed") : i \in Range(after[n].ifs) \cup Range(after[n].blocks) }
  BY DEF analyzeDiagnostics, Scanned, Fresh, Scan
<1>3. Scanned(after, t, known, n)
  <2> HIDE DEF n
  <2> QED BY <1>1, ScannedExists
<1> HIDE DEF after, n
<1>4. \A k \in 0..n : AllGood(after, t, known, k)
  BY <1>1, <1>3, ScanIsGood
<1> DEFINE d == [k \in 0..n |-> Len(after[k].ifs)]
           l == [k \in 0..n |-> LostBy(after[k], IC)]
           e == [k \in 0..n |-> Len(after[k].blocks)]
           o == [k \in 0..n |-> LostBy(after[k], BC)]
<1>5. Counts(d, l, IO, IC, n) /\ Counts(e, o, BO, BC, n)
  BY <1>1, <1>3, IfsCount, BlocksCount
<1>6. \A k \in 0..n : /\ d[k] = Len(after[k].ifs) /\ l[k] = Cardinality(Lost(after[k].marks, IC))
                      /\ e[k] = Len(after[k].blocks) /\ o[k] = Cardinality(Lost(after[k].marks, BC))
  BY DEF LostBy
<1> HIDE DEF d, l, e, o, IO, IC, BO, BC
<1>7. \A k \in 0..n : /\ d[k] \in Nat /\ l[k] \in Nat /\ e[k] \in Nat /\ o[k] \in Nat
                      /\ Counted1(IO, IC, d[k], l[k], k) /\ Counted1(BO, BC, e[k], o[k], k)
  <2>1. \A k \in 0..n : Counted1(IO, IC, d[k], l[k], k)
    BY <1>1, <1>5, CountersAreSurpluses
  <2>2. \A k \in 0..n : Counted1(BO, BC, e[k], o[k], k)
    BY <1>1, <1>5, CountersAreSurpluses
  <2> QED BY <1>5, <2>1, <2>2 DEF Counts
<1>8. n \in 0..n
  BY <1>1
<1>9. Partnerless(IO, IC, n) = l[n] + d[n] /\ Partnerless(BO, BC, n) = o[n] + e[n]
  BY <1>1, <1>7, <1>8, PartnerlessIs
<1>10. Unmatched(t, IsIf) = Partnerless(IO, IC, n) /\ Unmatched(t, IsBlock) = Partnerless(BO, BC, n)
  BY <1>1, UnmatchedIs DEF IO, IC, BO, BC, n
<1>11. StrayElses(t) = ElsesAlone(t, after)
  <2>1. SUFFICES ASSUME NEW i \in DOMAIN t
                 PROVE  (\A j \in 1..(i - 1) : Balance(t, IsIf, j, i - 1) <= 0) <=> after[i - 1].ifs = <<>>
    BY DEF StrayElses, ElsesAlone
  <2>2. i - 1 \in 0..n /\ \A j \in 1..(i - 1) : j \in 1..n
    BY <1>1
  <2>3. \A j \in 1..(i - 1) : Balance(t, IsIf, j, i - 1) = Net(IO, IC, j, i - 1)
    BY <1>1, <2>2, BalanceIsNet DEF IO, IC
  <2>4. /\ d[i - 1] \in Nat
        /\ \A j \in 1..(i - 1) : Net(IO, IC, j, i - 1) <= d[i - 1]
        /\ d[i - 1] = 0 \/ \E j \in 1..(i - 1) : Net(IO, IC, j, i - 1) = d[i - 1]
    BY <1>7, <2>2 DEF Counted1
  <2>5. after[i - 1].ifs = <<>> <=> d[i - 1] = 0
    <3>1. Stacked(after[i - 1].ifs, IO, i - 1)
      BY <1>4, <2>2 DEF AllGood, Good, IO
    <3>2. after[i - 1].ifs \in Seq(Nat)
      BY <3>1 DEF Stacked
    <3> QED BY <1>6, <2>2, <3>2, EmptySeq
  <2>6. CASE d[i - 1] = 0
    BY <2>3, <2>4, <2>5, <2>6
  <2>7. CASE d[i - 1] # 0
    <3>1. PICK j \in 1..(i - 1) : Net(IO, IC, j, i - 1) = d[i - 1]
      BY <2>4, <2>7
    <3>2. ~ (Balance(t, IsIf, j, i - 1) <= 0)
      BY <2>3, <2>4, <2>7, <3>1
    <3> QED BY <2>5, <2>7, <3>2
  <2> QED BY <2>6, <2>7
<1>12. Good(t, StrayElses(t), UndefinedCalls(t, known), n, after[n].ifs, after[n].blocks, after[n].marks)
  BY <1>4, <1>8, <1>11 DEF AllGood
<1>13. /\ Len(after[n].ifs) + Cardinality(Lost(after[n].marks, IC)) = Unmatched(t, IsIf)
       /\ Len(after[n].blocks) + Cardinality(Lost(after[n].marks, BC)) = Unmatched(t, IsBlock)
  <2>1. d[n] \in Nat /\ l[n] \in Nat /\ e[n] \in Nat /\ o[n] \in Nat
    BY <1>7, <1>8
  <2>2. d[n] + l[n] = Unmatched(t, IsIf) /\ e[n] + o[n] = Unmatched(t, IsBlock)
    BY <1>9, <1>10, <2>1
  <2> QED BY <1>6, <1>8, <2>2
<1> QED BY <1>2, <1>12, <1>13 DEF Leaves, n, IC, BC

LEMMA DisjointAdds ==
    ASSUME NEW S, NEW T, IsFiniteSet(S), IsFiniteSet(T), S \cap T = {}
    PROVE  IsFiniteSet(S \cup T) /\ Cardinality(S \cup T) = Cardinality(S) + Cardinality(T)
<1>1. Cardinality({}) = 0
  BY FS_EmptySet
<1>2. Cardinality(S) \in Nat /\ Cardinality(T) \in Nat
  BY FS_CardinalityType
<1>3. /\ IsFiniteSet(S \cup T)
      /\ Cardinality(S \cup T) = Cardinality(S) + Cardinality(T) - Cardinality(S \cap T)
  BY FS_Union
<1>4. Cardinality(S \cap T) = 0
  BY <1>1
<1> QED BY <1>2, <1>3, <1>4

WhatOf(l) == IF l.is = "close" THEN "stray close"
             ELSE IF l.is = "else" THEN "stray else" ELSE "unclosed"

Errors(marked) == { k \in marked : k.what # "undefined" }

\* What the scan leaves in a document: p and q stand open, m was marked.
MarkedLines(t, p, q, m) ==
    Lost(m, IfCloses(t)) \cup Lost(m, BlockCloses(t)) \cup StrayElses(t) \cup Range(p) \cup Range(q)

Undefined(t, known, found) ==
    \A i : Mark(i, "undefined") \in found <=> i \in UndefinedCalls(t, known)

Placed(found, n) ==
    \A x \in found : \E i \in 1..n :
        x \in {Mark(i, "stray close"), Mark(i, "stray else"), Mark(i, "undefined"), Mark(i, "unclosed")}

ByLine(t, known, p, q, m, n, found) ==
    /\ Errors(found) = { Mark(i, WhatOf(t[i])) : i \in MarkedLines(t, p, q, m) }
    /\ Lost(m, IfCloses(t)) \subseteq IfCloses(t) /\ Lost(m, BlockCloses(t)) \subseteq BlockCloses(t)
    /\ Range(p) \subseteq IfOpens(t) /\ Range(q) \subseteq BlockOpens(t)
    /\ MarkedLines(t, p, q, m) \subseteq 1..n
    /\ Cardinality(Range(p)) = Len(p) /\ Cardinality(Range(q)) = Len(q)
    /\ Undefined(t, known, found) /\ Placed(found, n)

\* The errors, by line.
LEMMA ErrorsAreByLine ==
    ASSUME NEW t, NEW known, NEW p, NEW q, NEW m, NEW n \in Nat, Len(t) = n, DOMAIN t = 1..n,
           Leaves(t, known, p, q, m)
    PROVE  ByLine(t, known, p, q, m, n, analyzeDiagnostics(t, known))
<1> DEFINE IC == IfCloses(t)
           BC == BlockCloses(t)
           LI == Lost(m, IC)
           LB == Lost(m, BC)
           SE == StrayElses(t)
           UC == UndefinedCalls(t, known)
           RI == Range(p)
           RB == Range(q)
           all == LI \cup LB \cup SE \cup RI \cup RB
           found == analyzeDiagnostics(t, known)
<1>1. /\ found = m \cup { Mark(i, "unclosed") : i \in RI \cup RB }
      /\ Stacked(p, IfOpens(t), n) /\ Stacked(q, BlockOpens(t), n)
      /\ Marking(m, IC \cup BC, SE, UC, n)
  BY DEF Leaves, Good
<1>2. /\ Cardinality(RI) = Len(p) /\ RI \subseteq IfOpens(t) \cap (1..n)
      /\ Cardinality(RB) = Len(q) /\ RB \subseteq BlockOpens(t) \cap (1..n)
  BY <1>1, StackCounts
<1>3. SE \subseteq 1..n /\ \A i \in SE : t[i].is = "else"
  BY DEF StrayElses
<1>4. /\ \A i \in IC \cup BC : i \in 1..n /\ t[i].is = "close"
      /\ \A i \in RI \cup RB : i \in 1..n /\ t[i].is = "open"
  BY <1>2 DEF IfCloses, BlockCloses, IfOpens, BlockOpens
<1>5. UC \subseteq 1..n
  BY DEF UndefinedCalls
<1>6. /\ \A i : Mark(i, "stray close") \in m <=> i \in LI \cup LB
      /\ \A i : Mark(i, "stray else") \in m <=> i \in SE
      /\ \A i : Mark(i, "undefined") \in m <=> i \in UC
      /\ \A x \in m : \E i \in 1..n :
            x \in {Mark(i, "stray close"), Mark(i, "stray else"), Mark(i, "undefined")}
  <2>1. \A i : Mark(i, "stray close") \in m <=> i \in LI \cup LB
    BY <1>1 DEF Marking, Lost
  <2>2. \A i : Mark(i, "stray else") \in m <=> i \in SE
    BY <1>1, <1>3 DEF Marking
  <2>3. \A i : Mark(i, "undefined") \in m <=> i \in UC
    BY <1>1, <1>5 DEF Marking
  <2>4. \A x \in m : \E i \in 1..n :
            x \in {Mark(i, "stray close"), Mark(i, "stray else"), Mark(i, "undefined")}
    BY <1>1 DEF Marking
  <2> QED BY <2>1, <2>2, <2>3, <2>4
<1>7. /\ \A i \in LI \cup LB : i \in IC \cup BC /\ WhatOf(t[i]) = "stray close"
      /\ \A i \in SE : WhatOf(t[i]) = "stray else"
      /\ \A i \in RI \cup RB : WhatOf(t[i]) = "unclosed"
  <2>1. LI \subseteq IC /\ LB \subseteq BC
    BY DEF Lost
  <2> QED BY <1>3, <1>4, <2>1 DEF WhatOf
<1>8. \A i, w : Mark(i, w).what = w /\ Mark(i, w).line = i
  BY DEF Mark
<1> HIDE DEF IC, BC, LI, LB, SE, UC, RI, RB, found
<1>9. \A x \in Errors(found) : \E i \in all : x = Mark(i, WhatOf(t[i]))
  <2>1. TAKE x \in Errors(found)
  <2>2. x \in found /\ x.what # "undefined"
    BY DEF Errors
  <2>3. CASE x \in m
    <3>1. PICK i \in 1..n : x \in {Mark(i, "stray close"), Mark(i, "stray else"), Mark(i, "undefined")}
      BY <1>6, <2>3
    <3>2. x # Mark(i, "undefined")
      BY <1>8, <2>2
    <3>3. CASE x = Mark(i, "stray close")
      <4>1. i \in LI \cup LB
        BY <1>6, <2>3, <3>3
      <4> QED BY <1>7, <3>3, <4>1
    <3>4. CASE x = Mark(i, "stray else")
      <4>1. i \in SE
        BY <1>6, <2>3, <3>4
      <4> QED BY <1>7, <3>4, <4>1
    <3> QED BY <3>1, <3>2, <3>3, <3>4
  <2>4. CASE x \notin m
    <3>1. PICK i \in RI \cup RB : x = Mark(i, "unclosed")
      BY <1>1, <2>2, <2>4
    <3> QED BY <1>7, <3>1
  <2> QED BY <2>3, <2>4
<1>10. \A i \in all : Mark(i, WhatOf(t[i])) \in Errors(found)
  <2>1. TAKE i \in all
  <2>2. Mark(i, WhatOf(t[i])) \in found
    BY <1>1, <1>6, <1>7
  <2>3. WhatOf(t[i]) # "undefined"
    BY DEF WhatOf
  <2> QED BY <1>8, <2>2, <2>3 DEF Errors
<1>11. Errors(found) = { Mark(i, WhatOf(t[i])) : i \in all }
  BY <1>9, <1>10
<1>12. \A i : Mark(i, "undefined") \in found <=> i \in UC
  <2>1. \A i, j : Mark(i, "undefined") # Mark(j, "unclosed")
    <3>1. TAKE i, j
    <3>2. Mark(i, "undefined").what = "undefined" /\ Mark(j, "unclosed").what = "unclosed"
      BY <1>8
    <3> QED BY <3>2
  <2>2. ASSUME NEW i PROVE Mark(i, "undefined") \in found <=> Mark(i, "undefined") \in m
    <3>1. Mark(i, "undefined") \notin { Mark(j, "unclosed") : j \in RI \cup RB }
      BY <2>1
    <3> QED BY <1>1, <3>1
  <2> QED BY <1>6, <2>2
<1>13. \A x \in found : \E i \in 1..n :
          x \in {Mark(i, "stray close"), Mark(i, "stray else"), Mark(i, "undefined"),
                 Mark(i, "unclosed")}
  <2>1. TAKE x \in found
  <2>2. CASE x \in m
    BY <1>6, <2>2
  <2>3. CASE x \notin m
    BY <1>1, <1>4, <2>3
  <2> QED BY <2>2, <2>3
<1>14. all \subseteq 1..n
  BY <1>3, <1>4, <1>7
<1>15. LI \subseteq IC /\ LB \subseteq BC
  BY DEF Lost, LI, LB
<1>16. all = MarkedLines(t, p, q, m)
  BY DEF MarkedLines, IC, BC, LI, LB, SE, RI, RB
<1>17. Undefined(t, known, found) /\ Placed(found, n)
  BY <1>12, <1>13 DEF Undefined, Placed, UC
<1>18. Errors(found) = { Mark(i, WhatOf(t[i])) : i \in MarkedLines(t, p, q, m) }
  BY <1>11, <1>16
<1> HIDE DEF all
<1>19. /\ Lost(m, IfCloses(t)) \subseteq IfCloses(t) /\ Lost(m, BlockCloses(t)) \subseteq BlockCloses(t)
       /\ Range(p) \subseteq IfOpens(t) /\ Range(q) \subseteq BlockOpens(t)
       /\ Cardinality(Range(p)) = Len(p) /\ Cardinality(Range(q)) = Len(q)
  BY <1>2, <1>15 DEF IC, BC, LI, LB, RI, RB
<1>20. MarkedLines(t, p, q, m) \subseteq 1..n
  BY <1>14, <1>16
<1> QED BY <1>17, <1>18, <1>19, <1>20 DEF ByLine, found

\* The errors and the warnings of a document.
Diagnosed(t, known, found) ==
    /\ Cardinality(Errors(found)) = Unmatched(t, IsIf) + Unmatched(t, IsBlock)
                                    + Cardinality(StrayElses(t))
    /\ { k.line : k \in found \ Errors(found) } = UndefinedCalls(t, known)
    /\ \A k \in found : /\ k.line \in DOMAIN t
                        /\ k.what \in {"stray close", "stray else", "unclosed", "undefined"}

LEMMA DocumentsAreDiagnosed ==
    ASSUME NEW S, NEW t \in Seq(S), NEW known
    PROVE  Diagnosed(t, known, analyzeDiagnostics(t, known))
<1> DEFINE n == Len(t)
           found == analyzeDiagnostics(t, known)
<1>1. n \in Nat /\ DOMAIN t = 1..n
  BY LenProperties
<1>2. PICK p, q, m : Leaves(t, known, p, q, m)
  BY ScanLeaves
<1> DEFINE LI == Lost(m, IfCloses(t))
           LB == Lost(m, BlockCloses(t))
           SE == StrayElses(t)
           RI == Range(p)
           RB == Range(q)
           all == LI \cup LB \cup SE \cup RI \cup RB
<1>3. /\ Errors(found) = { Mark(i, WhatOf(t[i])) : i \in all }
      /\ LI \subseteq IfCloses(t) /\ LB \subseteq BlockCloses(t)
      /\ RI \subseteq IfOpens(t) /\ RB \subseteq BlockOpens(t)
      /\ all \subseteq 1..n
      /\ Cardinality(RI) = Len(p) /\ Cardinality(RB) = Len(q)
      /\ \A i : Mark(i, "undefined") \in found <=> i \in UndefinedCalls(t, known)
      /\ \A x \in found : \E i \in 1..n :
            x \in {Mark(i, "stray close"), Mark(i, "stray else"), Mark(i, "undefined"),
                   Mark(i, "unclosed")}
  <2> HIDE DEF n
  <2>1. Len(t) = n
    BY DEF n
  <2>2. ByLine(t, known, p, q, m, n, found)
    BY <1>1, <1>2, <2>1, ErrorsAreByLine
  <2>3. all = MarkedLines(t, p, q, m)
    BY DEF MarkedLines
  <2> HIDE DEF all, found
  <2>4. Errors(found) = { Mark(i, WhatOf(t[i])) : i \in all } /\ all \subseteq 1..n
    BY <2>2, <2>3 DEF ByLine
  <2>5. /\ \A i : Mark(i, "undefined") \in found <=> i \in UndefinedCalls(t, known)
        /\ \A x \in found : \E i \in 1..n :
            x \in {Mark(i, "stray close"), Mark(i, "stray else"), Mark(i, "undefined"),
                   Mark(i, "unclosed")}
    BY <2>2 DEF ByLine, Undefined, Placed
  <2>6. /\ LI \subseteq IfCloses(t) /\ LB \subseteq BlockCloses(t)
        /\ RI \subseteq IfOpens(t) /\ RB \subseteq BlockOpens(t)
        /\ Cardinality(RI) = Len(p) /\ Cardinality(RB) = Len(q)
    BY <2>2 DEF ByLine
  <2> QED BY <2>4, <2>5, <2>6
<1>4. /\ Len(p) + Cardinality(LI) = Unmatched(t, IsIf)
      /\ Len(q) + Cardinality(LB) = Unmatched(t, IsBlock)
  BY <1>2 DEF Leaves
<1>5. \A i \in SE : t[i].is = "else"
  BY DEF StrayElses
<1> HIDE DEF n, found, LI, LB, SE, RI, RB
<1>6. /\ LI \cap LB = {} /\ (LI \cup LB) \cap SE = {} /\ (LI \cup LB \cup SE) \cap RI = {}
      /\ (LI \cup LB \cup SE \cup RI) \cap RB = {}
  BY <1>3, <1>5, KindsDiffer
<1>7. IsFiniteSet(1..n)
  BY <1>1, FS_Interval
<1>8. /\ IsFiniteSet(LI) /\ IsFiniteSet(LB) /\ IsFiniteSet(SE) /\ IsFiniteSet(RI) /\ IsFiniteSet(RB)
      /\ IsFiniteSet(all)
  <2>1. LI \in SUBSET (1..n) /\ LB \in SUBSET (1..n) /\ SE \in SUBSET (1..n)
        /\ RI \in SUBSET (1..n) /\ RB \in SUBSET (1..n) /\ all \in SUBSET (1..n)
    BY <1>3
  <2> HIDE DEF all
  <2> QED BY <1>7, <2>1, FS_Subset
<1>9. Cardinality(all) = Cardinality(LI) + Cardinality(LB) + Cardinality(SE) + Cardinality(RI) + Cardinality(RB)
  <2>1. IsFiniteSet(LI \cup LB) /\ Cardinality(LI \cup LB) = Cardinality(LI) + Cardinality(LB)
    BY <1>6, <1>8, DisjointAdds
  <2>2. /\ IsFiniteSet(LI \cup LB \cup SE)
        /\ Cardinality(LI \cup LB \cup SE) = Cardinality(LI \cup LB) + Cardinality(SE)
    BY <1>6, <1>8, <2>1, DisjointAdds
  <2>3. /\ IsFiniteSet(LI \cup LB \cup SE \cup RI)
        /\ Cardinality(LI \cup LB \cup SE \cup RI) = Cardinality(LI \cup LB \cup SE) + Cardinality(RI)
    BY <1>6, <1>8, <2>2, DisjointAdds
  <2>4. Cardinality(LI \cup LB \cup SE \cup RI \cup RB)
        = Cardinality(LI \cup LB \cup SE \cup RI) + Cardinality(RB)
    BY <1>6, <1>8, <2>3, DisjointAdds
  <2> QED BY <2>1, <2>2, <2>3, <2>4
<1>10. Cardinality(Errors(found)) = Cardinality(all)
  <2> DEFINE E == Errors(found)
             f == [i \in all |-> Mark(i, WhatOf(t[i]))]
  <2> HIDE DEF all
  <2>1. /\ DOMAIN f = all /\ \A i \in all : f[i] = Mark(i, WhatOf(t[i]))
        /\ E = { f[i] : i \in all }
    BY <1>3 DEF all
  <2>2. f \in [all -> E]
    BY <2>1
  <2>3. \A i, j \in all : f[i] = f[j] => i = j
    BY <2>1 DEF Mark
  <2> HIDE DEF f, E
  <2>4. f \in Bijection(all, E)
    BY <2>1, <2>2, <2>3 DEF Bijection, Injection, Surjection, IsInjective
  <2>5. ExistsBijection(all, E)
    BY <2>4 DEF ExistsBijection
  <2>6. Cardinality(E) = Cardinality(all)
    BY <1>8, <2>5, FS_Bijection
  <2> QED BY <2>6 DEF E
<1>11. /\ Cardinality(LI) \in Nat /\ Cardinality(LB) \in Nat /\ Cardinality(SE) \in Nat
       /\ Cardinality(RI) \in Nat /\ Cardinality(RB) \in Nat
  BY <1>8, FS_CardinalityType
<1>12. Cardinality(Errors(found)) = Unmatched(t, IsIf) + Unmatched(t, IsBlock) + Cardinality(SE)
  <2>1. Cardinality(RI) + Cardinality(LI) = Unmatched(t, IsIf)
        /\ Cardinality(RB) + Cardinality(LB) = Unmatched(t, IsBlock)
    BY <1>3, <1>4
  <2> QED BY <1>9, <1>10, <1>11, <2>1
<1>13. \A i, w : Mark(i, w).what = w /\ Mark(i, w).line = i
  BY DEF Mark
<1>14. \A k \in found : /\ k.line \in DOMAIN t
                        /\ k.what \in {"stray close", "stray else", "unclosed", "undefined"}
                        /\ k.what = "undefined" => k = Mark(k.line, "undefined")
  <2>1. TAKE k \in found
  <2>2. PICK i \in 1..n : k \in {Mark(i, "stray close"), Mark(i, "stray else"), Mark(i, "undefined"),
                                 Mark(i, "unclosed")}
    BY <1>3
  <2>3. PICK w \in {"stray close", "stray else", "unclosed", "undefined"} : k = Mark(i, w)
    BY <2>2
  <2>4. k.line = i /\ k.what = w
    BY <1>13, <2>3
  <2> QED BY <1>1, <2>3, <2>4
<1>15. { k.line : k \in found \ Errors(found) } = UndefinedCalls(t, known)
  <2>1. ASSUME NEW k \in found \ Errors(found)
        PROVE  k.line \in UndefinedCalls(t, known)
    <3>1. k.what = "undefined" /\ k = Mark(k.line, "undefined")
      BY <1>14, <2>1 DEF Errors
    <3> QED BY <1>3, <2>1, <3>1
  <2>2. ASSUME NEW i \in UndefinedCalls(t, known)
        PROVE  \E k \in found \ Errors(found) : k.line = i
    <3>1. Mark(i, "undefined") \in found
      BY <1>3, <2>2
    <3>2. Mark(i, "undefined") \notin Errors(found)
      BY <1>13 DEF Errors
    <3> QED BY <1>13, <3>1, <3>2
  <2> QED BY <2>1, <2>2
<1> QED BY <1>12, <1>14, <1>15 DEF Diagnosed, found, SE

\* r is t with the lines of u before line i.
Spliced(t, i, u, r) ==
    /\ Len(r) = Len(t) + Len(u)
    /\ \A k \in 1..(i - 1) : r[k] = t[k]
    /\ \A k \in 1..Len(u) : r[(i - 1) + k] = u[k]
    /\ \A k \in i..Len(t) : r[k + Len(u)] = t[k]

LEMMA SplicedIs ==
    ASSUME NEW S, NEW t \in Seq(S), NEW u \in Seq(S), NEW i \in 1..(Len(t) + 1)
    PROVE  /\ SubSeq(t, 1, i - 1) \o u \o SubSeq(t, i, Len(t)) \in Seq(S)
           /\ Spliced(t, i, u, SubSeq(t, 1, i - 1) \o u \o SubSeq(t, i, Len(t)))
<1> DEFINE n == Len(t)
           m == Len(u)
           a == SubSeq(t, 1, i - 1)
           b == SubSeq(t, i, n)
           au == a \o u
           r == au \o b
<1>1. n \in Nat /\ m \in Nat
  BY LenProperties
<1>2. a \in Seq(S) /\ Len(a) = i - 1 /\ \A k \in 1..(i - 1) : a[k] = t[k]
  <2>1. 1 \in 1..(n + 1) /\ i - 1 \in 0..n /\ 1 <= (i - 1) + 1 /\ ((i - 1) - 1) + 1 = i - 1
    BY <1>1
  <2>2. /\ a \in Seq(S) /\ Len(a) = ((i - 1) - 1) + 1
        /\ \A k \in 1..(((i - 1) - 1) + 1) : a[k] = t[(1 + k) - 1]
    <3> HIDE DEF a
    <3> QED BY <2>1, PartOf DEF a
  <2>3. \A k \in 1..(i - 1) : (1 + k) - 1 = k
    BY <1>1
  <2> QED BY <2>1, <2>2, <2>3
<1>3. b \in Seq(S) /\ Len(b) = (n - i) + 1 /\ \A k \in 1..((n - i) + 1) : b[k] = t[(i + k) - 1]
  <2>1. n \in 0..n /\ i <= n + 1
    BY <1>1
  <2> QED BY <2>1, PartOf
<1> HIDE DEF a, b, n, m
<1>4. /\ au \in Seq(S) /\ Len(au) = (i - 1) + m
      /\ \A k \in 1..(i - 1) : au[k] = a[k]
      /\ \A k \in 1..m : au[(i - 1) + k] = u[k]
  <2>1. /\ a \o u \in Seq(S) /\ Len(a \o u) = Len(a) + Len(u)
        /\ \A k \in 1..Len(a) : (a \o u)[k] = a[k]
        /\ \A k \in 1..Len(u) : (a \o u)[Len(a) + k] = u[k]
    <3>1. a \in Seq(S) /\ u \in Seq(S)
      BY <1>2
    <3> QED BY ONLY <3>1, InARow
  <2> QED BY <1>2, <2>1 DEF m
<1> HIDE DEF au
<1>5. /\ r \in Seq(S) /\ Len(r) = Len(au) + Len(b)
      /\ \A k \in 1..Len(au) : r[k] = au[k]
      /\ \A k \in 1..Len(b) : r[Len(au) + k] = b[k]
  <2>1. au \in Seq(S) /\ b \in Seq(S)
    BY <1>3, <1>4
  <2> QED BY ONLY <2>1, InARow
<1>6. i \in Nat /\ i >= 1 /\ i <= n + 1
  BY <1>1 DEF n
<1>7. Len(r) = n + m
  <2>1. ((i - 1) + m) + ((n - i) + 1) = n + m
    BY <1>1, <1>6
  <2> QED BY <1>3, <1>4, <1>5, <2>1
<1>8. ASSUME NEW k \in 1..(i - 1) PROVE r[k] = t[k]
  <2>1. k \in 1..((i - 1) + m)
    BY <1>1, <1>6
  <2>2. r[k] = au[k]
    BY <1>4, <1>5, <2>1
  <2> QED BY <1>2, <1>4, <2>2
<1>9. ASSUME NEW k \in 1..m PROVE r[(i - 1) + k] = u[k]
  <2>1. (i - 1) + k \in 1..((i - 1) + m)
    BY <1>1, <1>6
  <2>2. r[(i - 1) + k] = au[(i - 1) + k]
    BY <1>4, <1>5, <2>1
  <2> QED BY <1>4, <2>2
<1>10. ASSUME NEW k \in i..n PROVE r[k + m] = t[k]
  <2>1. (k - i) + 1 \in 1..((n - i) + 1) /\ ((i - 1) + m) + ((k - i) + 1) = k + m
        /\ (i + ((k - i) + 1)) - 1 = k
    BY <1>1, <1>6
  <2>2. r[Len(au) + ((k - i) + 1)] = b[(k - i) + 1]
    BY <1>3, <1>5, <2>1
  <2>3. b[(k - i) + 1] = t[(i + ((k - i) + 1)) - 1]
    BY <1>3, <2>1
  <2> QED BY <1>4, <2>1, <2>2, <2>3
<1> HIDE DEF r
<1>11. Spliced(t, i, u, r)
  BY <1>7, <1>8, <1>9, <1>10 DEF Spliced, n, m
<1>12. SubSeq(t, 1, i - 1) \o u \o SubSeq(t, i, Len(t)) = r
  BY DEF r, au, a, b, n
<1> QED BY <1>5, <1>11, <1>12

\* A line more, and a line less.
LineMore(S, t, i, l, r) ==
    /\ r \in Seq(S) /\ Len(r) = Len(t) + 1
    /\ \A k \in 1..(i - 1) : r[k] = t[k]
    /\ r[i] = l
    /\ \A k \in i..Len(t) : r[k + 1] = t[k]

LEMMA InsertedIs ==
    ASSUME NEW S, NEW t \in Seq(S), NEW l \in S, NEW i \in 1..(Len(t) + 1)
    PROVE  LineMore(S, t, i, l, InsertAt(t, i, l))
<1> DEFINE r == InsertAt(t, i, l)
           u == <<l>>
<1>1. Len(t) \in Nat
  BY LenProperties
<1>2. u \in Seq(S) /\ Len(u) = 1 /\ u[1] = l
  OBVIOUS
<1> HIDE DEF u
<1>3. r = SubSeq(t, 1, i - 1) \o u \o SubSeq(t, i, Len(t))
  BY DEF InsertAt, u
<1> HIDE DEF r
<1>4. r \in Seq(S) /\ Spliced(t, i, u, r)
  BY <1>2, <1>3, SplicedIs
<1>5. (i - 1) + 1 = i /\ 1 \in 1..1
  BY <1>1
<1>6. Len(r) = Len(t) + 1
  BY <1>2, <1>4 DEF Spliced
<1>7. r[i] = l
  <2>1. r[(i - 1) + 1] = u[1]
    BY <1>2, <1>4, <1>5 DEF Spliced
  <2> QED BY <1>2, <1>5, <2>1
<1>8. (\A k \in 1..(i - 1) : r[k] = t[k]) /\ (\A k \in i..Len(t) : r[k + 1] = t[k])
  BY <1>2, <1>4 DEF Spliced
<1> QED BY <1>4, <1>6, <1>7, <1>8 DEF LineMore, r

LEMMA RemovedIs ==
    ASSUME NEW S, NEW t \in Seq(S), NEW i \in 1..Len(t)
    PROVE  /\ RemoveAt(t, i) \in Seq(S) /\ Len(RemoveAt(t, i)) = Len(t) - 1
           /\ \A k \in 1..(i - 1) : RemoveAt(t, i)[k] = t[k]
           /\ \A k \in i..(Len(t) - 1) : RemoveAt(t, i)[k] = t[k + 1]
<1> DEFINE n == Len(t)
           a == SubSeq(t, 1, i - 1)
           b == SubSeq(t, i + 1, n)
           r == a \o b
<1>1. n \in Nat /\ i \in Nat /\ i >= 1 /\ i <= n
  BY LenProperties
<1>2. a \in Seq(S) /\ Len(a) = i - 1 /\ \A k \in 1..(i - 1) : a[k] = t[k]
  <2>1. 1 \in 1..(n + 1) /\ i - 1 \in 0..n /\ 1 <= (i - 1) + 1 /\ ((i - 1) - 1) + 1 = i - 1
    BY <1>1
  <2>2. /\ a \in Seq(S) /\ Len(a) = ((i - 1) - 1) + 1
        /\ \A k \in 1..(((i - 1) - 1) + 1) : a[k] = t[(1 + k) - 1]
    <3> HIDE DEF a
    <3> QED BY <2>1, PartOf DEF a
  <2>3. \A k \in 1..(i - 1) : (1 + k) - 1 = k
    BY <1>1
  <2> QED BY <2>1, <2>2, <2>3
<1>3. b \in Seq(S) /\ Len(b) = n - i /\ \A k \in 1..(n - i) : b[k] = t[i + k]
  <2>1. n \in 0..n /\ i + 1 \in 1..(n + 1) /\ i + 1 <= n + 1 /\ (n - (i + 1)) + 1 = n - i
    BY <1>1
  <2>2. /\ b \in Seq(S) /\ Len(b) = (n - (i + 1)) + 1
        /\ \A k \in 1..((n - (i + 1)) + 1) : b[k] = t[((i + 1) + k) - 1]
    <3> DEFINE lo == i + 1
    <3>1. lo \in 1..(Len(t) + 1) /\ Len(t) \in 0..Len(t) /\ lo <= Len(t) + 1
      BY <2>1
    <3> HIDE DEF lo
    <3>2. /\ SubSeq(t, lo, Len(t)) \in Seq(S)
          /\ Len(SubSeq(t, lo, Len(t))) = (Len(t) - lo) + 1
          /\ \A k \in 1..((Len(t) - lo) + 1) : SubSeq(t, lo, Len(t))[k] = t[(lo + k) - 1]
      BY <3>1, PartOf
    <3> QED BY <3>2 DEF lo
  <2>3. \A k \in 1..(n - i) : ((i + 1) + k) - 1 = i + k
    BY <1>1
  <2> QED BY <2>1, <2>2, <2>3
<1> HIDE DEF a, b, n
<1>4. /\ r \in Seq(S) /\ Len(r) = (i - 1) + (n - i)
      /\ \A k \in 1..(i - 1) : r[k] = a[k]
      /\ \A k \in 1..(n - i) : r[(i - 1) + k] = b[k]
  <2>0. a \in Seq(S) /\ b \in Seq(S)
    BY <1>2, <1>3
  <2>1. /\ r \in Seq(S) /\ Len(r) = Len(a) + Len(b)
        /\ \A k \in 1..Len(a) : r[k] = a[k]
        /\ \A k \in 1..Len(b) : r[Len(a) + k] = b[k]
    BY ONLY <2>0, InARow
  <2> HIDE DEF r
  <2> QED BY <1>2, <1>3, <2>1
<1>5. ASSUME NEW k \in i..(n - 1) PROVE r[k] = t[k + 1]
  <2>1. (k - i) + 1 \in 1..(n - i) /\ (i - 1) + ((k - i) + 1) = k /\ i + ((k - i) + 1) = k + 1
    BY <1>1
  <2>2. r[(i - 1) + ((k - i) + 1)] = b[(k - i) + 1] /\ b[(k - i) + 1] = t[i + ((k - i) + 1)]
    BY <1>3, <1>4, <2>1
  <2> QED BY <2>1, <2>2
<1>6. (i - 1) + (n - i) = n - 1
  BY <1>1
<1>7. r = RemoveAt(t, i)
  BY DEF RemoveAt, a, b, n
<1> HIDE DEF r
<1> QED BY <1>2, <1>4, <1>5, <1>6, <1>7 DEF n

(***************************************************************************)
(* Where a macro is found                                                  *)
(***************************************************************************)

\* ReferencesComeBack, of any document.
LEMMA ReferencesFind ==
    ASSUME NEW S, text \in Seq(S)
    PROVE  ReferencesComeBack
<1>1. Len(text) \in Nat /\ DOMAIN text = 1..Len(text)
  BY LenProperties
<1>2. SUFFICES ASSUME NEW i \in DOMAIN text, text[i].macro # NoMacro, ~ text[i].indented
      PROVE  LET found == provideReferences(text, i)
             IN /\ \A j \in DOMAIN text :
                      (text[j].macro = text[i].macro /\ ~ text[j].indented) =>
                          /\ provideReferences(text, j) = found
                          /\ text[j].is = "call" <=> Location("this", j) \in found
                /\ \A r \in found : text[r.line].macro = text[i].macro
                /\ Cardinality({ r \in found : text[r.line].is = "open" })
                     = (IF \E j \in scanDocumentMacros(text) : text[j].macro = text[i].macro THEN 1 ELSE 0)
  BY Zenon DEF ReferencesComeBack
<1> DEFINE m == text[i].macro
           found == findCallSites(text, m) \cup findDefinitionLocation(text, m)
           defs == { k \in scanDocumentMacros(text) : text[k].macro = m }
           first == { k \in defs : \A j \in defs : k <= j }
           calls == { k \in DOMAIN text : text[k].is = "call" /\ extractCallTarget(text[k]) = m }
<1>3. ASSUME NEW j \in DOMAIN text, text[j].macro = m, ~ text[j].indented
      PROVE  provideReferences(text, j) = found
  BY <1>2, <1>3 DEF provideReferences, extractCallTarget
<1>4. provideReferences(text, i) = found
  BY <1>2, <1>3
<1>5. found = { Location("this", k) : k \in calls } \cup { Location("none", k) : k \in first }
  BY DEF findCallSites, findDefinitionLocation
<1>6. \A d, k : Location(d, k).document = d /\ Location(d, k).line = k
  BY DEF Location
<1>7. ASSUME NEW k \in calls
      PROVE  k \in DOMAIN text /\ text[k].is = "call" /\ text[k].macro = m
  BY <1>2 DEF extractCallTarget
<1>8. ASSUME NEW k \in first
      PROVE  k \in defs /\ k \in DOMAIN text /\ text[k].is = "open" /\ text[k].macro = m
  BY DEF scanDocumentMacros
<1>9. ASSUME NEW j \in DOMAIN text, text[j].macro = m, ~ text[j].indented
      PROVE  text[j].is = "call" <=> j \in calls
  BY <1>9 DEF extractCallTarget
<1> HIDE DEF found, calls
<1>10. ASSUME NEW j PROVE Location("this", j) \in found <=> j \in calls
  <2>1. \A k : Location("this", j) # Location("none", k)
    <3>1. \A k : Location("this", j).document = "this" /\ Location("none", k).document = "none"
      BY <1>6
    <3> QED BY <3>1
  <2>2. \A k : Location("this", j) = Location("this", k) => j = k
    <3>1. \A k : Location("this", k).line = k
      BY <1>6
    <3> QED BY <3>1
  <2> HIDE DEF first
  <2> QED BY <1>5, <2>1, <2>2
<1>11. ASSUME NEW r \in found
       PROVE  text[r.line].macro = m
  <2>1. CASE \E k \in calls : r = Location("this", k)
    BY <1>6, <1>7, <2>1
  <2>2. CASE \E k \in first : r = Location("none", k)
    <3> HIDE DEF first
    <3> QED BY <1>6, <1>8, <2>2
  <2> HIDE DEF first
  <2> QED BY <1>5, <2>1, <2>2
<1>12. { r \in found : text[r.line].is = "open" } = { Location("none", k) : k \in first }
  <2> HIDE DEF first
  <2>1. ASSUME NEW r \in found, text[r.line].is = "open"
        PROVE  \E k \in first : r = Location("none", k)
    <3>1. \A k \in calls : r # Location("this", k)
      <4>1. ASSUME NEW k \in calls, r = Location("this", k) PROVE FALSE
        <5>1. r.line = k
          BY <1>6, <4>1
        <5> QED BY <1>7, <2>1, <5>1
      <4> QED BY <4>1
    <3> QED BY <1>5, <2>1, <3>1
  <2>2. ASSUME NEW k \in first
        PROVE  Location("none", k) \in found /\ text[Location("none", k).line].is = "open"
    BY <1>5, <1>6, <1>8
  <2> QED BY <2>1, <2>2
<1>13. defs \in SUBSET Nat
  BY <1>1 DEF scanDocumentMacros
<1>14. CASE defs = {}
  <2>1. { Location("none", k) : k \in first } = {}
    BY <1>14
  <2>2. Cardinality({ r \in found : text[r.line].is = "open" }) = 0
    BY <1>12, <2>1, FS_EmptySet
  <2>3. ~ \E j \in scanDocumentMacros(text) : text[j].macro = text[i].macro
    BY <1>14
  <2> QED BY <1>3, <1>4, <1>9, <1>10, <1>11, <2>2, <2>3
<1>15. CASE defs # {}
  <2>0. \E k \in first : TRUE
    <3> HIDE DEF defs
    <3> QED BY <1>13, <1>15, MinOf
  <2>1. PICK k \in first : TRUE
    BY <2>0
  <2>2. \A j \in first : j = k
    <3>1. \A j \in first : j \in defs /\ j <= k /\ k <= j /\ k \in defs
      BY <2>1
    <3>2. ASSUME NEW j \in first PROVE j = k
      <4>1. j \in Nat /\ k \in Nat
        <5> HIDE DEF defs, first
        <5> QED BY <1>13, <3>1
      <4>2. j <= k /\ k <= j
        BY <3>1
      <4> QED BY <4>1, <4>2
    <3> QED BY <3>2
  <2>3. { Location("none", j) : j \in first } = {Location("none", k)}
    <3> HIDE DEF first
    <3> QED BY <2>1, <2>2
  <2>4. Cardinality({ r \in found : text[r.line].is = "open" }) = 1
    BY <1>12, <2>3, FS_Singleton
  <2>5. \E j \in scanDocumentMacros(text) : text[j].macro = text[i].macro
    BY <1>15
  <2> QED BY <1>3, <1>4, <1>9, <1>10, <1>11, <2>4, <2>5
<1> QED BY <1>14, <1>15

(***************************************************************************)
(* What the editor keeps                                                   *)
(***************************************************************************)

\* The lines a document can get.
Written ==
    (UNION { w.lines : w \in Workloads }) \cup {Blank}
    \cup { Opener(b) : b \in BLOCK_DIRECTIVES } \cup { Closer(b) : b \in BLOCK_DIRECTIVES }

AroundText ==
    /\ work \in Workloads
    /\ headed \in BOOLEAN /\ opened \in BOOLEAN /\ switching \in BOOLEAN
    /\ language \in {"markdown", "markdownai"}
    /\ stdlib \in {"loading", "loaded", "absent"}
    /\ imported \subseteq Macros /\ settings \in EditorSettings

TextFits == text \in Seq(Written) /\ Len(text) <= work.size + 1

\* A close tag that is about to be inserted belongs behind the blank line
\* behind a line with its name, and has room.
EditFits ==
    \/ edit = NoEdit
    \/ /\ Len(text) <= work.size
       /\ edit.line \in 1..(Len(text) - 1) /\ edit.tag \in AutoClosed
       /\ text[edit.line].name = edit.tag /\ text[edit.line + 1] = Blank

\* What is shown is what the last analysis of the text as it is found.
MarksFit == marks = IF opened THEN Diagnostics(language, text, noted) ELSE {}

EditorInv == AroundText /\ TextFits /\ EditFits /\ MarksFit

LEMMA WorkIs ==
    ASSUME work \in Workloads
    PROVE  /\ work.size \in Nat /\ work.lines \subseteq Written
           /\ work.blocks \subseteq BLOCK_DIRECTIVES
           /\ work.settings \subseteq EditorSettings /\ work.libs \subseteq SUBSET Macros
           /\ work.stdlib \in {"loading", "loaded", "absent"}
BY EditorAssumption DEF Written

LEMMA LinesWritten ==
    /\ Blank \in Written
    /\ \A b \in BLOCK_DIRECTIVES : Opener(b) \in Written /\ Closer(b) \in Written
    /\ AutoClosed \subseteq BLOCK_DIRECTIVES
<1> DEFINE A == UNION { w.lines : w \in Workloads }
           O == { Opener(b) : b \in BLOCK_DIRECTIVES }
           C == { Closer(b) : b \in BLOCK_DIRECTIVES }
<1>0. Written = A \cup {Blank} \cup O \cup C
  BY DEF Written
<1>1. Blank \in Written
  <2> HIDE DEF A, O, C
  <2> QED BY <1>0
<1>2. ASSUME NEW b \in BLOCK_DIRECTIVES PROVE Opener(b) \in Written /\ Closer(b) \in Written
  <2>1. Opener(b) \in O /\ Closer(b) \in C
    OBVIOUS
  <2> HIDE DEF A, O, C
  <2> QED BY <1>0, <2>1
<1>3. AutoClosed \subseteq BLOCK_DIRECTIVES
  BY DEF AutoClosed, BLOCK_DIRECTIVES, Counted
<1> QED BY <1>1, <1>2, <1>3

LEMMA EditorStarts == EditorInit => EditorInv
<1> SUFFICES ASSUME EditorInit PROVE EditorInv
  OBVIOUS
<1>1. work \in Workloads
  BY DEF EditorInit
<1>2. AroundText
  BY <1>1, WorkIs DEF EditorInit, AroundText, EditorSettings
<1>3. TextFits
  <2>1. <<>> \in Seq(Written) /\ Len(<<>>) = 0
    OBVIOUS
  <2>2. 0 <= work.size + 1
    BY <1>1, WorkIs
  <2> QED BY <2>1, <2>2 DEF EditorInit, TextFits
<1> QED BY <1>2, <1>3 DEF EditorInit, EditorInv, EditFits, MarksFit

\* A change of the text is analyzed.
LEMMA ChangeKeeps ==
    ASSUME EditorInv, NEW t \in Seq(Written), Len(t) <= work.size + 1, Changes(t), EditFits'
    PROVE  EditorInv'
<1>1. AroundText'
  BY DEF EditorInv, AroundText, Changes
<1>2. TextFits'
  BY DEF Changes, TextFits
<1>3. MarksFit'
  BY DEF Changes, Analyze, MarksFit
<1> QED BY <1>1, <1>2, <1>3 DEF EditorInv

\* Opening a document and giving it another language.
LEMMA OpeningKeeps ==
    ASSUME EditorInv, NEW lang \in {"markdown", "markdownai"}, Opens(lang)
    PROVE  EditorInv'
<1>1. AroundText'
  BY DEF EditorInv, AroundText, Opens
<1>2. TextFits'
  BY DEF EditorInv, Opens, TextFits
<1>3. MarksFit'
  BY DEF Opens, Analyze, MarksFit
<1>4. EditFits'
  BY DEF Opens, EditFits
<1> QED BY <1>1, <1>2, <1>3, <1>4 DEF EditorInv

\* What no analysis has seen.
LEMMA UnseenKeeps ==
    ASSUME EditorInv, Unseen, stdlib' \in {"loading", "loaded", "absent"},
           imported' \subseteq Macros, settings' \in EditorSettings
    PROVE  EditorInv'
<1>1. AroundText'
  BY DEF EditorInv, AroundText, Unseen
<1>2. TextFits' /\ EditFits' /\ MarksFit'
  BY DEF EditorInv, Unseen, TextFits, EditFits, MarksFit
<1> QED BY <1>1, <1>2 DEF EditorInv

LEMMA TextIs ==
    ASSUME EditorInv
    PROVE  /\ work \in Workloads /\ work.size \in Nat
           /\ text \in Seq(Written) /\ Len(text) \in Nat /\ DOMAIN text = 1..Len(text)
           /\ Len(text) <= work.size + 1
<1>1. work \in Workloads /\ text \in Seq(Written) /\ Len(text) <= work.size + 1
  BY DEF EditorInv, AroundText, TextFits
<1>2. Len(text) \in Nat /\ DOMAIN text = 1..Len(text)
  BY <1>1, LenProperties
<1> QED BY <1>1, <1>2, WorkIs

LEMMA WritingKeeps ==
    ASSUME EditorInv, NEW i \in 1..(Len(text) + 1), NEW l \in work.lines, WriteLine(i, l)
    PROVE  EditorInv'
<1> DEFINE t == InsertAt(text, i, l)
<1>1. l \in Written
  BY TextIs, WorkIs
<1>2. t \in Seq(Written) /\ Len(t) = Len(text) + 1
  <2>1. text \in Seq(Written)
    BY TextIs
  <2>2. LineMore(Written, text, i, l, InsertAt(text, i, l))
    BY ONLY <1>1, <2>1, InsertedIs
  <2> QED BY ONLY <2>2 DEF LineMore
<1>3. Len(text) < work.size /\ Changes(t) /\ edit' = NoEdit
  BY DEF WriteLine
<1> HIDE DEF t
<1>4. Len(t) <= work.size + 1
  BY <1>2, <1>3, TextIs
<1>5. EditFits'
  BY <1>3 DEF EditFits
<1> QED BY <1>2, <1>3, <1>4, <1>5, ChangeKeeps

LEMMA ErasingKeeps ==
    ASSUME EditorInv, NEW i \in DOMAIN text, Erase(i)
    PROVE  EditorInv'
<1> DEFINE t == RemoveAt(text, i)
<1>1. i \in 1..Len(text)
  BY TextIs
<1>2. t \in Seq(Written) /\ Len(t) = Len(text) - 1
  BY <1>1, TextIs, RemovedIs
<1>3. Changes(t) /\ edit' = NoEdit
  BY DEF Erase
<1> HIDE DEF t
<1>4. Len(t) <= work.size + 1
  BY <1>2, TextIs
<1>5. EditFits'
  BY <1>3 DEF EditFits
<1> QED BY <1>2, <1>3, <1>4, <1>5, ChangeKeeps

LEMMA BreakingKeeps ==
    ASSUME EditorInv, NEW i \in DOMAIN text, Enter(i)
    PROVE  EditorInv'
<1> DEFINE t == InsertAt(text, i + 1, Blank)
<1>1. i \in 1..Len(text) /\ i + 1 \in 1..(Len(text) + 1) /\ i \in 1..((i + 1) - 1)
  BY TextIs
<1>2. /\ t \in Seq(Written) /\ Len(t) = Len(text) + 1
      /\ t[i] = text[i] /\ t[i + 1] = Blank
  <2>1. Blank \in Written /\ text \in Seq(Written)
    BY TextIs, LinesWritten
  <2> DEFINE j == i + 1
  <2>2. j \in 1..(Len(text) + 1) /\ i \in 1..(j - 1)
    BY <1>1
  <2> HIDE DEF j
  <2>3. /\ InsertAt(text, j, Blank) \in Seq(Written)
        /\ Len(InsertAt(text, j, Blank)) = Len(text) + 1
        /\ \A k \in 1..(j - 1) : InsertAt(text, j, Blank)[k] = text[k]
        /\ InsertAt(text, j, Blank)[j] = Blank
    <3>1. LineMore(Written, text, j, Blank, InsertAt(text, j, Blank))
      BY ONLY <2>1, <2>2, InsertedIs
    <3> QED BY ONLY <3>1 DEF LineMore
  <2>4. t = InsertAt(text, j, Blank) /\ i + 1 = j
    BY DEF j
  <2>5. t[i] = text[i]
    BY <2>2, <2>3, <2>4, Zenon
  <2> HIDE DEF t
  <2> QED BY <2>3, <2>4, <2>5
<1>3. Len(text) < work.size /\ Changes(t)
  BY DEF Enter
<1>4. text' = t /\ work' = work
  BY <1>3 DEF Changes
<1>5. edit' = NoEdit \/ (edit' = [line |-> i, tag |-> text[i].name] /\ ToClose(text[i]))
  BY DEF Enter
<1> HIDE DEF t
<1>6. Len(t) <= work.size /\ Len(t) <= work.size + 1 /\ i \in 1..(Len(t) - 1)
  BY <1>1, <1>2, <1>3, TextIs
<1>7. EditFits'
  <2>1. CASE edit' = NoEdit
    BY <2>1 DEF EditFits
  <2>2. CASE edit' = [line |-> i, tag |-> text[i].name] /\ ToClose(text[i])
    <3>1. edit'.line = i /\ edit'.tag = text[i].name /\ text[i].name \in AutoClosed
      BY <2>2 DEF ToClose
    <3>2. /\ Len(text') <= work'.size
          /\ edit'.line \in 1..(Len(text') - 1)
          /\ edit'.tag \in AutoClosed
          /\ text'[edit'.line].name = edit'.tag /\ text'[edit'.line + 1] = Blank
      <4>1. Len(text') <= work'.size /\ edit'.line \in 1..(Len(text') - 1) /\ edit'.tag \in AutoClosed
        BY <1>4, <1>6, <3>1
      <4>2. text'[edit'.line].name = edit'.tag
        BY <1>2, <1>4, <3>1
      <4>3. text'[edit'.line + 1] = Blank
        BY <1>2, <1>4, <3>1
      <4> QED BY <4>1, <4>2, <4>3
    <3> QED BY <3>1, <3>2 DEF EditFits
  <2> QED BY <1>5, <2>1, <2>2
<1> QED BY <1>2, <1>3, <1>6, <1>7, ChangeKeeps

LEMMA ClosingTagKeeps ==
    ASSUME EditorInv, InsertCloser
    PROVE  EditorInv'
<1> DEFINE j == edit.line + 2
           l == Closer(edit.tag)
           t == InsertAt(text, j, l)
<1>1. /\ Len(text) <= work.size /\ edit.line \in 1..(Len(text) - 1) /\ edit.tag \in AutoClosed
      /\ Changes(Inserted) /\ edit' = NoEdit
  BY DEF EditorInv, EditFits, InsertCloser
<1>2. j \in 1..(Len(text) + 1)
  BY <1>1, TextIs
<1>3. l \in Written
  BY <1>1, LinesWritten
<1>4. t = Inserted
  BY DEF Inserted
<1> HIDE DEF j, l
<1>5. t \in Seq(Written) /\ Len(t) = Len(text) + 1
  <2>1. text \in Seq(Written)
    BY TextIs
  <2>2. InsertAt(text, j, l) \in Seq(Written) /\ Len(InsertAt(text, j, l)) = Len(text) + 1
    <3>1. LineMore(Written, text, j, l, InsertAt(text, j, l))
      BY ONLY <1>2, <1>3, <2>1, InsertedIs
    <3> QED BY ONLY <3>1 DEF LineMore
  <2> QED BY <2>2
<1> HIDE DEF t
<1>6. Len(t) <= work.size + 1
  BY <1>1, <1>5, TextIs
<1>7. EditFits'
  BY <1>1 DEF EditFits
<1>8. Changes(t)
  BY <1>1, <1>4
<1> QED BY <1>5, <1>6, <1>7, <1>8, ChangeKeeps

LEMMA SnippetIs ==
    ASSUME NEW b \in BLOCK_DIRECTIVES
    PROVE  /\ SnippetOf(b) \in Seq(Written) /\ Len(SnippetOf(b)) = 3
           /\ SnippetOf(b)[1] = Blank /\ SnippetOf(b)[2] = Blank /\ SnippetOf(b)[3] = Closer(b)
<1>1. Blank \in Written /\ Closer(b) \in Written
  BY LinesWritten
<1> QED BY <1>1 DEF SnippetOf, Doubled

LEMMA CompletingKeeps ==
    ASSUME EditorInv, NEW i \in 1..(Len(text) + 1), NEW b \in work.blocks, Complete(b, i)
    PROVE  EditorInv'
<1> DEFINE u == SnippetOf(b)
           t == SubSeq(text, 1, i - 1) \o u \o SubSeq(text, i, Len(text))
<1>1. b \in BLOCK_DIRECTIVES
  BY TextIs, WorkIs
<1>2. Len(text) + 3 <= work.size /\ Changes(t) /\ edit' = NoEdit
  BY DEF Complete
<1>3. u \in Seq(Written) /\ Len(u) = 3
  BY <1>1, SnippetIs
<1> HIDE DEF u
<1>4. t \in Seq(Written) /\ Spliced(text, i, u, t)
  BY <1>3, TextIs, SplicedIs
<1> HIDE DEF t
<1>5. Len(t) = Len(text) + 3
  BY <1>3, <1>4 DEF Spliced
<1>6. Len(t) <= work.size + 1
  BY <1>2, <1>5, TextIs
<1>7. EditFits'
  BY <1>2 DEF EditFits
<1> QED BY <1>2, <1>4, <1>6, <1>7, ChangeKeeps

LEMMA EditorStepKeeps ==
    ASSUME EditorInv, EditorNext
    PROVE  EditorInv'
<1>1. CASE Open
  BY <1>1, OpeningKeeps DEF Open
<1>2. CASE SwitchLanguage
  BY <1>2, OpeningKeeps DEF SwitchLanguage
<1>3. CASE Close
  <2>1. AroundText'
    BY <1>3 DEF EditorInv, AroundText, Close
  <2>2. TextFits' /\ EditFits' /\ MarksFit'
    BY <1>3 DEF EditorInv, TextFits, EditFits, MarksFit, Close
  <2> QED BY <2>1, <2>2 DEF EditorInv
<1>4. CASE InsertCloser
  BY <1>4, ClosingTagKeeps
<1>5. ASSUME NEW lang \in {"markdown", "markdownai"}, ChooseLanguage(lang)
      PROVE  EditorInv'
  BY <1>5, OpeningKeeps DEF ChooseLanguage
<1>6. ASSUME NEW i \in 1..(Len(text) + 1), NEW l \in work.lines, WriteLine(i, l)
      PROVE  EditorInv'
  BY <1>6, WritingKeeps
<1>7. ASSUME NEW i \in DOMAIN text, Erase(i) \/ Enter(i)
      PROVE  EditorInv'
  BY <1>7, ErasingKeeps, BreakingKeeps
<1>8. ASSUME NEW i \in 1..(Len(text) + 1), NEW b \in work.blocks, Complete(b, i)
      PROVE  EditorInv'
  BY <1>8, CompletingKeeps
<1>9. stdlib \in {"loading", "loaded", "absent"} /\ imported \subseteq Macros /\ settings \in EditorSettings
      /\ work \in Workloads
  BY DEF EditorInv, AroundText
<1>10. CASE ReadStdlib
  BY <1>9, <1>10, UnseenKeeps DEF ReadStdlib
<1>11. ASSUME NEW ms \in work.libs, EditImported(ms)
       PROVE  EditorInv'
  <2>1. ms \subseteq Macros
    BY <1>9, WorkIs
  <2> QED BY <1>9, <1>11, <2>1, UnseenKeeps DEF EditImported
<1>12. ASSUME NEW s \in work.settings, Configure(s)
       PROVE  EditorInv'
  <2>1. s \in EditorSettings
    BY <1>9, WorkIs
  <2> QED BY <1>9, <1>12, <2>1, UnseenKeeps DEF Configure
<1> QED BY <1>1, <1>2, <1>3, <1>4, <1>5, <1>6, <1>7, <1>8, <1>10, <1>11, <1>12 DEF EditorNext

LEMMA EditorIsTyped == ASSUME EditorInv PROVE EditorTypeOK
<1>1. DOMAIN text = 1..Len(text) /\ Len(text) \in Nat /\ text \in Seq(Written)
  BY TextIs
<1>2. edit = NoEdit \/ (edit.line \in 1..Len(text) /\ edit.tag \in AutoClosed)
  BY <1>1 DEF EditorInv, EditFits
<1>3. ASSUME NEW k \in marks
      PROVE  /\ k.line \in DOMAIN text
             /\ k.what \in {"stray close", "stray else", "unclosed", "undefined"}
  <2> DEFINE known == getMacros(text, noted.lib, noted.std)
             found == analyzeDiagnostics(text, known)
  <2>1. marks \subseteq found
    BY DEF EditorInv, MarksFit, Diagnostics
  <2> HIDE DEF known
  <2>2. Diagnosed(text, known, found)
    BY <1>1, DocumentsAreDiagnosed
  <2> HIDE DEF found
  <2> QED BY <1>3, <2>1, <2>2 DEF Diagnosed
<1> QED BY <1>2, <1>3 DEF EditorInv, AroundText, TextFits, EditorTypeOK

LEMMA MarksStayCurrent == ASSUME EditorInv PROVE MarksAreCurrent
<1> DEFINE known == getMacros(text, noted.lib, noted.std)
           found == analyzeDiagnostics(text, known)
           errors == { k \in marks : k.what # "undefined" }
           calls == { i \in DOMAIN text : noted.warn /\ text[i].is = "call" /\ text[i].macro \notin known }
<1>1. text \in Seq(Written)
  BY TextIs
<1>2. CASE ~ (opened /\ language = "markdownai" /\ noted.enabled)
  <2>1. marks = {}
    BY <1>2 DEF EditorInv, MarksFit, Diagnostics
  <2> QED BY <1>2, <2>1 DEF MarksAreCurrent
<1>3. CASE opened /\ language = "markdownai" /\ noted.enabled
  <2>1. marks = IF noted.warn THEN found ELSE { k \in found : k.what # "undefined" }
    BY <1>3 DEF EditorInv, MarksFit, Diagnostics
  <2>2. Diagnosed(text, known, found)
    <3> HIDE DEF known
    <3> QED BY <1>1, DocumentsAreDiagnosed
  <2> HIDE DEF known, found
  <2>3. /\ Cardinality(Errors(found)) = Unmatched(text, IsIf) + Unmatched(text, IsBlock)
                                        + Cardinality(StrayElses(text))
        /\ { k.line : k \in found \ Errors(found) } = UndefinedCalls(text, known)
    BY <2>2 DEF Diagnosed
  <2>4. errors = Errors(found)
    BY <2>1 DEF Errors
  <2>5. CASE noted.warn
    <3>1. marks = found
      BY <2>1, <2>5
    <3>2. calls = UndefinedCalls(text, known)
      BY <2>5 DEF UndefinedCalls
    <3>3. { k.line : k \in marks \ errors } = calls
      <4> HIDE DEF errors, calls
      <4> QED BY <2>3, <2>4, <3>1, <3>2
    <3> HIDE DEF errors, calls
    <3> QED BY <1>3, <2>3, <2>4, <3>3 DEF MarksAreCurrent, errors, calls, known
  <2>6. CASE ~ noted.warn
    <3>1. marks \ errors = {} /\ calls = {}
      BY <2>1, <2>6
    <3>2. { k.line : k \in marks \ errors } = calls
      <4> HIDE DEF errors, calls
      <4> QED BY <3>1
    <3> HIDE DEF errors, calls
    <3> QED BY <1>3, <2>3, <2>4, <3>2 DEF MarksAreCurrent, errors, calls, known
  <2> QED BY <2>5, <2>6
<1> QED BY <1>2, <1>3

LEMMA EditorGoesOn == EditorInv /\ [AuthoringNext]_authoringVars => EditorInv'
<1>1. ASSUME EditorInv, UNCHANGED editorVars PROVE EditorInv'
  <2>1. AroundText'
    BY <1>1 DEF EditorInv, AroundText, editorVars
  <2>2. TextFits' /\ EditFits' /\ MarksFit'
    BY <1>1 DEF EditorInv, TextFits, EditFits, MarksFit, editorVars
  <2> QED BY <2>1, <2>2 DEF EditorInv
<1>2. ASSUME EditorInv, AuthoringNext PROVE EditorInv'
  BY <1>1, <1>2, EditorStepKeeps DEF AuthoringNext
<1> QED BY <1>1, <1>2 DEF authoringVars

\* What the author sees is of the document as it is (diagnostics-provider.ts:
\* 20-54, diagnostics-engine.ts:22-121, reference-provider.ts:5-41,
\* macro-registry.ts:116-142): for all lines an author may write and documents
\* of any length.
THEOREM AuthorSeesTheDocument == AuthoringSpec => []EditorKeepsUp
<1>1. AuthoringInit => EditorInv
  BY EditorStarts DEF AuthoringInit
<1>2. EditorInv /\ [AuthoringNext]_authoringVars => EditorInv'
  BY EditorGoesOn
<1>3. EditorInv => EditorKeepsUp
  BY EditorIsTyped, MarksStayCurrent, ReferencesFind, TextIs DEF EditorKeepsUp
<1> QED BY <1>1, <1>2, <1>3, PTL DEF AuthoringSpec

(***************************************************************************)
(* What is typed for the author                                            *)
(***************************************************************************)

\* open is the blocks that are open behind each of the n lines of t.
Nested(open, t, n) ==
    open = [k \in 0..n |-> IF k = 0 THEN <<>> ELSE Nest(open[k - 1], t[k])]

\* The recursion of Nests has a solution.
LEMMA NestedExists ==
    ASSUME NEW t, NEW n \in Nat
    PROVE  \E open : Nested(open, t, n)
<1> DEFINE J == {m \in Nat : \E open : Nested(open, t, m)}
<1>1. \A m \in Nat : m \in J <=> \E open : Nested(open, t, m)
  OBVIOUS
<1> HIDE DEF J
<1>2. 0 \in J
  <2>1. Nested([k \in 0..0 |-> <<>>], t, 0)
    BY DEF Nested
  <2> QED BY <2>1, <1>1
<1>3. ASSUME NEW m \in 0..n, m < n, m \in J
      PROVE  m + 1 \in J
  <2>1. PICK g : Nested(g, t, m)
    BY <1>1, <1>3
  <2> DEFINE h == [k \in 0..m + 1 |-> IF k = 0 THEN <<>> ELSE Nest(g[k - 1], t[k])]
  <2>2. \A k \in 0..m : g[k] = IF k = 0 THEN <<>> ELSE Nest(g[k - 1], t[k])
    BY <2>1, Zenon DEF Nested
  <2>3. \A k \in 0..m + 1 : h[k] = IF k = 0 THEN <<>> ELSE Nest(g[k - 1], t[k])
    BY Zenon
  <2>4. h = [k \in 0..m + 1 |-> h[k]]
    OBVIOUS
  <2> HIDE DEF h
  <2>5. \A k \in 0..m + 1 : h[k] = IF k = 0 THEN <<>> ELSE Nest(h[k - 1], t[k])
    <3>1. TAKE k \in 0..m + 1
    <3>2. CASE k = 0
      BY <2>3, <3>2
    <3>3. CASE k # 0
      <4>1. k - 1 \in 0..m /\ k - 1 \in 0..m + 1
        BY <3>3
      <4>2. h[k - 1] = g[k - 1]
        BY <2>2, <2>3, <4>1
      <4> QED BY <2>3, <3>3, <4>2
    <3> QED BY <3>2, <3>3
  <2>6. Nested(h, t, m + 1)
    BY <2>4, <2>5 DEF Nested
  <2> QED BY <2>6, <1>1
<1>4. \A m \in 0..n : m \in J
  BY <1>2, <1>3, HandedFrom
<1> QED BY <1>1, <1>4

LEMMA NestedIs ==
    ASSUME NEW open, NEW t, NEW n \in Nat, Nested(open, t, n)
    PROVE  /\ open[0] = <<>>
           /\ \A k \in 1..n : open[k] = Nest(open[k - 1], t[k])
<1>1. \A k \in 0..n : open[k] = IF k = 0 THEN <<>> ELSE Nest(open[k - 1], t[k])
  BY Zenon DEF Nested
<1>2. 0 \in 0..n /\ \A k \in 1..n : k \in 0..n /\ k # 0
  OBVIOUS
<1> QED BY <1>1, <1>2

LEMMA NestsIs ==
    ASSUME NEW S, NEW t \in Seq(S)
    PROVE  \E open : Nested(open, t, Len(t)) /\ (Nests(t) <=> open[Len(t)] = <<>>)
<1> DEFINE n == Len(t)
           open == CHOOSE f : Nested(f, t, n)
<1>1. n \in Nat
  BY LenProperties
<1>2. Nests(t) <=> open[n] = <<>>
  BY DEF Nests, Nested
<1>3. Nested(open, t, n)
  <2> HIDE DEF n
  <2> QED BY <1>1, NestedExists
<1> HIDE DEF open
<1> QED BY <1>2, <1>3

\* A line with a name of N.
LEMMA NestType ==
    ASSUME NEW N, "torn" \in N, NEW s \in Seq(N), NEW l, l.name \in N
    PROVE  Nest(s, l) \in Seq(N)
<1>1. CASE l.is = "open"
  <2>1. Append(s, l.name) \in Seq(N)
    BY AppendProperties
  <2> QED BY <1>1, <2>1 DEF Nest
<1>2. CASE l.is = "close"
  <2>1. CASE s # <<>> /\ Last(s) = l.name
    <3>1. Len(s) \in Nat /\ Len(s) # 0
      BY <2>1, EmptySeq
    <3>2. 1 \in 1..(Len(s) + 1) /\ Len(s) - 1 \in 0..Len(s) /\ 1 <= (Len(s) - 1) + 1
      BY <3>1
    <3>3. Front(s) \in Seq(N)
      BY <3>2, PartOf DEF Front
    <3> QED BY <1>2, <2>1, <3>3 DEF Nest
  <2>2. CASE ~ (s # <<>> /\ Last(s) = l.name)
    <3>1. <<"torn">> \o s \in Seq(N)
      <4>1. <<"torn">> \in Seq(N)
        OBVIOUS
      <4> QED BY <4>1, ConcatProperties
    <3> QED BY <1>2, <2>2, <3>1 DEF Nest
  <2> QED BY <2>1, <2>2
<1>3. CASE l.is # "open" /\ l.is # "close"
  BY <1>3 DEF Nest
<1> QED BY <1>1, <1>2, <1>3

LEMMA NestedType ==
    ASSUME NEW N, "torn" \in N, NEW open, NEW t, NEW n \in Nat, Nested(open, t, n),
           \A k \in 1..n : t[k].name \in N
    PROVE  \A k \in 0..n : open[k] \in Seq(N)
<1> DEFINE J == { k \in 0..n : open[k] \in Seq(N) }
<1>1. 0 \in J
  <2>1. open[0] = <<>> /\ <<>> \in Seq(N) /\ 0 \in 0..n
    BY NestedIs
  <2> QED BY <2>1
<1>2. ASSUME NEW k \in 0..n, k < n, k \in J PROVE k + 1 \in J
  <2>1. k + 1 \in 1..n /\ k + 1 \in 0..n /\ (k + 1) - 1 = k
    BY <1>2
  <2>2. open[k + 1] = Nest(open[k], t[k + 1])
    BY <2>1, NestedIs
  <2>3. t[k + 1].name \in N /\ open[k] \in Seq(N)
    BY <1>2, <2>1
  <2>4. Nest(open[k], t[k + 1]) \in Seq(N)
    BY <2>3, NestType
  <2> QED BY <2>1, <2>2, <2>4
<1>3. \A k \in J : open[k] \in Seq(N)
  OBVIOUS
<1> HIDE DEF J
<1>4. \A k \in 0..n : k \in J
  BY <1>1, <1>2, HandedFrom
<1> QED BY <1>3, <1>4

\* Where two documents have the same lines, d lines apart, and the same blocks
\* are open before them, the same are open behind them.
SameOpen(f, g, k, d) == g[k + d] = f[k]

LinesApart(t, u, a, b, d) == \A k \in (a + 1)..b : u[k + d] = t[k]

LEMMA NestsAlike ==
    ASSUME NEW f, NEW t, NEW n \in Nat, Nested(f, t, n),
           NEW g, NEW u, NEW m \in Nat, Nested(g, u, m),
           NEW a \in Nat, NEW b \in Nat, NEW d \in Nat, a <= b, b <= n, b + d <= m,
           SameOpen(f, g, a, d), LinesApart(t, u, a, b, d)
    PROVE  SameOpen(f, g, b, d)
<1> DEFINE J == { k \in a..b : g[k + d] = f[k] }
<1>1. a \in J
  BY DEF SameOpen
<1>2. ASSUME NEW k \in a..b, k < b, k \in J PROVE k + 1 \in J
  <2>1. /\ k + 1 \in a..b /\ k + 1 \in (a + 1)..b /\ k + 1 \in 1..n /\ (k + 1) + d \in 1..m
        /\ (k + 1) - 1 = k /\ ((k + 1) + d) - 1 = k + d
    BY <1>2
  <2>2. f[k + 1] = Nest(f[k], t[k + 1])
    BY <2>1, NestedIs
  <2>3. g[(k + 1) + d] = Nest(g[k + d], u[(k + 1) + d])
    BY <2>1, NestedIs
  <2>4. g[k + d] = f[k] /\ u[(k + 1) + d] = t[k + 1]
    BY <1>2, <2>1 DEF LinesApart
  <2> QED BY <2>1, <2>2, <2>3, <2>4
<1>3. \A k \in J : g[k + d] = f[k]
  OBVIOUS
<1> HIDE DEF J
<1>4. \A k \in a..b : k \in J
  BY <1>1, <1>2, HandedFrom
<1>5. b \in a..b
  OBVIOUS
<1> QED BY <1>3, <1>4, <1>5 DEF SameOpen

\* A whole block leaves open what was open.
LEMMA BlockNests ==
    ASSUME NEW N, NEW s \in Seq(N), NEW o, NEW c, o.is = "open", o.name \in N,
           c.is = "close", c.name = o.name
    PROVE  Nest(Nest(Nest(s, o), Blank), c) = s
<1> DEFINE p == Append(s, o.name)
<1>1. Nest(s, o) = p
  BY DEF Nest
<1>2. Blank.is = "text"
  BY DEF Blank, Line
<1>3. Nest(p, Blank) = p
  BY <1>2 DEF Nest
<1>4. /\ p \in Seq(N) /\ p # <<>> /\ Len(p) = Len(s) + 1
      /\ \A i \in 1..Len(s) : p[i] = s[i]
      /\ p[Len(s) + 1] = o.name
  BY AppendProperties
<1>5. Len(s) \in Nat
  BY LenProperties
<1> HIDE DEF p
<1>6. Last(p) = c.name
  BY <1>4 DEF Last
<1>7. Front(p) = s
  <2>1. Front(p) = SubSeq(p, 1, Len(s))
    BY <1>4, <1>5 DEF Front
  <2>2. 1 \in 1..(Len(p) + 1) /\ Len(s) \in 0..Len(p) /\ 1 <= Len(s) + 1 /\ (Len(s) - 1) + 1 = Len(s)
    BY <1>4, <1>5
  <2>3. /\ SubSeq(p, 1, Len(s)) \in Seq(N) /\ Len(SubSeq(p, 1, Len(s))) = (Len(s) - 1) + 1
        /\ \A i \in 1..((Len(s) - 1) + 1) : SubSeq(p, 1, Len(s))[i] = p[(1 + i) - 1]
    BY <1>4, <2>2, PartOf
  <2>4. \A i \in 1..Len(s) : (1 + i) - 1 = i
    BY <1>5
  <2>5. Front(p) \in Seq(N) /\ Len(Front(p)) = Len(s) /\ \A i \in 1..Len(s) : Front(p)[i] = s[i]
    BY <1>4, <2>1, <2>2, <2>3, <2>4
  <2> QED BY <2>5, SeqEqual
<1>8. Nest(p, c) = s
  BY <1>4, <1>6, <1>7 DEF Nest
<1> QED BY <1>1, <1>3, <1>8

\* Three lines that are a whole block.
IsBlockOfThree(u) ==
    /\ Len(u) = 3 /\ u[1].is = "open" /\ u[2] = Blank /\ u[3] = Closer(u[1].name)

LEMMA SplicedNests ==
    ASSUME NEW S, NEW t \in Seq(S), NEW r \in Seq(S), NEW u \in Seq(S), NEW i \in 1..(Len(t) + 1),
           Spliced(t, i, u, r), IsBlockOfThree(u), Nests(t)
    PROVE  Nests(r)
<1> DEFINE n == Len(t)
           m == Len(r)
           N == { l.name : l \in S } \cup {"torn"}
           a == i - 1
<1>1. n \in Nat /\ a \in Nat /\ a <= n /\ m = n + 3 /\ m \in Nat /\ i = a + 1
  <2>1. Len(t) \in Nat /\ Len(u) = 3
    BY LenProperties DEF IsBlockOfThree
  <2> QED BY <2>1 DEF Spliced
<1>2. PICK f : Nested(f, t, n) /\ f[n] = <<>>
  BY NestsIs
<1>3. PICK g : Nested(g, r, m) /\ (Nests(r) <=> g[m] = <<>>)
  BY NestsIs
<1>4. /\ \A k \in 1..a : r[k] = t[k]
      /\ \A k \in (a + 1)..n : r[k + 3] = t[k]
      /\ r[a + 1] = u[1] /\ r[a + 2] = u[2] /\ r[a + 3] = u[3]
  <2>1. Len(u) = 3 /\ 1 \in 1..3 /\ 2 \in 1..3 /\ 3 \in 1..3
    BY DEF IsBlockOfThree
  <2>2. /\ \A k \in 1..(i - 1) : r[k] = t[k]
        /\ \A k \in 1..3 : r[(i - 1) + k] = u[k]
        /\ \A k \in i..Len(t) : r[k + 3] = t[k]
    BY <2>1 DEF Spliced
  <2> QED BY <1>1, <2>1, <2>2
<1>5. "torn" \in N /\ \A l \in S : l.name \in N
  OBVIOUS
<1>6. /\ \A k \in 1..m : r[k].name \in N
      /\ u[1].name \in N
  <2>1. \A k \in 1..m : r[k] \in S
    BY ElementOfSeq
  <2>2. u[1] \in S
    <3>1. 1 \in 1..Len(u)
      BY DEF IsBlockOfThree
    <3> QED BY <3>1, ElementOfSeq
  <2> HIDE DEF N
  <2> QED BY <1>5, <2>1, <2>2
<1> HIDE DEF n, m, N, a
<1>7. g[a] = f[a]
  <2>1. g[0] = <<>> /\ f[0] = <<>>
    BY <1>1, <1>2, <1>3, NestedIs
  <2> DEFINE z == 0
  <2>2. /\ z \in Nat /\ z <= a /\ a + z <= m /\ a + z = a
        /\ LinesApart(t, r, z, a, z) /\ SameOpen(f, g, z, z)
    BY <1>1, <1>4, <2>1 DEF LinesApart, SameOpen
  <2> HIDE DEF z
  <2>3. SameOpen(f, g, a, z)
    BY <1>1, <1>2, <1>3, <2>2, NestsAlike
  <2> QED BY <2>2, <2>3 DEF SameOpen
<1>8. g[a + 3] = g[a]
  <2>1. /\ a + 1 \in 1..m /\ a + 2 \in 1..m /\ a + 3 \in 1..m /\ a \in 0..m
        /\ (a + 1) - 1 = a /\ (a + 2) - 1 = a + 1 /\ (a + 3) - 1 = a + 2
    BY <1>1
  <2>2. /\ g[a + 1] = Nest(g[a], u[1]) /\ g[a + 2] = Nest(g[a + 1], u[2])
        /\ g[a + 3] = Nest(g[a + 2], u[3])
    <3>1. \A k \in 1..m : g[k] = Nest(g[k - 1], r[k])
      BY <1>1, <1>3, NestedIs
    <3> QED BY <1>4, <2>1, <3>1
  <2>3. g[a] \in Seq(N)
    <3>1. \A k \in 0..m : g[k] \in Seq(N)
      BY <1>1, <1>3, <1>5, <1>6, NestedType
    <3> QED BY <2>1, <3>1
  <2>4. /\ u[1].is = "open" /\ u[2] = Blank
        /\ u[3].is = "close" /\ u[3].name = u[1].name
    BY DEF IsBlockOfThree, Closer, Line
  <2>5. Nest(Nest(Nest(g[a], u[1]), Blank), u[3]) = g[a]
    BY <1>6, <2>3, <2>4, BlockNests
  <2> QED BY <2>2, <2>4, <2>5
<1>9. g[n + 3] = f[n]
  <2> DEFINE d == 3
  <2>1. /\ d \in Nat /\ n <= n /\ n + d <= m /\ SameOpen(f, g, a, d)
        /\ LinesApart(t, r, a, n, d)
    BY <1>1, <1>4, <1>7, <1>8 DEF LinesApart, SameOpen
  <2> HIDE DEF d
  <2>2. SameOpen(f, g, n, d)
    BY <1>1, <1>2, <1>3, <2>1, NestsAlike
  <2> QED BY <2>2 DEF SameOpen, d
<1> QED BY <1>1, <1>2, <1>3, <1>9

\* The close tag that is added.
LEMMA CloserFits ==
    ASSUME EditorInv, InsertCloser, text[edit.line].is = "open",
           Nests(RemoveAt(RemoveAt(text, edit.line), edit.line))
    PROVE  Nests(text')
<1> DEFINE e == edit.line
           n == Len(text)
           s == RemoveAt(text, e)
           t == RemoveAt(s, e)
           j == e + 2
           l == Closer(edit.tag)
           r == InsertAt(text, j, l)
           u == <<text[e], Blank, l>>
<1>1. n \in Nat /\ text \in Seq(Written)
  BY TextIs
<1>2. /\ e \in 1..(n - 1) /\ edit.tag \in AutoClosed
      /\ text[e].name = edit.tag /\ text[e + 1] = Blank
  BY DEF EditorInv, EditFits, InsertCloser
<1>3. text' = r
  BY DEF InsertCloser, Changes, Inserted
<1>4. l \in Written /\ Blank \in Written /\ text[e] \in Written
  <2>1. l \in Written /\ Blank \in Written
    BY <1>2, LinesWritten
  <2>2. e \in 1..n
    BY <1>1, <1>2
  <2> HIDE DEF e
  <2> QED BY <1>1, <2>1, <2>2, ElementOfSeq
<1>5. u \in Seq(Written) /\ IsBlockOfThree(u)
  <2>1. u \in Seq(Written) /\ Len(u) = 3 /\ u[1] = text[e] /\ u[2] = Blank /\ u[3] = l
    BY <1>4
  <2> HIDE DEF u
  <2> QED BY <1>2, <2>1 DEF IsBlockOfThree
<1>6. text[e].is = "open" /\ Nests(t)
  OBVIOUS
<1>7. u[1] = text[e] /\ u[2] = Blank /\ u[3] = l /\ Len(u) = 3
  OBVIOUS
<1> HIDE DEF e, u, l
<1>8. e \in Nat /\ e >= 1 /\ e <= n - 1
  BY <1>1, <1>2
<1>9. /\ s \in Seq(Written) /\ Len(s) = n - 1
      /\ \A k \in 1..(e - 1) : s[k] = text[k]
      /\ \A k \in e..(n - 1) : s[k] = text[k + 1]
  <2>1. e \in 1..Len(text)
    BY <1>1, <1>8
  <2> QED BY <1>1, <2>1, RemovedIs
<1> HIDE DEF s
<1>10. /\ t \in Seq(Written) /\ Len(t) = n - 2
       /\ \A k \in 1..(e - 1) : t[k] = s[k]
       /\ \A k \in e..(n - 2) : t[k] = s[k + 1]
  <2>1. e \in 1..Len(s) /\ (n - 1) - 1 = n - 2
    BY <1>1, <1>8, <1>9
  <2>2. /\ t \in Seq(Written) /\ Len(t) = Len(s) - 1
        /\ \A k \in 1..(e - 1) : t[k] = s[k]
        /\ \A k \in e..(Len(s) - 1) : t[k] = s[k + 1]
    BY <1>9, <2>1, RemovedIs
  <2> HIDE DEF t
  <2> QED BY <1>9, <2>1, <2>2
<1> HIDE DEF t
<1>11. LineMore(Written, text, j, l, r)
  <2>1. j \in 1..(Len(text) + 1)
    BY <1>1, <1>8
  <2> HIDE DEF j
  <2> QED BY <1>1, <1>4, <2>1, InsertedIs
<1> HIDE DEF r
<1>12. /\ r \in Seq(Written) /\ Len(r) = n + 1
       /\ \A k \in 1..(e + 1) : r[k] = text[k]
       /\ r[e + 2] = l
       /\ \A k \in (e + 2)..n : r[k + 1] = text[k]
  <2>1. j = e + 2 /\ j - 1 = e + 1
    BY <1>8
  <2> HIDE DEF j
  <2> QED BY <1>11, <2>1 DEF LineMore
<1>13. Spliced(t, e, u, r)
  <2>1. Len(r) = Len(t) + Len(u)
    BY <1>1, <1>7, <1>10, <1>12
  <2>2. ASSUME NEW k \in 1..(e - 1) PROVE r[k] = t[k]
    <3>1. k \in 1..(e + 1)
      BY <1>8
    <3> QED BY <1>9, <1>10, <1>12, <3>1
  <2>3. ASSUME NEW k \in 1..Len(u) PROVE r[(e - 1) + k] = u[k]
    <3>0. k \in {1, 2, 3}
      BY <1>7
    <3>1. CASE k = 1
      <4>1. (e - 1) + k = e /\ e \in 1..(e + 1)
        BY <1>8, <3>1
      <4> QED BY <1>7, <1>12, <3>1, <4>1
    <3>2. CASE k = 2
      <4>1. (e - 1) + k = e + 1 /\ e + 1 \in 1..(e + 1)
        BY <1>8, <3>2
      <4> QED BY <1>2, <1>7, <1>12, <3>2, <4>1
    <3>3. CASE k = 3
      <4>1. (e - 1) + k = e + 2
        BY <1>8, <3>3
      <4> QED BY <1>7, <1>12, <3>3, <4>1
    <3> QED BY <3>0, <3>1, <3>2, <3>3
  <2>4. ASSUME NEW k \in e..Len(t) PROVE r[k + Len(u)] = t[k]
    <3>1. /\ k \in e..(n - 2) /\ k + 1 \in e..(n - 1) /\ k + 2 \in (e + 2)..n
          /\ (k + 1) + 1 = k + 2 /\ (k + 2) + 1 = k + 3
      BY <1>1, <1>8, <1>10
    <3>2. t[k] = s[k + 1] /\ s[k + 1] = text[(k + 1) + 1]
      BY <1>9, <1>10, <3>1
    <3>3. r[(k + 2) + 1] = text[k + 2]
      BY <1>12, <3>1
    <3> QED BY <1>7, <3>1, <3>2, <3>3
  <2> QED BY <2>1, <2>2, <2>3, <2>4 DEF Spliced
<1>14. e \in 1..(Len(t) + 1)
  BY <1>1, <1>8, <1>10
<1>15. Nests(r)
  <2>1. t \in Seq(Written) /\ r \in Seq(Written) /\ u \in Seq(Written) /\ IsBlockOfThree(u) /\ Nests(t)
    BY <1>5, <1>6, <1>10, <1>12
  <2> QED BY ONLY <1>13, <1>14, <2>1, SplicedNests
<1> QED BY <1>3, <1>15

\* The close tag the extension adds to an opener keeps nested what was nested
\* without that block (extension.ts:15-50): for all lines, documents and blocks.
THEOREM WhatIsTypedFits == AuthoringSpec => TagsFit
<1> DEFINE Fits ==
             (InsertCloser /\ text[edit.line].is = "open"
              /\ Nests(RemoveAt(RemoveAt(text, edit.line), edit.line))) => Nests(text')
<1>1. AuthoringInit => EditorInv
  BY EditorStarts DEF AuthoringInit
<1>2. EditorInv /\ [AuthoringNext]_authoringVars => EditorInv'
  BY EditorGoesOn
<1>3. EditorInv => Fits
  BY CloserFits
<1>4. EditorInv /\ [AuthoringNext]_authoringVars => [Fits]_editorVars
  BY <1>3
<1>5. AuthoringSpec => [][Fits]_editorVars
  <2> HIDE DEF Fits
  <2> QED BY <1>1, <1>2, <1>4, PTL DEF AuthoringSpec
<1> QED BY <1>5 DEF TagsFit

(***************************************************************************)
(* Plugins                                                                 *)
(***************************************************************************)

\* A load reads the directories of a root in turn, and of each its files in any
\* order, so what is to be said of it in between is said of each name: which
\* directories have been read as far as files of that name go.

FilesType == [Dirs -> [Names -> Texts \cup {NoFile}]]
TreeType == [Roots -> [Paths -> Values]]
ResultType == [plugins : SUBSET Plugin, warnings : SUBSET Warning, done : BOOLEAN]
JobType == [at : {"idle", "load", "detect"}, kind : {"detect", "data"}, root : Roots, name : Names]

\* The i-th directory of a root has been read, as far as files named n go.
HasRead(ds, ls, root, i, n) ==
    /\ i <= 3 - Len(ds)
    /\ i = 3 - Len(ds) => [dir |-> SearchPaths(root)[i], name |-> n] \notin ls

\* It holds a plugin of that name.
HasPlugin(fs, root, i, n) == loadOnePlugin(fs[SearchPaths(root)[i]][n], n)

\* A load goes through the directories in turn.
InTurn(ds, ls, root) ==
    /\ \A i \in 1..Len(ds) : ds[i] = SearchPaths(root)[3 - Len(ds) + i]
    /\ ls # {} => Len(ds) < 3
    /\ \A w \in ls : w.dir = SearchPaths(root)[3 - Len(ds)]

\* What was kept is of the first directory that has it, nothing was missed, and
\* every file is kept or warned about.
FirstsKept(fs, root, ds, ls, ps) ==
    \A p \in ps : \E i \in 1..3 :
        /\ HasRead(ds, ls, root, i, p.name) /\ HasPlugin(fs, root, i, p.name)
        /\ p.dir = SearchPaths(root)[i] /\ p.text = fs[SearchPaths(root)[i]][p.name]
        /\ \A j \in 1..3 : j < i => ~ HasPlugin(fs, root, j, p.name)

NoneMissed(fs, root, ds, ls, ps) ==
    \A n \in Names, i \in 1..3 :
        HasRead(ds, ls, root, i, n) /\ HasPlugin(fs, root, i, n) => \E p \in ps : p.name = n

AllTold(fs, root, ds, ls, ps, ws) ==
    \A n \in Names, i \in 1..3 :
        (HasRead(ds, ls, root, i, n) /\ fs[SearchPaths(root)[i]][n] # NoFile)
        => \/ [dir |-> SearchPaths(root)[i], name |-> n] \in ws
           \/ \E p \in ps : p.name = n /\ p.dir = SearchPaths(root)[i]

KeptSoFar(fs, root, ds, ls, ps, ws) ==
    /\ FirstsKept(fs, root, ds, ls, ps)
    /\ NoneMissed(fs, root, ds, ls, ps)
    /\ AllTold(fs, root, ds, ls, ps, ws)

\* The result of a load over these files is what it should be.
RightlyLoaded(fs, root, result) ==
    /\ \A n \in Names : { p \in result.plugins : p.name = n } = Winner(fs, root, n)
    /\ \A w \in Warning :
          (w.dir \in Range(SearchPaths(root)) /\ fs[w.dir][w.name] # NoFile)
          => \/ w \in result.warnings
             \/ \E p \in Winner(fs, root, w.name) : p.dir = w.dir

\* While a load runs its root has no result yet, and what it has gathered is right
\* if the files stood still.
LoadInv ==
    job.at = "load" =>
        /\ InTurn(dirs, listed, job.root)
        /\ ~ cache[job.root].done
        /\ asOf[job.root] # <<>> =>
              asOf[job.root] = files /\ KeptSoFar(files, job.root, dirs, listed, loaded, warned)

\* What a root keeps is right for the files as they were.
CacheInv ==
    /\ DOMAIN asOf = Roots
    /\ \A r \in Roots : (cache[r].done /\ asOf[r] # <<>>) => RightlyLoaded(asOf[r], r, cache[r])

\* The last answer came from what its root keeps.
AnswerInv ==
    /\ job.at = "detect" => cache[job.root].done
    /\ answer.kind # "none" =>
          /\ answer.root \in Roots /\ answer.name \in Names
          /\ cache[answer.root].done
          /\ answer.warnings = cache[answer.root].warnings
          /\ answer.kind = "data" =>
                answer.plugins = { p \in cache[answer.root].plugins : p.name = answer.name }

PluginsInv == PluginTypes /\ LoadInv /\ CacheInv /\ AnswerInv

LEMMA PathsAre ==
    ASSUME NEW r \in Roots
    PROVE  /\ DOMAIN SearchPaths(r) = 1..3 /\ Len(SearchPaths(r)) = 3
           /\ SearchPaths(r) \in Seq(Dirs)
           /\ \A i \in 1..3 : SearchPaths(r)[i] \in Dirs
           /\ \A d \in Range(SearchPaths(r)) : \E i \in 1..3 : d = SearchPaths(r)[i]
<1> DEFINE a == ProjectDir[r]
           s == <<a, "user", "system">>
<1>1. SearchPaths(r) = s
  BY DEF SearchPaths
<1>2. a \in Dirs /\ "user" \in Dirs /\ "system" \in Dirs
  BY DEF Dirs
<1> HIDE DEF a
<1>3. s \in Seq(Dirs) /\ DOMAIN s = 1..3 /\ Len(s) = 3
  BY <1>2
<1> HIDE DEF s
<1>4. \A i \in 1..3 : s[i] \in Dirs
  BY <1>3, ElementOfSeq
<1>5. \A d \in Range(s) : \E i \in 1..3 : d = s[i]
  BY <1>3 DEF Range
<1> QED BY <1>1, <1>3, <1>4, <1>5

\* What is meant as a plugin is what the loader takes for one.
LEMMA MeantIsTaken ==
    ASSUME NEW fs \in FilesType, NEW d \in Dirs, NEW n \in Names
    PROVE  loadOnePlugin(fs[d][n], n) <=>
             (fs[d][n] # NoFile /\ Parts[fs[d][n]].wants.valid /\ Parts[fs[d][n]].name = n)
<1> DEFINE t == fs[d][n]
<1>1. t \in Texts \cup {NoFile}
  BY DEF FilesType
<1> HIDE DEF t
<1>2. CASE t = NoFile
  <2>1. ~ loadOnePlugin(NoFile, n)
    BY DEF loadOnePlugin
  <2> QED BY <1>2, <2>1 DEF t
<1>3. CASE t # NoFile
  <2>1. t \in Texts
    BY <1>1, <1>3
  <2>2. loadOnePlugin(t, n) <=> Parts[t].wants.valid /\ Parts[t].name = n
    BY <2>1, AuthorsAssumption
  <2> QED BY <1>3, <2>2 DEF t
<1> QED BY <1>2, <1>3

\* The plugin of a name at the i-th directory of a root.
PluginAt(fs, root, i, n) ==
    [name |-> n, dir |-> SearchPaths(root)[i], text |-> fs[SearchPaths(root)[i]][n]]

LEMMA WinnerIs ==
    ASSUME NEW fs \in FilesType, NEW root \in Roots, NEW n \in Names
    PROVE  /\ (\A i \in 1..3 : ~ HasPlugin(fs, root, i, n)) => Winner(fs, root, n) = {}
           /\ \A i \in 1..3 :
                 (HasPlugin(fs, root, i, n) /\ \A j \in 1..3 : j < i => ~ HasPlugin(fs, root, j, n))
                 => Winner(fs, root, n) = {PluginAt(fs, root, i, n)}
<1> DEFINE places == { i \in 1..3 : HasPlugin(fs, root, i, n) }
<1>1. Winner(fs, root, n) = IF places = {} THEN {} ELSE {PluginAt(fs, root, Min(places), n)}
  <2> DEFINE valid(d) == fs[d][n] # NoFile /\ Parts[fs[d][n]].wants.valid
                         /\ Parts[fs[d][n]].name = n
             spots == { i \in 1..3 : valid(SearchPaths(root)[i]) }
  <2>1. \A i \in 1..3 : valid(SearchPaths(root)[i]) <=> HasPlugin(fs, root, i, n)
    BY PathsAre, MeantIsTaken DEF HasPlugin
  <2>2. spots = places
    BY <2>1
  <2>3. Winner(fs, root, n) = IF spots = {} THEN {} ELSE {PluginAt(fs, root, Min(spots), n)}
    BY DEF Winner, PluginAt
  <2> HIDE DEF spots, places
  <2> QED BY <2>2, <2>3
<1>2. ASSUME \A i \in 1..3 : ~ HasPlugin(fs, root, i, n)
      PROVE  places = {}
  BY <1>2
<1>3. ASSUME NEW i \in 1..3, HasPlugin(fs, root, i, n),
             \A j \in 1..3 : j < i => ~ HasPlugin(fs, root, j, n)
      PROVE  places # {} /\ Min(places) = i
  <2>1. places \in SUBSET Nat /\ i \in places /\ \A j \in places : j \in 1..3 /\ ~ (j < i)
    BY <1>3
  <2> HIDE DEF places
  <2>2. Min(places) \in places /\ Min(places) <= i
    BY <2>1, MinOf
  <2>3. Min(places) \in 1..3 /\ ~ (Min(places) < i)
    BY <2>1, <2>2
  <2>4. places # {}
    BY <2>1
  <2> QED BY <2>2, <2>3, <2>4
<1> HIDE DEF places
<1> QED BY <1>1, <1>2, <1>3

\* A load that has gone through all directories has found what it should.
LEMMA LoadsFind ==
    ASSUME NEW fs \in FilesType, NEW root \in Roots, NEW ps \in SUBSET Plugin, NEW ws,
           KeptSoFar(fs, root, <<>>, {}, ps, ws)
    PROVE  RightlyLoaded(fs, root, [plugins |-> ps, warnings |-> ws, done |-> TRUE])
<1>1. \A i \in 1..3, n \in Names : HasRead(<<>>, {}, root, i, n)
  BY DEF HasRead
<1>2. ASSUME NEW n \in Names
      PROVE  { p \in ps : p.name = n } = Winner(fs, root, n)
  <2>1. CASE \A i \in 1..3 : ~ HasPlugin(fs, root, i, n)
    <3>1. \A p \in ps : p.name # n
      BY <2>1 DEF KeptSoFar, FirstsKept
    <3> QED BY <2>1, <3>1, WinnerIs
  <2>2. CASE \E i \in 1..3 : HasPlugin(fs, root, i, n)
    <3>1. PICK q \in ps : q.name = n
      BY <1>1, <2>2 DEF KeptSoFar, NoneMissed
    <3>2. PICK i \in 1..3 : /\ HasPlugin(fs, root, i, n)
                            /\ \A j \in 1..3 : j < i => ~ HasPlugin(fs, root, j, n)
      BY <3>1 DEF KeptSoFar, FirstsKept
    <3>3. ASSUME NEW p \in ps, p.name = n
          PROVE  p = PluginAt(fs, root, i, n)
      <4>1. PICK k \in 1..3 : /\ HasPlugin(fs, root, k, n)
                              /\ p.dir = SearchPaths(root)[k] /\ p.text = fs[SearchPaths(root)[k]][n]
                              /\ \A j \in 1..3 : j < k => ~ HasPlugin(fs, root, j, n)
        BY <3>3 DEF KeptSoFar, FirstsKept
      <4>2. k = i
        BY <3>2, <4>1
      <4>3. p = [name |-> p.name, dir |-> p.dir, text |-> p.text]
        BY DEF Plugin
      <4> QED BY <3>3, <4>1, <4>2, <4>3 DEF PluginAt
    <3>4. { p \in ps : p.name = n } = {PluginAt(fs, root, i, n)}
      BY <3>1, <3>3
    <3> QED BY <3>2, <3>4, WinnerIs
  <2> QED BY <2>1, <2>2
<1>3. ASSUME NEW w \in Warning, w.dir \in Range(SearchPaths(root)), fs[w.dir][w.name] # NoFile
      PROVE  w \in ws \/ \E p \in Winner(fs, root, w.name) : p.dir = w.dir
  <2>1. w.name \in Names /\ w = [dir |-> w.dir, name |-> w.name]
    BY DEF Warning
  <2>2. PICK i \in 1..3 : w.dir = SearchPaths(root)[i]
    BY <1>3, PathsAre
  <2>3. w \in ws \/ \E p \in ps : p.name = w.name /\ p.dir = w.dir
    <3>1. AllTold(fs, root, <<>>, {}, ps, ws)
      BY DEF KeptSoFar
    <3>2. HasRead(<<>>, {}, root, i, w.name) /\ fs[SearchPaths(root)[i]][w.name] # NoFile
      BY <1>1, <1>3, <2>1, <2>2
    <3>3. \/ [dir |-> SearchPaths(root)[i], name |-> w.name] \in ws
          \/ \E p \in ps : p.name = w.name /\ p.dir = SearchPaths(root)[i]
      BY <2>1, <3>1, <3>2 DEF AllTold
    <3>4. [dir |-> SearchPaths(root)[i], name |-> w.name] = w
      BY <2>1, <2>2
    <3> QED BY <2>2, <3>3, <3>4
  <2>4. { p \in ps : p.name = w.name } = Winner(fs, root, w.name)
    BY <1>2, <2>1
  <2>5. ASSUME NEW p \in ps, p.name = w.name, p.dir = w.dir
        PROVE  \E q \in Winner(fs, root, w.name) : q.dir = w.dir
    <3>1. p \in { q \in ps : q.name = w.name }
      BY <2>5
    <3>2. p \in Winner(fs, root, w.name)
      BY <2>4, <3>1, Zenon
    <3> QED BY <2>5, <3>2, Zenon
  <2> QED BY <2>3, <2>5
<1> QED BY <1>2, <1>3 DEF RightlyLoaded

(***************************************************************************)
(* The steps                                                               *)
(***************************************************************************)

\* Each step of a load, over files that stand still.
LEMMA KeptAtFirst ==
    ASSUME NEW fs, NEW root
    PROVE  KeptSoFar(fs, root, SearchPaths(root), {}, {}, {}) /\ InTurn(SearchPaths(root), {}, root)
<1>1. Len(SearchPaths(root)) = 3
  BY DEF SearchPaths
<1>2. \A i \in 1..3, n \in Names : ~ HasRead(SearchPaths(root), {}, root, i, n)
  BY <1>1 DEF HasRead
<1>3. KeptSoFar(fs, root, SearchPaths(root), {}, {}, {})
  BY <1>2 DEF KeptSoFar, FirstsKept, NoneMissed, AllTold
<1>4. InTurn(SearchPaths(root), {}, root)
  BY <1>1 DEF InTurn
<1> QED BY <1>3, <1>4

ListedIn(fs, d) == { w \in Warning : w.dir = d /\ fs[w.dir][w.name] # NoFile }

LEMMA KeptByListing ==
    ASSUME NEW fs \in FilesType, NEW root \in Roots, NEW ds \in Seq(Dirs), Len(ds) <= 3, ds # <<>>,
           NEW ps \in SUBSET Plugin, NEW ws, InTurn(ds, {}, root)
    PROVE  /\ InTurn(Tail(ds), ListedIn(fs, Head(ds)), root)
           /\ KeptSoFar(fs, root, ds, {}, ps, ws) =>
                KeptSoFar(fs, root, Tail(ds), ListedIn(fs, Head(ds)), ps, ws)
<1> DEFINE k == 4 - Len(ds)
           ts == Tail(ds)
           ls == ListedIn(fs, Head(ds))
           d == SearchPaths(root)[k]
<1>1. Len(ds) \in 1..3 /\ Len(ts) = Len(ds) - 1 /\ \A i \in 1..Len(ts) : ts[i] = ds[i + 1]
  <2>1. Len(ds) \in Nat \ {0}
    BY EmptySeq
  <2>2. Len(ts) = Len(ds) - 1 /\ \A i \in 1..Len(ts) : ts[i] = ds[i + 1]
    BY HeadTailProperties
  <2> QED BY <2>1, <2>2
<1>2. Head(ds) = ds[1] /\ ds[1] = d /\ d \in Dirs
  <2>1. Head(ds) = ds[1]
    OBVIOUS
  <2>2. 1 \in 1..Len(ds) /\ 3 - Len(ds) + 1 = k /\ k \in 1..3
    BY <1>1
  <2>3. ds[1] = d
    BY <2>2 DEF InTurn
  <2> QED BY <2>1, <2>2, <2>3, PathsAre
<1>3. InTurn(ts, ls, root)
  <2>1. \A i \in 1..Len(ts) : ts[i] = SearchPaths(root)[3 - Len(ts) + i]
    <3>1. TAKE i \in 1..Len(ts)
    <3>2. i + 1 \in 1..Len(ds) /\ 3 - Len(ds) + (i + 1) = 3 - Len(ts) + i
      BY <1>1
    <3>3. ds[i + 1] = SearchPaths(root)[3 - Len(ds) + (i + 1)]
      BY <3>2 DEF InTurn
    <3> QED BY <1>1, <3>2, <3>3
  <2>2. \A w \in ls : w.dir = SearchPaths(root)[3 - Len(ts)]
    <3>1. 3 - Len(ts) = k
      BY <1>1
    <3> QED BY <1>2, <3>1 DEF ListedIn
  <2>3. Len(ts) < 3
    BY <1>1
  <2> QED BY <2>1, <2>2, <2>3 DEF InTurn
<1>4. \A i \in 1..3, n \in Names : HasRead(ds, {}, root, i, n) <=> i < k
  BY <1>1 DEF HasRead
<1>5. ASSUME NEW i \in 1..3, NEW n \in Names
      PROVE  HasRead(ts, ls, root, i, n) <=> (i < k \/ (i = k /\ fs[d][n] = NoFile))
  <2>1. 3 - Len(ts) = k
    BY <1>1
  <2>2. i = k => ([dir |-> SearchPaths(root)[i], name |-> n] \in ls <=> fs[d][n] # NoFile)
    BY <1>2 DEF ListedIn, Warning
  <2>3. HasRead(ts, ls, root, i, n) <=>
          (i <= k /\ (i = k => [dir |-> SearchPaths(root)[i], name |-> n] \notin ls))
    BY <2>1 DEF HasRead
  <2>4. k \in Int
    BY <1>1
  <2> HIDE DEF k, ls
  <2> QED BY <2>2, <2>3, <2>4
<1>6. ASSUME NEW i \in 1..3, NEW n \in Names, i = k, fs[d][n] = NoFile
      PROVE  ~ HasPlugin(fs, root, i, n) /\ fs[SearchPaths(root)[i]][n] = NoFile
  BY <1>6 DEF HasPlugin, loadOnePlugin
<1> HIDE DEF ts, ls, d, k
<1>7. ASSUME KeptSoFar(fs, root, ds, {}, ps, ws)
      PROVE  KeptSoFar(fs, root, ts, ls, ps, ws)
  <2>1. FirstsKept(fs, root, ts, ls, ps)
    <3>1. SUFFICES ASSUME NEW p \in ps
                   PROVE  \E i \in 1..3 :
        /\ HasRead(ts, ls, root, i, p.name) /\ HasPlugin(fs, root, i, p.name)
        /\ p.dir = SearchPaths(root)[i] /\ p.text = fs[SearchPaths(root)[i]][p.name]
        /\ \A j \in 1..3 : j < i => ~ HasPlugin(fs, root, j, p.name)
      BY DEF FirstsKept
    <3>2. p.name \in Names
      BY DEF Plugin
    <3>3. PICK i \in 1..3 :
        /\ HasRead(ds, {}, root, i, p.name) /\ HasPlugin(fs, root, i, p.name)
        /\ p.dir = SearchPaths(root)[i] /\ p.text = fs[SearchPaths(root)[i]][p.name]
        /\ \A j \in 1..3 : j < i => ~ HasPlugin(fs, root, j, p.name)
      BY <1>7 DEF KeptSoFar, FirstsKept
    <3>4. HasRead(ts, ls, root, i, p.name)
      BY <1>4, <1>5, <3>2, <3>3
    <3> QED BY <3>3, <3>4
  <2>2. NoneMissed(fs, root, ts, ls, ps)
    BY <1>4, <1>5, <1>6, <1>7 DEF KeptSoFar, NoneMissed
  <2>3. AllTold(fs, root, ts, ls, ps, ws)
    BY <1>4, <1>5, <1>6, <1>7 DEF KeptSoFar, AllTold
  <2> QED BY <2>1, <2>2, <2>3 DEF KeptSoFar
<1> QED BY <1>3, <1>7 DEF ts, ls

LEMMA StillInTurn ==
    ASSUME NEW root, NEW ds, NEW ls, InTurn(ds, ls, root), NEW w
    PROVE  InTurn(ds, ls \ {w}, root)
BY DEF InTurn

LEMMA KeptByReading ==
    ASSUME NEW fs \in FilesType, NEW root \in Roots, NEW ds \in Seq(Dirs), NEW ls \in SUBSET Warning,
           NEW w \in ls, NEW ps \in SUBSET Plugin, NEW ws,
           InTurn(ds, ls, root), KeptSoFar(fs, root, ds, ls, ps, ws)
    PROVE  LET held == fs[w.dir][w.name]
               p == [name |-> w.name, dir |-> w.dir, text |-> held]
           IN IF loadOnePlugin(held, w.name) /\ ~ (\E q \in ps : q.name = w.name)
              THEN KeptSoFar(fs, root, ds, ls \ {w}, ps \cup {p}, ws)
              ELSE KeptSoFar(fs, root, ds, ls \ {w}, ps, ws \cup {w})
<1> DEFINE held == fs[w.dir][w.name]
           p == [name |-> w.name, dir |-> w.dir, text |-> held]
           k == 3 - Len(ds)
           less == ls \ {w}
<1>1. /\ Len(ds) \in Nat /\ k \in 1..3 /\ w.dir = SearchPaths(root)[k]
      /\ \A v \in ls : v.dir = SearchPaths(root)[k]
  <2>1. Len(ds) \in Nat
    BY EmptySeq
  <2>2. Len(ds) < 3
    BY DEF InTurn
  <2> QED BY <2>1, <2>2 DEF InTurn
<1>2. w.name \in Names /\ w.dir \in Dirs /\ w = [dir |-> w.dir, name |-> w.name]
  BY DEF Warning
<1>3. ASSUME NEW i \in 1..3, NEW n \in Names
      PROVE  HasRead(ds, less, root, i, n) <=> (HasRead(ds, ls, root, i, n) \/ (i = k /\ n = w.name))
  <2>1. [dir |-> SearchPaths(root)[i], name |-> n] = w => n = w.name
    BY <1>2
  <2>2. (i = k /\ n = w.name) => [dir |-> SearchPaths(root)[i], name |-> n] = w
    BY <1>1, <1>2
  <2>3. HasRead(ds, less, root, i, n) <=>
          (i <= k /\ (i = k => [dir |-> SearchPaths(root)[i], name |-> n] \notin less))
    BY DEF HasRead
  <2>4. HasRead(ds, ls, root, i, n) <=>
          (i <= k /\ (i = k => [dir |-> SearchPaths(root)[i], name |-> n] \notin ls))
    BY DEF HasRead
  <2>5. k \in Int
    BY <1>1
  <2> HIDE DEF k
  <2> QED BY <2>1, <2>2, <2>3, <2>4, <2>5
<1>4. HasPlugin(fs, root, k, w.name) <=> loadOnePlugin(held, w.name)
  BY <1>1 DEF HasPlugin
<1>5. held = fs[SearchPaths(root)[k]][w.name]
  BY <1>1
<1>6. p.name = w.name /\ p.dir = w.dir /\ p.text = held
  OBVIOUS
<1> HIDE DEF less, k, held, p
<1>7. /\ FirstsKept(fs, root, ds, ls, ps) /\ NoneMissed(fs, root, ds, ls, ps)
      /\ AllTold(fs, root, ds, ls, ps, ws)
  BY DEF KeptSoFar
<1>8. FirstsKept(fs, root, ds, less, ps)
  <2>1. \A q \in ps : q.name \in Names
    BY DEF Plugin
  <2> QED BY <1>3, <1>7, <2>1 DEF FirstsKept
<1>9. CASE loadOnePlugin(held, w.name) /\ ~ (\E q \in ps : q.name = w.name)
  <2>1. ASSUME NEW j \in 1..3, j < k
        PROVE  ~ HasPlugin(fs, root, j, w.name)
    <3>1. HasRead(ds, ls, root, j, w.name)
      <4>1. j <= 3 - Len(ds) /\ j # 3 - Len(ds)
        BY <1>1, <2>1 DEF k
      <4> QED BY <4>1 DEF HasRead
    <3> QED BY <1>2, <1>7, <1>9, <3>1 DEF NoneMissed
  <2>2. FirstsKept(fs, root, ds, less, ps \cup {p})
    <3>1. /\ HasRead(ds, less, root, k, p.name) /\ HasPlugin(fs, root, k, p.name)
          /\ p.dir = SearchPaths(root)[k] /\ p.text = fs[SearchPaths(root)[k]][p.name]
          /\ \A j \in 1..3 : j < k => ~ HasPlugin(fs, root, j, p.name)
      BY <1>1, <1>2, <1>3, <1>4, <1>5, <1>6, <1>9, <2>1
    <3> QED BY <1>1, <1>8, <3>1 DEF FirstsKept
  <2>3. NoneMissed(fs, root, ds, less, ps \cup {p})
    BY <1>3, <1>6, <1>7 DEF NoneMissed
  <2>4. AllTold(fs, root, ds, less, ps \cup {p}, ws)
    <3>1. SUFFICES ASSUME NEW n \in Names, NEW i \in 1..3, HasRead(ds, less, root, i, n),
                          fs[SearchPaths(root)[i]][n] # NoFile
                   PROVE  \/ [dir |-> SearchPaths(root)[i], name |-> n] \in ws
                          \/ \E q \in ps \cup {p} : q.name = n /\ q.dir = SearchPaths(root)[i]
      BY DEF AllTold
    <3>2. CASE HasRead(ds, ls, root, i, n)
      <4>1. \/ [dir |-> SearchPaths(root)[i], name |-> n] \in ws
            \/ \E q \in ps : q.name = n /\ q.dir = SearchPaths(root)[i]
        BY <1>7, <3>1, <3>2 DEF AllTold
      <4> QED BY <4>1
    <3>3. CASE i = k /\ n = w.name
      <4>1. p \in ps \cup {p} /\ p.name = n /\ p.dir = SearchPaths(root)[i]
        BY <1>1, <1>6, <3>3
      <4> QED BY <4>1
    <3> QED BY <1>3, <3>1, <3>2, <3>3
  <2>5. KeptSoFar(fs, root, ds, less, ps \cup {p}, ws)
    BY <2>2, <2>3, <2>4 DEF KeptSoFar
  <2> QED BY <1>9, <2>5 DEF p, less, held
<1>10. CASE ~ (loadOnePlugin(held, w.name) /\ ~ (\E q \in ps : q.name = w.name))
  <2>1. NoneMissed(fs, root, ds, less, ps)
    <3>1. SUFFICES ASSUME NEW n \in Names, NEW i \in 1..3, HasRead(ds, less, root, i, n),
                          HasPlugin(fs, root, i, n)
                   PROVE  \E q \in ps : q.name = n
      BY DEF NoneMissed
    <3>2. CASE HasRead(ds, ls, root, i, n)
      BY <1>7, <3>1, <3>2 DEF NoneMissed
    <3>3. CASE i = k /\ n = w.name
      <4>1. loadOnePlugin(held, w.name)
        BY <1>4, <3>1, <3>3
      <4> QED BY <1>10, <3>3, <4>1
    <3> QED BY <1>3, <3>1, <3>2, <3>3
  <2>2. AllTold(fs, root, ds, less, ps, ws \cup {w})
    <3>1. SUFFICES ASSUME NEW n \in Names, NEW i \in 1..3, HasRead(ds, less, root, i, n),
                          fs[SearchPaths(root)[i]][n] # NoFile
                   PROVE  \/ [dir |-> SearchPaths(root)[i], name |-> n] \in ws \cup {w}
                          \/ \E q \in ps : q.name = n /\ q.dir = SearchPaths(root)[i]
      BY DEF AllTold
    <3>2. CASE HasRead(ds, ls, root, i, n)
      BY <1>7, <3>1, <3>2 DEF AllTold
    <3>3. CASE i = k /\ n = w.name
      BY <1>1, <1>2, <3>3
    <3> QED BY <1>3, <3>1, <3>2, <3>3
  <2>3. KeptSoFar(fs, root, ds, less, ps, ws \cup {w})
    BY <1>8, <2>1, <2>2 DEF KeptSoFar
  <2> QED BY <1>10, <2>3 DEF less, held
<1> QED BY <1>9, <1>10

\* The root of a directive is one of the roots, and within the jail or Cwd.
LEMMA RootResolved ==
    ASSUME NEW o \in Roots \cup {NoOne}
    PROVE  /\ resolveProjectRoot(o) \in Roots
           /\ resolveProjectRoot(o) # Cwd => resolveProjectRoot(o) \in Jailed
BY PluginsAssumption DEF resolveProjectRoot

LEMMA IdleIs == Idle \in JobType /\ Idle.at = "idle" /\ Idle.name \in Names
BY PluginsAssumption DEF Idle, JobType

\* Once a load has a result, a directive goes on with it, or answers.
LEMMA GoesOn ==
    ASSUME PluginTypes, AnswerInv, NEW j \in JobType, NEW result, Proceed(j, result),
           result \in ResultType, result.done, cache'[j.root] = result,
           \A r \in Roots : cache[r].done => cache'[r] = cache[r]
    PROVE  /\ job' \in JobType /\ job'.at # "load" /\ (job'.at # "idle" => job'.root = j.root)
           /\ pending' \subseteq Plugin /\ matched' \subseteq Plugin
           /\ answer'.plugins \subseteq Plugin /\ answer'.warnings \subseteq Warning
           /\ AnswerInv'
<1>1. result.plugins \in SUBSET Plugin /\ result.warnings \in SUBSET Warning
  BY DEF ResultType
<1>2. j.root \in Roots /\ j.name \in Names
  BY DEF JobType
<1>3. CASE j.kind = "data"
  <2> DEFINE ps == { p \in result.plugins : p.name = j.name }
  <2>1. /\ answer' = [kind |-> "data", root |-> j.root, name |-> j.name,
                      plugins |-> ps, warnings |-> result.warnings]
        /\ job' = Idle /\ pending' = pending /\ matched' = matched
    BY <1>3 DEF Proceed, Answer, detecting
  <2>2. ps \in SUBSET Plugin
    BY <1>1
  <2>3. ps = { p \in cache'[j.root].plugins : p.name = j.name }
    OBVIOUS
  <2> HIDE DEF ps
  <2>4. answer'.kind = "data" /\ answer'.root = j.root /\ answer'.name = j.name
        /\ answer'.plugins = ps /\ answer'.warnings = result.warnings
    BY <2>1
  <2>5. answer'.plugins = { p \in cache'[answer'.root].plugins : p.name = answer'.name }
    BY <2>3, <2>4, Zenon
  <2>6. AnswerInv'
    BY <1>2, <2>1, <2>4, <2>5, IdleIs DEF AnswerInv
  <2>7. pending' \subseteq Plugin /\ matched' \subseteq Plugin
    BY <2>1 DEF PluginTypes
  <2> QED BY <1>1, <2>1, <2>2, <2>4, <2>6, <2>7, IdleIs
<1>4. CASE j.kind # "data"
  <2>1. /\ job' = [j EXCEPT !.at = "detect"]
        /\ pending' = result.plugins /\ matched' = {} /\ answer' = answer
    BY <1>4 DEF Proceed
  <2>2. job' \in JobType /\ job'.at = "detect" /\ job'.root = j.root
    BY <2>1 DEF JobType
  <2>3. AnswerInv'
    <3>1. job'.at = "detect" => cache'[job'.root].done
      BY <2>2
    <3>2. answer.kind # "none" =>
            (answer.root \in Roots /\ cache'[answer.root] = cache[answer.root])
      BY DEF AnswerInv
    <3> QED BY <2>1, <3>1, <3>2 DEF AnswerInv
  <2>4. answer'.plugins \subseteq Plugin /\ answer'.warnings \subseteq Warning
    BY <2>1 DEF PluginTypes
  <2> QED BY <1>1, <2>1, <2>2, <2>3, <2>4
<1> QED BY <1>3, <1>4

LEMMA ExecuteKeeps ==
    ASSUME PluginsInv, NEW kind \in {"detect", "data"}, NEW o \in Roots \cup {NoOne},
           NEW name \in Names, Execute(kind, o, name)
    PROVE  PluginsInv'
<1> DEFINE root == resolveProjectRoot(o)
           j == [at |-> "load", kind |-> kind, root |-> root, name |-> name]
<1>1. root \in Roots /\ (root # Cwd => root \in Jailed)
  BY RootResolved
<1>2. j \in JobType /\ j.root = root /\ j.at = "load"
  BY <1>1 DEF JobType
<1>3. PluginTypes /\ LoadInv /\ CacheInv /\ AnswerInv
  BY DEF PluginsInv
<1>4. /\ job.at = "idle"
      /\ files' = files /\ tree' = tree /\ cache' = cache
  BY DEF Execute
<1>5. CASE cache[root].done
  <2>1. Proceed(j, cache[root]) /\ UNCHANGED <<loading, asOf>>
    BY <1>5 DEF Execute
  <2>2. cache[root] \in ResultType
    BY <1>1, <1>3 DEF PluginTypes, ResultType
  <2>3. /\ job' \in JobType /\ job'.at # "load" /\ (job'.at # "idle" => job'.root = j.root)
        /\ pending' \subseteq Plugin /\ matched' \subseteq Plugin
        /\ answer'.plugins \subseteq Plugin /\ answer'.warnings \subseteq Warning
        /\ AnswerInv'
    <3> HIDE DEF j, root
    <3> QED BY <1>2, <1>3, <1>4, <1>5, <2>1, <2>2, GoesOn
  <2> HIDE DEF j, root
  <2>4. PluginTypes'
    BY <1>1, <1>2, <1>3, <1>4, <2>1, <2>3 DEF PluginTypes, JobType, loading
  <2>5. LoadInv'
    BY <2>3 DEF LoadInv
  <2>6. CacheInv'
    BY <1>3, <1>4, <2>1 DEF CacheInv
  <2> QED BY <2>3, <2>4, <2>5, <2>6 DEF PluginsInv
<1>6. CASE ~ cache[root].done
  <2>1. /\ job' = j /\ dirs' = SearchPaths(root)
        /\ listed' = {} /\ loaded' = {} /\ warned' = {}
        /\ asOf' = [asOf EXCEPT ![root] = files]
        /\ pending' = pending /\ matched' = matched /\ answer' = answer
    BY <1>6 DEF Execute, detecting
  <2> HIDE DEF j, root
  <2>2. dirs' \in Seq(Dirs) /\ Len(dirs') <= 3
    <3>1. SearchPaths(root) \in Seq(Dirs) /\ Len(SearchPaths(root)) = 3
      BY <1>1, PathsAre
    <3> QED BY <2>1, <3>1
  <2>3. PluginTypes'
    BY <1>1, <1>2, <1>3, <1>4, <2>1, <2>2 DEF PluginTypes, JobType
  <2>4. asOf'[root] = files /\ DOMAIN asOf' = Roots /\ \A r \in Roots \ {root} : asOf'[r] = asOf[r]
    BY <1>1, <1>3, <2>1 DEF CacheInv
  <2>5. LoadInv'
    <3>1. KeptSoFar(files', root, dirs', listed', loaded', warned') /\ InTurn(dirs', listed', root)
      BY <2>1, KeptAtFirst
    <3> QED BY <1>2, <1>4, <1>6, <2>1, <2>4, <3>1 DEF LoadInv
  <2>6. CacheInv'
    BY <1>3, <1>4, <1>6, <2>4 DEF CacheInv
  <2>7. AnswerInv'
    BY <1>2, <1>3, <1>4, <2>1 DEF AnswerInv
  <2> QED BY <2>3, <2>5, <2>6, <2>7 DEF PluginsInv
<1> QED BY <1>5, <1>6

LEMMA ListDirectoryKeeps ==
    ASSUME PluginsInv, ListDirectory
    PROVE  PluginsInv'
<1>1. PluginTypes /\ LoadInv /\ CacheInv /\ AnswerInv
  BY DEF PluginsInv
<1>2. /\ job.at = "load" /\ listed = {} /\ dirs # <<>> /\ dirs' = Tail(dirs)
      /\ listed' = ListedIn(files, Head(dirs))
      /\ files' = files /\ tree' = tree /\ cache' = cache /\ job' = job
      /\ loaded' = loaded /\ warned' = warned /\ pending' = pending /\ matched' = matched
      /\ answer' = answer /\ asOf' = asOf
  BY DEF ListDirectory, detecting, history, ListedIn
<1>3. dirs \in Seq(Dirs) /\ Len(dirs) <= 3 /\ job.root \in Roots /\ files \in FilesType
      /\ loaded \in SUBSET Plugin
  BY <1>1 DEF PluginTypes, FilesType
<1>4. InTurn(dirs, {}, job.root)
  BY <1>1, <1>2 DEF LoadInv
<1>5. /\ InTurn(dirs', listed', job.root)
      /\ KeptSoFar(files, job.root, dirs, {}, loaded, warned) =>
           KeptSoFar(files, job.root, dirs', listed', loaded, warned)
  BY <1>2, <1>3, <1>4, KeptByListing
<1>6. dirs' \in Seq(Dirs) /\ Len(dirs') <= 3
  BY <1>2, <1>3, HeadTailProperties
<1>7. listed' \subseteq Warning
  BY <1>2 DEF ListedIn
<1>8. PluginTypes'
  BY <1>1, <1>2, <1>6, <1>7 DEF PluginTypes
<1>9. LoadInv'
  BY <1>1, <1>2, <1>5 DEF LoadInv
<1>10. CacheInv'
  BY <1>1, <1>2 DEF CacheInv
<1>11. AnswerInv'
  BY <1>1, <1>2 DEF AnswerInv
<1> QED BY <1>8, <1>9, <1>10, <1>11 DEF PluginsInv

LEMMA LoadFileKeeps ==
    ASSUME PluginsInv, NEW w \in listed, LoadFile(w)
    PROVE  PluginsInv'
<1> DEFINE held == files[w.dir][w.name]
           p == [name |-> w.name, dir |-> w.dir, text |-> held]
<1>1. PluginTypes /\ LoadInv /\ CacheInv /\ AnswerInv
  BY DEF PluginsInv
<1>2. /\ job.at = "load" /\ listed' = listed \ {w} /\ dirs' = dirs
      /\ files' = files /\ tree' = tree /\ cache' = cache /\ job' = job
      /\ pending' = pending /\ matched' = matched /\ answer' = answer /\ asOf' = asOf
  BY DEF LoadFile, ReadPlugin, detecting, history
<1>3. \/ /\ loadOnePlugin(held, w.name) /\ ~ (\E q \in loaded : q.name = w.name)
         /\ loaded' = loaded \cup {p} /\ warned' = warned
      \/ /\ ~ (loadOnePlugin(held, w.name) /\ ~ (\E q \in loaded : q.name = w.name))
         /\ loaded' = loaded /\ warned' = warned \cup {w}
  BY DEF LoadFile, ReadPlugin, Taken
<1>4. /\ dirs \in Seq(Dirs) /\ job.root \in Roots /\ files \in FilesType
      /\ loaded \in SUBSET Plugin /\ listed \in SUBSET Warning /\ warned \in SUBSET Warning
  BY <1>1 DEF PluginTypes, FilesType
<1>5. w \in Warning /\ w.dir \in Dirs /\ w.name \in Names
  BY <1>4 DEF Warning
<1>6. loadOnePlugin(held, w.name) => p \in Plugin
  <2>1. held \in Texts \cup {NoFile}
    BY <1>4, <1>5 DEF FilesType
  <2>2. ~ loadOnePlugin(NoFile, w.name)
    BY DEF loadOnePlugin
  <2> HIDE DEF held
  <2> QED BY <1>5, <2>1, <2>2 DEF Plugin
<1>7. InTurn(dirs, listed, job.root)
  BY <1>1, <1>2 DEF LoadInv
<1>8. InTurn(dirs', listed', job.root)
  BY <1>2, <1>7, StillInTurn
<1>9. ASSUME KeptSoFar(files, job.root, dirs, listed, loaded, warned)
      PROVE  KeptSoFar(files, job.root, dirs, listed \ {w}, loaded', warned')
  <2>1. IF loadOnePlugin(held, w.name) /\ ~ (\E q \in loaded : q.name = w.name)
        THEN KeptSoFar(files, job.root, dirs, listed \ {w}, loaded \cup {p}, warned)
        ELSE KeptSoFar(files, job.root, dirs, listed \ {w}, loaded, warned \cup {w})
    BY <1>4, <1>7, <1>9, KeptByReading
  <2> HIDE DEF held, p
  <2> QED BY <1>3, <2>1
<1>10. loaded' \subseteq Plugin /\ warned' \subseteq Warning
  <2> HIDE DEF held, p
  <2> QED BY <1>3, <1>4, <1>5, <1>6
<1> HIDE DEF held, p
<1>11. PluginTypes'
  BY <1>1, <1>2, <1>4, <1>10 DEF PluginTypes
<1>12. LoadInv'
  BY <1>1, <1>2, <1>8, <1>9 DEF LoadInv
<1>13. CacheInv'
  BY <1>1, <1>2 DEF CacheInv
<1>14. AnswerInv'
  BY <1>1, <1>2 DEF AnswerInv
<1> QED BY <1>11, <1>12, <1>13, <1>14 DEF PluginsInv

LEMMA EndLoadKeeps ==
    ASSUME PluginsInv, EndLoad
    PROVE  PluginsInv'
<1> DEFINE result == [plugins |-> loaded, warnings |-> warned, done |-> TRUE]
           root == job.root
<1>1. PluginTypes /\ LoadInv /\ CacheInv /\ AnswerInv
  BY DEF PluginsInv
<1>2. /\ job.at = "load" /\ listed = {} /\ dirs = <<>>
      /\ cache' = [cache EXCEPT ![root] = result]
      /\ Proceed(job, cache'[root]) /\ loaded' = {} /\ warned' = {}
      /\ files' = files /\ tree' = tree /\ dirs' = dirs /\ listed' = listed /\ asOf' = asOf
  BY DEF EndLoad, Outcome, history
<1>3. /\ root \in Roots /\ (root # Cwd => root \in Jailed) /\ files \in FilesType
      /\ loaded \in SUBSET Plugin /\ warned \in SUBSET Warning /\ job \in JobType
      /\ cache \in [Roots -> ResultType]
  BY <1>1, <1>2 DEF PluginTypes, FilesType, JobType, ResultType
<1>4. result \in ResultType /\ result.done
  BY <1>3 DEF ResultType
<1>5. ~ cache[root].done
  BY <1>1, <1>2 DEF LoadInv
<1>6. asOf[root] # <<>> => RightlyLoaded(asOf[root], root, result)
  <2>1. asOf[root] # <<>> => asOf[root] = files /\ KeptSoFar(files, root, <<>>, {}, loaded, warned)
    BY <1>1, <1>2 DEF LoadInv
  <2> QED BY <1>3, <2>1, LoadsFind
<1> HIDE DEF result, root
<1>7. cache'[root] = result /\ \A r \in Roots \ {root} : cache'[r] = cache[r]
  BY <1>2, <1>3
<1>8. cache' \in [Roots -> ResultType]
  BY <1>2, <1>3, <1>4
<1>9. /\ job' \in JobType /\ job'.at # "load" /\ (job'.at # "idle" => job'.root = root)
      /\ pending' \subseteq Plugin /\ matched' \subseteq Plugin
      /\ answer'.plugins \subseteq Plugin /\ answer'.warnings \subseteq Warning
      /\ AnswerInv'
  <2>1. \A r \in Roots : cache[r].done => cache'[r] = cache[r]
    BY <1>5, <1>7
  <2>2. cache'[job.root] = cache'[root] /\ cache'[root] \in ResultType /\ cache'[root].done
    BY <1>4, <1>7 DEF root
  <2>3. /\ job' \in JobType /\ job'.at # "load" /\ (job'.at # "idle" => job'.root = job.root)
        /\ pending' \subseteq Plugin /\ matched' \subseteq Plugin
        /\ answer'.plugins \subseteq Plugin /\ answer'.warnings \subseteq Warning
        /\ AnswerInv'
    BY ONLY <1>1, <1>2, <1>3, <2>1, <2>2, GoesOn
  <2> QED BY <2>3 DEF root
<1>10. PluginTypes'
  BY <1>1, <1>2, <1>3, <1>8, <1>9 DEF PluginTypes, JobType, ResultType
<1>11. LoadInv'
  BY <1>9 DEF LoadInv
<1>12. CacheInv'
  BY <1>1, <1>2, <1>6, <1>7 DEF CacheInv
<1> QED BY <1>9, <1>10, <1>11, <1>12 DEF PluginsInv

LEMMA DetectKeeps ==
    ASSUME PluginsInv, EndDetect \/ \E p \in pending : DetectOne(p)
    PROVE  PluginsInv'
<1>1. PluginTypes /\ LoadInv /\ CacheInv /\ AnswerInv
  BY DEF PluginsInv
<1>2. CASE \E p \in pending : DetectOne(p)
  <2>1. PICK p \in pending : DetectOne(p)
    BY <1>2
  <2>2. /\ pending' = pending \ {p} /\ (matched' = matched \/ matched' = matched \cup {p})
        /\ files' = files /\ tree' = tree /\ cache' = cache /\ job' = job
        /\ dirs' = dirs /\ listed' = listed /\ loaded' = loaded /\ warned' = warned
        /\ answer' = answer /\ asOf' = asOf
    BY <2>1 DEF DetectOne, loading, history
  <2>3. PluginTypes'
    BY <1>1, <2>2 DEF PluginTypes
  <2>4. LoadInv' /\ CacheInv' /\ AnswerInv'
    BY <1>1, <2>2 DEF LoadInv, CacheInv, AnswerInv
  <2> QED BY <2>3, <2>4 DEF PluginsInv
<1>3. CASE EndDetect
  <2> DEFINE a == [kind |-> "detect", root |-> job.root, name |-> job.name,
                   plugins |-> matched, warnings |-> cache[job.root].warnings]
  <2>1. /\ job.at = "detect" /\ answer' = a /\ job' = Idle /\ matched' = {} /\ pending' = pending
        /\ files' = files /\ tree' = tree /\ cache' = cache /\ asOf' = asOf
        /\ dirs' = dirs /\ listed' = listed /\ loaded' = loaded /\ warned' = warned
    BY <1>3 DEF EndDetect, Answer, loading, history
  <2>2. job.root \in Roots /\ job.name \in Names /\ cache[job.root].warnings \in SUBSET Warning
    BY <1>1 DEF PluginTypes
  <2>3. cache[job.root].done
    BY <1>1, <2>1 DEF AnswerInv
  <2>4. Idle \in JobType /\ Idle.at = "idle"
    BY IdleIs
  <2>5. PluginTypes'
    BY <1>1, <2>1, <2>2, <2>4 DEF PluginTypes, JobType
  <2>6. LoadInv'
    BY <2>1, <2>4 DEF LoadInv
  <2>7. CacheInv'
    BY <1>1, <2>1 DEF CacheInv
  <2>8. AnswerInv'
    BY <2>1, <2>2, <2>3, <2>4 DEF AnswerInv
  <2> QED BY <2>5, <2>6, <2>7, <2>8 DEF PluginsInv
<1> QED BY <1>2, <1>3

LEMMA WritePluginKeeps ==
    ASSUME PluginsInv, NEW d \in Dirs, NEW n \in Names, NEW t \in Writable \cup {NoFile},
           WritePlugin(d, n, t)
    PROVE  PluginsInv'
<1>1. PluginTypes /\ LoadInv /\ CacheInv /\ AnswerInv
  BY DEF PluginsInv
<1>2. /\ files' = [files EXCEPT ![d][n] = t]
      /\ asOf' = [r \in Roots |-> IF job.at = "load" /\ job.root = r THEN <<>> ELSE asOf[r]]
      /\ tree' = tree /\ cache' = cache /\ job' = job
      /\ dirs' = dirs /\ listed' = listed /\ loaded' = loaded /\ warned' = warned
      /\ pending' = pending /\ matched' = matched /\ answer' = answer
  BY DEF WritePlugin, loading, detecting
<1>3. files' \in FilesType
  <2>1. t \in Texts \cup {NoFile} /\ files \in FilesType
    BY <1>1, PluginsAssumption DEF PluginTypes, FilesType
  <2> QED BY <1>2, <2>1 DEF FilesType
<1>4. PluginTypes'
  BY <1>1, <1>2, <1>3 DEF PluginTypes, FilesType
<1>5. job.at = "load" => job.root \in Roots /\ asOf'[job.root] = <<>>
  BY <1>1, <1>2 DEF PluginTypes
<1>6. LoadInv'
  BY <1>1, <1>2, <1>5 DEF LoadInv
<1>7. CacheInv'
  <2>1. \A r \in Roots : asOf'[r] = <<>> \/ asOf'[r] = asOf[r]
    BY <1>2
  <2>2. DOMAIN asOf' = Roots
    BY <1>2
  <2> QED BY <1>1, <1>2, <2>1, <2>2 DEF CacheInv
<1>8. AnswerInv'
  BY <1>1, <1>2 DEF AnswerInv
<1> QED BY <1>4, <1>6, <1>7, <1>8 DEF PluginsInv

LEMMA WriteProjectKeeps ==
    ASSUME PluginsInv, NEW r \in Jailed \cup {Cwd}, NEW path \in Paths, NEW v \in Values,
           WriteProject(r, path, v)
    PROVE  PluginsInv'
<1>1. PluginTypes /\ LoadInv /\ CacheInv /\ AnswerInv
  BY DEF PluginsInv
<1>2. /\ tree' = [tree EXCEPT ![r][path] = v]
      /\ files' = files /\ asOf' = asOf /\ cache' = cache /\ job' = job
      /\ dirs' = dirs /\ listed' = listed /\ loaded' = loaded /\ warned' = warned
      /\ pending' = pending /\ matched' = matched /\ answer' = answer
  BY DEF WriteProject, loading, detecting
<1>3. tree' \in TreeType
  <2>1. r \in Roots /\ tree \in TreeType
    BY <1>1, PluginsAssumption DEF PluginTypes, TreeType
  <2> QED BY <1>2, <2>1 DEF TreeType
<1>4. PluginTypes'
  BY <1>1, <1>2, <1>3 DEF PluginTypes, TreeType
<1>5. LoadInv' /\ CacheInv' /\ AnswerInv'
  BY <1>1, <1>2 DEF LoadInv, CacheInv, AnswerInv
<1> QED BY <1>4, <1>5 DEF PluginsInv

LEMMA PluginsBegin == PluginInit => PluginsInv
<1> SUFFICES ASSUME PluginInit PROVE PluginsInv
  OBVIOUS
<1>1. files \in FilesType /\ tree \in TreeType
  BY PluginsAssumption DEF PluginInit, FilesType, TreeType
<1>2. Idle \in JobType /\ Idle.at = "idle"
  BY IdleIs
<1>3. /\ cache = [r \in Roots |-> NotLoaded] /\ job = Idle
      /\ dirs = <<>> /\ listed = {} /\ loaded = {} /\ warned = {} /\ pending = {} /\ matched = {}
      /\ answer = NoAnswer /\ asOf = [r \in Roots |-> <<>>]
  BY DEF PluginInit
<1>4. dirs \in Seq(Dirs) /\ Len(dirs) <= 3
  BY <1>3
<1>5. cache \in [Roots -> ResultType] /\ \A r \in Roots : ~ cache[r].done
  BY <1>3 DEF NotLoaded, ResultType
<1>6. answer.kind = "none" /\ answer.plugins = {} /\ answer.warnings = {}
  BY <1>3 DEF NoAnswer
<1>7. PluginTypes
  BY <1>1, <1>2, <1>3, <1>4, <1>5, <1>6 DEF PluginTypes, FilesType, TreeType, JobType, ResultType
<1>8. LoadInv
  BY <1>2, <1>3 DEF LoadInv
<1>9. CacheInv
  BY <1>3, <1>5 DEF CacheInv
<1>10. AnswerInv
  BY <1>2, <1>3, <1>6 DEF AnswerInv
<1> QED BY <1>7, <1>8, <1>9, <1>10 DEF PluginsInv

LEMMA PluginsGoOn == PluginsInv /\ [PluginNext]_pluginVars => PluginsInv'
<1> SUFFICES ASSUME PluginsInv, [PluginNext]_pluginVars PROVE PluginsInv'
  OBVIOUS
<1>1. CASE \E o \in Roots \cup {NoOne} :
              \/ Execute("detect", o, Idle.name)
              \/ \E n \in Names : Execute("data", o, n)
  <2>1. PICK o \in Roots \cup {NoOne} :
              \/ Execute("detect", o, Idle.name)
              \/ \E n \in Names : Execute("data", o, n)
    BY <1>1
  <2>2. \E kind \in {"detect", "data"}, n \in Names : Execute(kind, o, n)
    BY <2>1, IdleIs
  <2> QED BY <2>2, ExecuteKeeps
<1>2. CASE ListDirectory
  BY <1>2, ListDirectoryKeeps
<1>3. CASE \E w \in listed : LoadFile(w)
  BY <1>3, LoadFileKeeps
<1>4. CASE EndLoad
  BY <1>4, EndLoadKeeps
<1>5. CASE EndDetect \/ \E p \in pending : DetectOne(p)
  BY <1>5, DetectKeeps
<1>6. CASE \E d \in Dirs, n \in Names, t \in Writable \cup {NoFile} : WritePlugin(d, n, t)
  BY <1>6, WritePluginKeeps
<1>7. CASE \E r \in Jailed \cup {Cwd}, path \in Paths, v \in Values : WriteProject(r, path, v)
  BY <1>7, WriteProjectKeeps
<1>8. CASE UNCHANGED pluginVars
  <2>1. /\ files' = files /\ tree' = tree /\ asOf' = asOf /\ cache' = cache /\ job' = job
        /\ dirs' = dirs /\ listed' = listed /\ loaded' = loaded /\ warned' = warned
        /\ pending' = pending /\ matched' = matched /\ answer' = answer
    BY <1>8 DEF pluginVars, loading, detecting, history
  <2> QED BY <2>1 DEF PluginsInv, PluginTypes, LoadInv, CacheInv, AnswerInv
<1> QED BY <1>1, <1>2, <1>3, <1>4, <1>5, <1>6, <1>7, <1>8 DEF PluginNext

LEMMA FoundIsExplained == PluginsInv => FoundOrExplained
<1> SUFFICES ASSUME PluginsInv PROVE FoundOrExplained
  OBVIOUS
<1>1. PluginTypes /\ CacheInv /\ AnswerInv
  BY DEF PluginsInv
<1>2. ASSUME answer.kind # "none", asOf[answer.root] # <<>>
      PROVE  /\ RightlyLoaded(asOf[answer.root], answer.root, cache[answer.root])
             /\ answer.warnings = cache[answer.root].warnings
  BY <1>1, <1>2 DEF CacheInv, AnswerInv
<1>3. FoundAsInstalled
  <2>1. SUFFICES ASSUME answer.kind = "data", asOf[answer.root] # <<>>
                 PROVE  answer.plugins = Winner(asOf[answer.root], answer.root, answer.name)
    BY DEF FoundAsInstalled
  <2>2. /\ answer.name \in Names
        /\ answer.plugins = { p \in cache[answer.root].plugins : p.name = answer.name }
    BY <1>1, <2>1 DEF AnswerInv
  <2>3. \A n \in Names : { p \in cache[answer.root].plugins : p.name = n }
                         = Winner(asOf[answer.root], answer.root, n)
    BY <1>2, <2>1 DEF RightlyLoaded
  <2> QED BY <2>2, <2>3, Zenon
<1>4. UnusedAreExplained
  BY <1>2 DEF UnusedAreExplained, RightlyLoaded
<1> QED BY <1>1, <1>3, <1>4 DEF FoundOrExplained

\* A directive uses the files it should, and says of all others that it does
\* not, whatever the directories hold, whoever writes to them, and whichever
\* roots were loaded before (plugin-loader.ts:115-164).
THEOREM PluginsFoundOrExplained == PluginSpec => []FoundOrExplained
<1>1. PluginSpec => []PluginsInv
  BY PluginsBegin, PluginsGoOn, PTL DEF PluginSpec
<1> QED BY <1>1, FoundIsExplained, PTL

(***************************************************************************)
(* Detection                                                               *)
(***************************************************************************)

\* The numbers of two versions, and the places at which they can differ.
LEMMA NumbersAre ==
    ASSUME NEW v \in Seq(Nat), NEW w \in Seq(Nat)
    PROVE  /\ Max({Len(v), Len(w)}) \in Nat
           /\ \A i \in Nat : Number(v, i) \in Nat /\ Number(w, i) \in Nat
<1>1. Len(v) \in Nat /\ Len(w) \in Nat
  OBVIOUS
<1>2. PICK b \in Nat : Len(v) <= b /\ Len(w) <= b
  BY <1>1
<1>3. {Len(v), Len(w)} \in SUBSET (0..b) /\ {Len(v), Len(w)} # {}
  BY <1>1, <1>2
<1>4. Max({Len(v), Len(w)}) \in {Len(v), Len(w)}
  BY <1>3, MaxOf
<1>5. ASSUME NEW u \in Seq(Nat), NEW i \in Nat PROVE Number(u, i) \in Nat
  BY <1>5 DEF Number
<1> QED BY <1>1, <1>4, <1>5

\* The first number that differs decides, as an author reads versions.
LEMMA FirstDecides ==
    ASSUME NEW v \in Seq(Nat), NEW w \in Seq(Nat)
    PROVE  semverGte(v, w) <=> NotBehind(v, w)
<1> DEFINE places == 1..Max({Len(v), Len(w)})
           differ == { i \in places : Number(v, i) # Number(w, i) }
<1>1. /\ places \subseteq Nat
      /\ \A i \in places : Number(v, i) \in Nat /\ Number(w, i) \in Nat
  BY NumbersAre
<1>2. /\ semverGte(v, w) <=> (differ = {} \/ Number(v, Min(differ)) > Number(w, Min(differ)))
      /\ NotBehind(v, w) <=>
           \A i \in places : Number(v, i) < Number(w, i)
              => \E j \in places : j < i /\ Number(v, j) > Number(w, j)
  BY DEF semverGte, NotBehind
<1> HIDE DEF places
<1>3. CASE differ = {}
  <2>1. \A i \in places : Number(v, i) = Number(w, i)
    BY <1>3
  <2>2. \A i \in places : ~ (Number(v, i) < Number(w, i))
    BY <1>1, <2>1
  <2> QED BY <1>2, <1>3, <2>2
<1>4. CASE differ # {}
  <2>1. differ \in SUBSET Nat
    BY <1>1
  <2>2. PICK m \in differ : m = Min(differ) /\ \A k \in differ : m <= k
    <3> HIDE DEF differ
    <3> QED BY <1>4, <2>1, MinOf
  <2>3. /\ m \in places /\ m \in Nat /\ Number(v, m) # Number(w, m)
        /\ \A j \in places : j < m => Number(v, j) = Number(w, j)
    <3>1. m \in places /\ m \in Nat /\ Number(v, m) # Number(w, m)
      BY <1>1, <2>2
    <3>2. ASSUME NEW j \in places, Number(v, j) # Number(w, j) PROVE m <= j
      <4>1. j \in differ
        BY <3>2
      <4> QED BY <2>2, <4>1
    <3>3. ASSUME NEW j \in places, j < m PROVE Number(v, j) = Number(w, j)
      <4>1. j \in Nat /\ ~ (m <= j)
        BY <1>1, <3>1, <3>3
      <4> QED BY <3>2, <4>1
    <3> QED BY <3>1, <3>3
  <2> HIDE DEF differ
  <2>4. ASSUME Number(v, m) > Number(w, m), NEW i \in places, Number(v, i) < Number(w, i)
        PROVE  \E j \in places : j < i /\ Number(v, j) > Number(w, j)
    <3>1. /\ Number(v, i) \in Nat /\ Number(w, i) \in Nat /\ i \in Nat
          /\ Number(v, m) \in Nat /\ Number(w, m) \in Nat
      BY <1>1, <2>3
    <3>2. i # m
      BY <2>4, <3>1
    <3>3. ~ (i < m)
      <4>1. Number(v, i) # Number(w, i)
        BY <2>4, <3>1
      <4> QED BY <2>3, <4>1
    <3>4. m < i
      BY <2>3, <3>1, <3>2, <3>3
    <3> QED BY <2>3, <2>4, <3>4
  <2>5. ASSUME ~ (Number(v, m) > Number(w, m))
        PROVE  /\ Number(v, m) < Number(w, m)
               /\ ~ \E j \in places : j < m /\ Number(v, j) > Number(w, j)
    BY <1>1, <2>3, <2>5
  <2> QED BY <1>2, <1>4, <2>2, <2>3, <2>4, <2>5
<1> QED BY <1>3, <1>4

\* A valid plugin is detected in a project that meets what its author wants.
LEMMA DetectedIfMet ==
    ASSUME NEW p \in Plugin, Parts[p.text].wants.valid, NEW here \in [Paths -> Values]
    PROVE  detectPlugin(p, here) <=> Meets(Parts[p.text].wants, here)
<1> DEFINE asks == Asks[p.text]
           wants == Parts[p.text].wants
<1>1. p.text \in Texts
  BY DEF Plugin
<1>2. /\ asks.paths = wants.paths
      /\ wants.target = "none" => asks.signal.type # "file"
      /\ wants.target # "none" =>
           /\ asks.signal = [type |-> "file", target |-> wants.target, expected |-> wants.expected]
           /\ wants.target \in Paths /\ wants.expected.version \in Seq(Nat)
  BY <1>1, AuthorsAssumption
<1>3. /\ detectPlugin(p, here) <=>
           (\A path \in asks.paths : here[path] # Gone) /\ SignalHolds(asks.signal, here)
      /\ Meets(wants, here) <=>
           /\ \A path \in wants.paths : here[path] # Gone
           /\ wants.target # "none" =>
                /\ here[wants.target].mark = "field"
                /\ IF wants.expected.least
                   THEN NotBehind(here[wants.target].version, wants.expected.version)
                   ELSE here[wants.target].version = wants.expected.version
  BY DEF detectPlugin, Meets
<1> HIDE DEF asks, wants
<1>4. CASE wants.target = "none"
  <2>1. SignalHolds(asks.signal, here)
    BY <1>2, <1>4 DEF SignalHolds
  <2> QED BY <1>2, <1>3, <1>4, <2>1, Zenon DEF wants
<1>5. CASE wants.target # "none"
  <2> DEFINE held == here[wants.target]
  <2>1. /\ asks.signal.type = "file" /\ asks.signal.target = wants.target
        /\ asks.signal.expected = wants.expected
    BY <1>2, <1>5
  <2>2. SignalHolds(asks.signal, here) <=>
           /\ held.mark = "field"
           /\ IF wants.expected.least THEN semverGte(held.version, wants.expected.version)
              ELSE held.version = wants.expected.version
    BY <2>1, Zenon DEF SignalHolds
  <2>3. held.mark = "field" =>
           (semverGte(held.version, wants.expected.version)
            <=> NotBehind(held.version, wants.expected.version))
    <3>1. held \in Values
      BY <1>2, <1>5
    <3>2. SUFFICES ASSUME held.mark = "field"
                   PROVE  semverGte(held.version, wants.expected.version)
                          <=> NotBehind(held.version, wants.expected.version)
      OBVIOUS
    <3>3. held.version \in Seq(Nat) /\ wants.expected.version \in Seq(Nat)
      BY <1>2, <1>5, <3>1, <3>2, PluginsAssumption
    <3> HIDE DEF held
    <3> QED BY ONLY <3>3, FirstDecides
  <2> QED BY <1>2, <1>3, <1>5, <2>2, <2>3, Zenon DEF wants
<1> QED BY <1>4, <1>5

\* While the tree stands still, the plugins that were looked for are those
\* found, of all that the load kept for the root.
DetectInv ==
    /\ moved \in BOOLEAN
    /\ job.at = "detect" =>
         LET kept == cache[job.root].plugins
         IN /\ pending \subseteq kept /\ matched \subseteq kept \ pending
            /\ moved = FALSE => \A p \in kept \ pending : p \in matched <=> detectPlugin(p, tree[job.root])

LEMMA DetectBegins == PluginInit => DetectInv
BY IdleIs DEF PluginInit, DetectInv

\* A directive that goes on to detect has all of the load's plugins before it.
LEMMA DetectsAll ==
    ASSUME NEW j \in JobType, NEW result, Proceed(j, result), job'.at = "detect"
    PROVE  pending' = result.plugins /\ matched' = {} /\ job'.root = j.root
<1>1. j.kind # "data"
  BY IdleIs DEF Proceed, Answer
<1>2. job' = [j EXCEPT !.at = "detect"] /\ pending' = result.plugins /\ matched' = {}
  BY <1>1 DEF Proceed
<1>3. job'.root = j.root
  BY <1>1, <1>2 DEF JobType
<1> QED BY <1>2, <1>3

LEMMA DetectGoesOn == PluginsInv /\ DetectInv /\ [PluginNext]_pluginVars => DetectInv'
<1> SUFFICES ASSUME PluginsInv, DetectInv, [PluginNext]_pluginVars PROVE DetectInv'
  OBVIOUS
<1>1. PluginTypes /\ AnswerInv
  BY DEF PluginsInv
<1>2. ASSUME NEW result, result.plugins = cache'[job'.root].plugins, moved' \in BOOLEAN,
             job'.at = "detect" => pending' = result.plugins /\ matched' = {}
      PROVE  DetectInv'
  BY <1>2 DEF DetectInv
<1>3. ASSUME job'.at # "detect", moved' \in BOOLEAN PROVE DetectInv'
  BY <1>3 DEF DetectInv
<1>4. ASSUME NEW kind \in {"detect", "data"}, NEW o \in Roots \cup {NoOne}, NEW n \in Names,
             Execute(kind, o, n)
      PROVE  DetectInv'
  <2> DEFINE root == resolveProjectRoot(o)
             j == [at |-> "load", kind |-> kind, root |-> root, name |-> n]
  <2>1. moved' = FALSE /\ cache' = cache
    BY <1>4 DEF Execute
  <2>2. j \in JobType /\ j.root = root /\ j.at = "load"
    BY RootResolved DEF JobType
  <2>3. CASE cache[root].done
    <3>1. Proceed(j, cache[root])
      BY <1>4, <2>3 DEF Execute
    <3> HIDE DEF j, root
    <3>2. job'.at = "detect" =>
             pending' = cache[root].plugins /\ matched' = {} /\ job'.root = root
      BY <2>2, <3>1, DetectsAll
    <3>3. CASE job'.at = "detect"
      BY <1>2, <2>1, <3>2, <3>3
    <3> QED BY <1>3, <2>1, <3>3
  <2>4. CASE ~ cache[root].done
    <3>1. job' = j
      BY <1>4, <2>4 DEF Execute
    <3> QED BY <1>3, <2>1, <2>2, <3>1
  <2> QED BY <2>3, <2>4
<1>5. CASE ListDirectory \/ \E w \in listed : LoadFile(w)
  <2>1. job.at = "load" /\ job' = job /\ moved' = moved
    BY <1>5 DEF ListDirectory, LoadFile, history
  <2> QED BY <1>3, <2>1 DEF DetectInv
<1>6. CASE EndLoad
  <2>1. Proceed(job, cache'[job.root]) /\ moved' = moved
    BY <1>6 DEF EndLoad, history
  <2>2. job \in JobType
    BY <1>1 DEF PluginTypes, JobType
  <2>3. job'.at = "detect" =>
           pending' = cache'[job.root].plugins /\ matched' = {} /\ job'.root = job.root
    BY <2>1, <2>2, DetectsAll
  <2>4. CASE job'.at = "detect"
    BY <1>2, <2>1, <2>3, <2>4 DEF DetectInv
  <2> QED BY <1>3, <2>1, <2>4 DEF DetectInv
<1>7. ASSUME NEW p \in pending, DetectOne(p)
      PROVE  DetectInv'
  <2>1. /\ job.at = "detect" /\ pending' = pending \ {p}
        /\ matched' = IF detectPlugin(p, tree[job.root]) THEN matched \cup {p} ELSE matched
        /\ tree' = tree /\ cache' = cache /\ job' = job /\ moved' = moved
    BY <1>7 DEF DetectOne, history
  <2> DEFINE kept == cache[job.root].plugins
  <2>2. pending \subseteq kept /\ matched \subseteq kept \ pending /\ moved \in BOOLEAN
    BY <2>1 DEF DetectInv
  <2>3. pending' \subseteq kept /\ matched' \subseteq kept \ pending'
    BY <1>7, <2>1, <2>2
  <2>4. ASSUME moved = FALSE, NEW q \in kept \ pending'
        PROVE  q \in matched' <=> detectPlugin(q, tree[job.root])
    <3>1. q # p => (q \in matched <=> detectPlugin(q, tree[job.root]))
      BY <2>1, <2>4 DEF DetectInv
    <3>2. CASE q # p
      BY <2>1, <3>1, <3>2
    <3>3. CASE q = p
      <4>1. CASE detectPlugin(p, tree[job.root])
        BY <2>1, <3>3, <4>1
      <4>2. CASE ~ detectPlugin(p, tree[job.root])
        <5>1. matched' = matched
          BY <2>1, <4>2
        <5>2. p \notin matched
          BY <1>7, <2>2
        <5> QED BY <3>3, <4>2, <5>1, <5>2
      <4> QED BY <4>1, <4>2
    <3> QED BY <3>2, <3>3
  <2> QED BY <2>1, <2>2, <2>3, <2>4 DEF DetectInv
<1>8. CASE EndDetect
  <2>1. job' = Idle /\ moved' = moved
    BY <1>8 DEF EndDetect, Answer, history
  <2> QED BY <1>3, <2>1, IdleIs DEF DetectInv
<1>9. CASE \/ \E d \in Dirs, n \in Names, t \in Writable \cup {NoFile} : WritePlugin(d, n, t)
           \/ UNCHANGED pluginVars
  <2>1. /\ tree' = tree /\ cache' = cache /\ job' = job /\ moved' = moved
        /\ pending' = pending /\ matched' = matched
    BY <1>9 DEF WritePlugin, pluginVars, detecting, history
  <2> QED BY <2>1 DEF DetectInv
<1>10. CASE \E r \in Jailed \cup {Cwd}, path \in Paths, v \in Values : WriteProject(r, path, v)
  <2>1. /\ cache' = cache /\ job' = job /\ moved' = TRUE
        /\ pending' = pending /\ matched' = matched
    BY <1>10 DEF WriteProject, detecting
  <2> QED BY <2>1 DEF DetectInv
<1>11. CASE \E o \in Roots \cup {NoOne} :
              \/ Execute("detect", o, Idle.name)
              \/ \E n \in Names : Execute("data", o, n)
  <2>1. PICK o \in Roots \cup {NoOne} :
              \/ Execute("detect", o, Idle.name)
              \/ \E n \in Names : Execute("data", o, n)
    BY <1>11
  <2>2. \E kind \in {"detect", "data"}, n \in Names : Execute(kind, o, n)
    BY <2>1, IdleIs
  <2> QED BY <1>4, <2>2
<1> QED BY <1>5, <1>6, <1>7, <1>8, <1>9, <1>10, <1>11 DEF PluginNext

\* What a name stands for in a project is valid.
LEMMA WinnersAreValid ==
    ASSUME NEW fs, NEW root, NEW n, NEW p \in Winner(fs, root, n)
    PROVE  p.name = n /\ Parts[p.text].wants.valid
<1> DEFINE valid(d) == fs[d][n] # NoFile /\ Parts[fs[d][n]].wants.valid
                       /\ Parts[fs[d][n]].name = n
           places == { i \in 1..3 : valid(SearchPaths(root)[i]) }
<1>1. places # {} /\ p = PluginAt(fs, root, Min(places), n)
  <2>1. Winner(fs, root, n) = IF places = {} THEN {}
                               ELSE LET d == SearchPaths(root)[Min(places)]
                                    IN {[name |-> n, dir |-> d, text |-> fs[d][n]]}
    BY Zenon DEF Winner
  <2>2. Winner(fs, root, n) = IF places = {} THEN {} ELSE {PluginAt(fs, root, Min(places), n)}
    <3> HIDE DEF places
    <3> QED BY <2>1 DEF PluginAt
  <2> HIDE DEF places
  <2> QED BY <2>2
<1>2. places \in SUBSET Nat
  OBVIOUS
<1>3. Min(places) \in places
  <2> HIDE DEF places
  <2> QED BY <1>1, <1>2, MinOf
<1>4. valid(SearchPaths(root)[Min(places)])
  <2> DEFINE m == Min(places)
  <2> HIDE DEF m, valid
  <2>1. m \in places
    BY <1>3 DEF m
  <2>2. valid(SearchPaths(root)[m])
    BY <2>1
  <2> QED BY <2>2 DEF m
<1> HIDE DEF places
<1> QED BY <1>1, <1>4 DEF PluginAt

LEMMA DetectedAtTheEnd ==
    ASSUME PluginsInv, DetectInv, EndDetect, ~ moved, asOf[job.root] # <<>>
    PROVE  answer'.plugins =
              { p \in UNION { Winner(asOf[job.root], job.root, n) : n \in Names } :
                   Meets(Parts[p.text].wants, tree[job.root]) }
<1> DEFINE kept == cache[job.root].plugins
           root == job.root
           fs == asOf[job.root]
           here == tree[job.root]
           winners == UNION { Winner(fs, root, n) : n \in Names }
<1>1. PluginTypes /\ CacheInv /\ AnswerInv
  BY DEF PluginsInv
<1>2. job.at = "detect" /\ pending = {} /\ answer'.plugins = matched
  BY DEF EndDetect, Answer
<1>3. root \in Roots /\ cache[root].done /\ here \in [Paths -> Values] /\ kept \subseteq Plugin
  BY <1>1, <1>2 DEF PluginTypes, AnswerInv
<1>4. RightlyLoaded(fs, root, cache[root])
  BY <1>1, <1>3 DEF CacheInv
<1>5. \A n \in Names : { p \in kept : p.name = n } = Winner(fs, root, n)
  BY <1>4 DEF RightlyLoaded
<1>6. moved = FALSE
  BY DEF DetectInv
<1>7. matched \subseteq kept /\ \A p \in kept : p \in matched <=> detectPlugin(p, here)
  BY <1>2, <1>6 DEF DetectInv
<1> HIDE DEF kept, fs, here, root
<1>8. kept = winners
  <2>1. ASSUME NEW p \in kept PROVE p \in winners
    <3>1. p.name \in Names
      BY <1>3, <2>1 DEF Plugin
    <3>2. p \in { q \in kept : q.name = p.name }
      BY <2>1
    <3>3. p \in Winner(fs, root, p.name)
      BY <1>5, <3>1, <3>2, Zenon
    <3> QED BY <3>1, <3>3
  <2>2. ASSUME NEW p \in winners PROVE p \in kept
    <3>1. PICK n \in Names : p \in Winner(fs, root, n)
      BY <2>2
    <3>2. p \in { q \in kept : q.name = n }
      BY <1>5, <3>1, Zenon
    <3> QED BY <3>2
  <2> QED BY <2>1, <2>2
<1>9. ASSUME NEW p \in kept
      PROVE  detectPlugin(p, here) <=> Meets(Parts[p.text].wants, here)
  <2>1. PICK n \in Names : p \in Winner(fs, root, n)
    BY <1>8, <1>9
  <2>2. Parts[p.text].wants.valid
    BY <2>1, WinnersAreValid
  <2>3. p \in Plugin
    BY <1>3, <1>9
  <2> QED BY <1>3, <2>2, <2>3, DetectedIfMet
<1> HIDE DEF winners
<1>10. matched = { p \in winners : Meets(Parts[p.text].wants, here) }
  <2>1. \A p \in kept : p \in matched <=> Meets(Parts[p.text].wants, here)
    BY <1>7, <1>9, Zenon
  <2> QED BY <1>7, <1>8, <2>1
<1> QED BY <1>2, <1>10, Zenon DEF winners, here, fs, root

\* A plugin is detected exactly where the project holds what its author asks
\* for, of the plugins that are installed for that project, whoever loaded
\* them before and whatever the versions (plugin-loader.ts:166-228).
THEOREM PluginsAreDetected == PluginSpec => DetectedAsWritten
<1>1. PluginInit => PluginsInv /\ DetectInv
  BY PluginsBegin, DetectBegins
<1>2. PluginsInv /\ DetectInv /\ [PluginNext]_pluginVars => (PluginsInv /\ DetectInv)'
  BY PluginsGoOn, DetectGoesOn
<1>3. PluginsInv /\ DetectInv =>
        [ (EndDetect /\ ~ moved /\ asOf[job.root] # <<>>)
          => answer'.plugins =
                { p \in UNION { Winner(asOf[job.root], job.root, n) : n \in Names } :
                     Meets(Parts[p.text].wants, tree[job.root]) } ]_pluginVars
  BY DetectedAtTheEnd
<1> QED BY <1>1, <1>2, <1>3, PTL DEF PluginSpec, DetectedAsWritten

=============================================================================
