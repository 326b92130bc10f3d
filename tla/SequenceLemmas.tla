---------------------------- MODULE SequenceLemmas ----------------------------
(***************************************************************************)
(* Facts that the proofs of several modules need: induction over numbers   *)
(* and what FlattenSeq and Where make of sequences.                        *)
(*                                                                         *)
(* The induction theorems of the library take a predicate as a parameter,  *)
(* which the provers cannot instantiate; here the predicate is a set T.    *)
(***************************************************************************)
EXTENDS Selection, FiniteSetTheorems, SequenceTheorems, WellFoundedInduction, TLAPS

\* Every set of numbers has a least one, by the library's theorem on <.
Less == {ss \in Nat \X Nat : ss[1] < ss[2]}

LEMMA LessWellFounded == IsWellFoundedOn(Less, Nat)
BY NatLessThanWellFounded DEF OpToRel, Less

LEMMA LeastOf ==
  ASSUME NEW S, S \subseteq Nat, S # {}
  PROVE  \E n \in S : \A m \in S : n <= m
<1>1. \A x, y \in Nat : <<y, x>> \in Less <=> y < x
  BY DEF Less
<1>2. PICK x \in S : \A y \in S : ~(<<y, x>> \in Less)
  BY LessWellFounded, WFMin
<1>3. \A y \in S : x <= y
  <2> TAKE y \in S
  <2>1. x \in Nat /\ y \in Nat /\ ~(y < x)
    BY <1>1, <1>2
  <2> QED BY <2>1
<1> QED BY <1>3

\* What is true of 0 and, from each number to the next, up to n, is true up to n.
LEMMA UpTo ==
  ASSUME NEW n \in Nat, NEW T, 0 \in T, \A k \in 0..n : k \in T /\ k < n => k + 1 \in T
  PROVE  \A k \in 0..n : k \in T
<1> SUFFICES ASSUME NEW k \in 0..n, k \notin T
             PROVE  FALSE
  OBVIOUS
<1> DEFINE S == {m \in 0..n : m \notin T}
<1>1. S \subseteq Nat /\ S # {}
  OBVIOUS
<1>2. PICK least \in S : \A m \in S : least <= m
  BY <1>1, LeastOf
<1>3. least \in 0..n /\ least \notin T /\ least # 0
  OBVIOUS
<1>4. least - 1 \in 0..n /\ least - 1 < n /\ (least - 1) + 1 = least
  BY <1>3
<1>5. least - 1 \in T
  <2> SUFFICES ASSUME least - 1 \notin T PROVE FALSE
    OBVIOUS
  <2>1. least - 1 \in S
    BY <1>4
  <2> QED BY <1>2, <1>3, <2>1
<1> QED BY <1>3, <1>4, <1>5

\* Sequences of members of R.
LEMMA Member ==
  ASSUME NEW R, NEW seq \in Seq(R)
  PROVE  Len(seq) \in Nat /\ DOMAIN seq = 1..Len(seq) /\ \A k \in 1..Len(seq) : seq[k] \in R
OBVIOUS

LEMMA WiderSeq ==
  ASSUME NEW A, NEW B, A \subseteq B, NEW seq \in Seq(A)
  PROVE  seq \in Seq(B)
OBVIOUS

LEMMA RangeEnds == \A m \in Nat : 0 \in 0..m /\ m \in 0..m /\ \A k \in 1..m : k - 1 \in 0..m /\ k \in 0..m
OBVIOUS

LEMMA LongerNotEmpty ==
  ASSUME NEW R, NEW a \in Seq(R), NEW b \in Seq(R), Len(b) = 1
  PROVE  a \o b # << >>
<1>1. Len(a \o b) = Len(a) + Len(b)
  BY ConcatProperties, Zenon
<1>2. Len(a) \in Nat
  OBVIOUS
<1>3. a \o b \in Seq(R)
  BY ConcatProperties, Zenon
<1> QED BY <1>1, <1>2, <1>3

LEMMA Pair ==
  ASSUME NEW R, NEW x \in R, NEW y \in R
  PROVE  <<x>> \o <<y>> = <<x, y>>
<1>1. <<x>> \in Seq(R) /\ <<y>> \in Seq(R) /\ <<x, y>> \in Seq(R)
  OBVIOUS
<1>2. Len(<<x>> \o <<y>>) = 2 /\ (<<x>> \o <<y>>)[1] = x /\ (<<x>> \o <<y>>)[2] = y
  BY <1>1
<1>3. Len(<<x, y>>) = 2 /\ <<x, y>>[1] = x /\ <<x, y>>[2] = y
  OBVIOUS
<1>4. \A a, b \in Seq(R) : Len(a) = 2 /\ Len(b) = 2 /\ a[1] = b[1] /\ a[2] = b[2] => a = b
  <2> SUFFICES ASSUME NEW a \in Seq(R), NEW b \in Seq(R), Len(a) = 2, Len(b) = 2, a[1] = b[1], a[2] = b[2]
               PROVE  a = b
    OBVIOUS
  <2>1. \A k \in 1..2 : k = 1 \/ k = 2
    OBVIOUS
  <2> QED BY <2>1
<1>5. <<x>> \o <<y>> \in Seq(R)
  BY <1>1
<1> QED BY <1>1, <1>2, <1>3, <1>4, <1>5

\* What stands between the first and the last member.
LEMMA Between ==
  ASSUME NEW R, NEW inner \in Seq(R), NEW open \in R, NEW close \in R
  PROVE  LET text == <<open>> \o inner \o <<close>>
         IN  Len(text) = Len(inner) + 2 /\ SubSeq(text, 2, Len(text) - 1) = inner
<1> DEFINE N == Len(inner)
           front == <<open>> \o inner
           text == front \o <<close>>
<1>1. N \in Nat /\ <<open>> \in Seq(R) /\ <<close>> \in Seq(R) /\ Len(<<open>>) = 1 /\ Len(<<close>>) = 1
  OBVIOUS
<1>2. front \in Seq(R) /\ Len(front) = N + 1 /\ \A k \in 1..N : front[1 + k] = inner[k]
  BY <1>1
<1> HIDE DEF front
<1>3. text \in Seq(R) /\ Len(text) = N + 2 /\ \A k \in 1..N + 1 : text[k] = front[k]
  BY <1>1, <1>2
<1> HIDE DEF text
<1>4. \A k \in 1..N : k + 1 \in 1..N + 1 /\ 1 + k = k + 1
  BY <1>1
<1>5. \A k \in 1..N : text[k + 1] = inner[k]
  BY <1>2, <1>3, <1>4
<1>6. /\ SubSeq(text, 2, N + 1) \in Seq(R) /\ Len(SubSeq(text, 2, N + 1)) = N
      /\ \A k \in 1..N : SubSeq(text, 2, N + 1)[k] = text[k + 1]
  BY <1>1, <1>3
<1>7. SubSeq(text, 2, N + 1) = inner
  BY <1>1, <1>5, <1>6
<1> QED BY <1>1, <1>3, <1>7 DEF text, front

\* The beginnings of a sequence grow by one member at a time.
LEMMA Beginnings ==
  ASSUME NEW R, NEW seq \in Seq(R)
  PROVE  /\ SubSeq(seq, 1, 0) = << >> /\ SubSeq(seq, 1, Len(seq)) = seq
         /\ \A k \in 0..Len(seq) : SubSeq(seq, 1, k) \in Seq(R)
         /\ \A k \in 1..Len(seq) : SubSeq(seq, 1, k) = Append(SubSeq(seq, 1, k - 1), seq[k])
<1>1. Len(seq) \in Nat /\ \A k \in 1..Len(seq) : seq[k] \in R
  OBVIOUS
<1>2. \A k \in 0..Len(seq) : /\ SubSeq(seq, 1, k) \in Seq(R) /\ Len(SubSeq(seq, 1, k)) = k
                             /\ \A i \in 1..k : SubSeq(seq, 1, k)[i] = seq[i]
  BY <1>1
<1>3. ASSUME NEW k \in 1..Len(seq)
      PROVE  SubSeq(seq, 1, k) = Append(SubSeq(seq, 1, k - 1), seq[k])
  <2> DEFINE longer == Append(SubSeq(seq, 1, k - 1), seq[k])
  <2>1. k - 1 \in 0..Len(seq) /\ k \in 0..Len(seq) /\ k \in Nat
    BY <1>1
  <2>2. /\ longer \in Seq(R) /\ Len(longer) = k /\ longer[k] = seq[k]
        /\ \A i \in 1..(k - 1) : longer[i] = SubSeq(seq, 1, k - 1)[i]
    BY <1>1, <1>2, <2>1
  <2> HIDE DEF longer
  <2>3. \A i \in 1..k : longer[i] = SubSeq(seq, 1, k)[i]
    <3> TAKE i \in 1..k
    <3>1. i = k \/ i \in 1..(k - 1)
      BY <2>1
    <3> QED BY <1>2, <2>1, <2>2, <3>1
  <2>4. longer = SubSeq(seq, 1, k)
    BY <1>2, <2>1, <2>2, <2>3
  <2> QED BY <2>4 DEF longer
<1>4. SubSeq(seq, 1, 0) = << >>
  BY <1>1, <1>2
<1>5. SubSeq(seq, 1, Len(seq)) = seq
  BY <1>1, <1>2
<1> QED BY <1>2, <1>3, <1>4, <1>5

\* A loop of n rounds has a state after each of them.
Iterates(f, first, step, n) ==
    /\ f[0] = first
    /\ \A k \in 1..n : f[k] = step[<<f[k - 1], k>>]

LEMMA IterationExists ==
  ASSUME NEW n \in Nat, NEW A, NEW first \in A, NEW step \in [A \X (1..n) -> A]
  PROVE  \E f \in [0..n -> A] : Iterates(f, first, step, n)
<1> DEFINE T == {m \in 0..n : \E f \in [0..m -> A] : Iterates(f, first, step, m)}
<1>1. 0 \in T
  <2> DEFINE f == [k \in 0..0 |-> first]
  <2>1. f \in [0..0 -> A] /\ 0 \in 0..n
    OBVIOUS
  <2>2. Iterates(f, first, step, 0)
    BY DEF Iterates
  <2> HIDE DEF f
  <2> QED BY <2>1, <2>2
<1>2. ASSUME NEW m \in 0..n, m \in T, m < n
      PROVE  m + 1 \in T
  <2>1. PICK f \in [0..m -> A] : Iterates(f, first, step, m)
    BY <1>2
  <2> DEFINE g == [k \in 0..m + 1 |-> IF k = m + 1 THEN step[<<f[m], m + 1>>] ELSE f[k]]
  <2>2. m \in Nat /\ m + 1 \in 1..n /\ m + 1 \in 0..n /\ m \in 0..m
    BY <1>2
  <2>3. step[<<f[m], m + 1>>] \in A
    BY <2>2
  <2>4. \A k \in 0..m + 1 : k = m + 1 \/ k \in 0..m
    BY <2>2
  <2>5. g \in [0..m + 1 -> A]
    BY <2>3, <2>4
  <2>6. /\ g[m + 1] = step[<<f[m], m + 1>>] /\ \A k \in 0..m : g[k] = f[k]
    BY <2>2
  <2> HIDE DEF g
  <2>7. ASSUME NEW k \in 1..m + 1
        PROVE  g[k] = step[<<g[k - 1], k>>]
    <3>1. k - 1 \in 0..m
      BY <2>2
    <3>2. CASE k = m + 1
      <4>1. k - 1 = m
        BY <2>2, <3>2
      <4> QED BY <2>2, <2>6, <3>2, <4>1
    <3>3. CASE k # m + 1
      <4>1. k \in 1..m /\ k \in 0..m
        BY <2>2, <3>3
      <4> QED BY <2>1, <2>6, <3>1, <4>1 DEF Iterates
    <3> QED BY <3>2, <3>3
  <2>8. g[0] = first
    BY <2>1, <2>2, <2>6 DEF Iterates
  <2>9. Iterates(g, first, step, m + 1)
    BY <2>7, <2>8 DEF Iterates
  <2> QED BY <2>2, <2>5, <2>9
<1> HIDE DEF T
<1>3. n \in T
  <2>1. \A m \in 0..n : m \in T
    BY <1>1, <1>2, UpTo
  <2> QED BY <2>1
<1> QED BY <1>3 DEF T

Unfolds(f, ss) == f = [i \in 1..Len(ss) |-> IF i = 1 THEN ss[i] ELSE f[i - 1] \o ss[i]]

LEMMA FlatCases ==
  ASSUME NEW ss, Len(ss) # 0, \E f : Unfolds(f, ss)
  PROVE  \E f : Unfolds(f, ss) /\ FlattenSeq(ss) = f[Len(ss)]
<1>1. Unfolds(CHOOSE f : Unfolds(f, ss), ss)
  OBVIOUS
<1>2. FlattenSeq(ss) = (CHOOSE f : Unfolds(f, ss))[Len(ss)]
  BY DEF FlattenSeq, Unfolds
<1> QED BY <1>1, <1>2

\* The first n sequences one after another, for each n.
Joined(g, ss, n) ==
    /\ g[0] = << >>
    /\ \A k \in 0..n : k < n => g[k + 1] = g[k] \o ss[k + 1]

LEMMA JoinedExists ==
  ASSUME NEW R, NEW ss \in Seq(Seq(R))
  PROVE  \A n \in 0..Len(ss) : \E g \in [0..n -> Seq(R)] : Joined(g, ss, n)
<1> DEFINE T == {n \in 0..Len(ss) : \E g \in [0..n -> Seq(R)] : Joined(g, ss, n)}
<1>1. 0 \in T
  <2> DEFINE g == [k \in 0..0 |-> << >>]
  <2>1. g \in [0..0 -> Seq(R)]
    OBVIOUS
  <2>2. Joined(g, ss, 0)
    BY DEF Joined
  <2> HIDE DEF g
  <2>3. \E gg \in [0..0 -> Seq(R)] : Joined(gg, ss, 0)
    BY <2>1, <2>2
  <2>4. 0 \in 0..Len(ss)
    OBVIOUS
  <2> QED BY <2>3, <2>4
<1>2. ASSUME NEW n \in 0..Len(ss), n \in T, n < Len(ss)
      PROVE  n + 1 \in T
  <2>1. PICK g \in [0..n -> Seq(R)] : Joined(g, ss, n)
    BY <1>2
  <2> DEFINE h == [k \in 0..n + 1 |-> IF k = n + 1 THEN g[n] \o ss[n + 1] ELSE g[k]]
  <2>2. n + 1 \in 1..Len(ss) /\ n \in Nat /\ n \in 0..n
    BY <1>2
  <2>3. g[n] \in Seq(R) /\ ss[n + 1] \in Seq(R)
    BY <2>1, <2>2
  <2>4. h \in [0..n + 1 -> Seq(R)]
    <3>1. g[n] \o ss[n + 1] \in Seq(R)
      BY <2>3, ConcatProperties
    <3>2. \A k \in 0..n + 1 : k # n + 1 => k \in 0..n
      BY <2>2
    <3> QED BY <2>1, <3>1, <3>2
  <2>5. Joined(h, ss, n + 1)
    <3>1. h[0] = << >>
      BY <2>1, <2>2 DEF Joined
    <3>2. ASSUME NEW k \in 0..n + 1, k < n + 1
          PROVE  h[k + 1] = h[k] \o ss[k + 1]
      <4>1. CASE k = n
        <5>1. h[n + 1] = g[n] \o ss[n + 1] /\ h[n] = g[n]
          BY <2>2
        <5> QED BY <4>1, <5>1
      <4>2. CASE k # n
        <5>1. k \in 0..n /\ k < n /\ k + 1 \in 0..n + 1 /\ k + 1 # n + 1 /\ k # n + 1
          BY <2>2, <3>2, <4>2
        <5> QED BY <2>1, <5>1 DEF Joined
      <4> QED BY <4>1, <4>2
    <3> QED BY <3>1, <3>2 DEF Joined
  <2> HIDE DEF h
  <2>6. \E gg \in [0..n + 1 -> Seq(R)] : Joined(gg, ss, n + 1)
    BY <2>4, <2>5
  <2>7. n + 1 \in 0..Len(ss)
    BY <2>2
  <2> QED BY <2>6, <2>7
<1> HIDE DEF T
<1>3. Len(ss) \in Nat
  OBVIOUS
<1>4. \A n \in 0..Len(ss) : n \in T
  BY <1>1, <1>2, <1>3, UpTo
<1> QED BY <1>4 DEF T

\* Sequences in a row are joined one by one.
LEMMA FlatIsJoined ==
  ASSUME NEW R, NEW ss \in Seq(Seq(R))
  PROVE  \E g \in [0..Len(ss) -> Seq(R)] : Joined(g, ss, Len(ss)) /\ FlattenSeq(ss) = g[Len(ss)]
<1>1. PICK g \in [0..Len(ss) -> Seq(R)] : Joined(g, ss, Len(ss))
  BY JoinedExists
<1>2. CASE Len(ss) = 0
  <2>1. ss = << >> /\ FlattenSeq(ss) = ss
    BY <1>2 DEF FlattenSeq
  <2> QED BY <1>1, <1>2, <2>1 DEF Joined
<1>3. CASE Len(ss) # 0
  <2> DEFINE n == Len(ss)
             f == [i \in 1..n |-> g[i]]
  <2>0. n \in Nat /\ n # 0 /\ n \in 0..n /\ \A i \in 1..n : i \in 0..n /\ i - 1 \in 0..n /\ i - 1 < n /\ (i - 1) + 1 = i
    BY <1>3
  <2>1. \A i \in 1..n : ss[i] \in Seq(R)
    OBVIOUS
  <2>2. \A i \in 1..n : g[i] = g[i - 1] \o ss[i]
    BY <1>1, <2>0 DEF Joined
  <2>3. ASSUME NEW i \in 1..n
        PROVE  g[i] = IF i = 1 THEN ss[i] ELSE f[i - 1] \o ss[i]
    <3>1. CASE i = 1
      <4>1. g[0] = << >>
        BY <1>1 DEF Joined
      <4>2. g[1] = g[1 - 1] \o ss[1]
        BY <2>2, <3>1
      <4>3. 1 - 1 = 0
        OBVIOUS
      <4>4. g[1] = g[0] \o ss[1]
        BY <4>2, <4>3
      <4> QED BY <2>1, <3>1, <4>1, <4>4
    <3>2. CASE i # 1
      <4>1. i - 1 \in 1..n
        BY <2>0, <3>2
      <4> QED BY <2>2, <3>2, <4>1
    <3> QED BY <3>1, <3>2
  <2>4. Unfolds(f, ss)
    BY <2>3 DEF Unfolds
  <2>5. PICK u : Unfolds(u, ss) /\ FlattenSeq(ss) = u[n]
    BY <1>3, <2>4, FlatCases
  <2> DEFINE T == {k \in 0..n : k = 0 \/ u[k] = g[k]}
  <2> HIDE DEF f
  <2>6. 0 \in T
    BY <2>0
  <2>7. ASSUME NEW k \in 0..n, k \in T, k < n
        PROVE  k + 1 \in T
    <3>1. k + 1 \in 1..n /\ k + 1 \in 0..n /\ (k + 1) - 1 = k /\ (k = 0 <=> k + 1 = 1)
      BY <2>0, <2>7
    <3>2. u[k + 1] = IF k + 1 = 1 THEN ss[k + 1] ELSE u[(k + 1) - 1] \o ss[k + 1]
      BY <2>5, <3>1 DEF Unfolds
    <3>3. CASE k = 0
      <4>1. g[k + 1] = g[k] \o ss[k + 1] /\ g[0] = << >>
        BY <1>1, <2>7 DEF Joined
      <4>2. ss[k + 1] \in Seq(R)
        BY <2>1, <3>1
      <4>3. g[k + 1] = ss[k + 1]
        BY <3>3, <4>1, <4>2
      <4> QED BY <3>1, <3>2, <3>3, <4>3
    <3>4. CASE k # 0
      <4>1. u[k] = g[k]
        BY <2>7, <3>4
      <4>2. g[k + 1] = g[k] \o ss[k + 1]
        BY <1>1, <2>7 DEF Joined
      <4> QED BY <3>1, <3>2, <3>4, <4>1, <4>2
    <3> QED BY <3>3, <3>4
  <2> HIDE DEF T
  <2>8. \A k \in 0..n : k \in T
    BY <2>0, <2>6, <2>7, UpTo
  <2>9. u[n] = g[n]
    BY <2>0, <2>8 DEF T
  <2> QED BY <1>1, <2>5, <2>9
<1> QED BY <1>2, <1>3

\* A row of the first n sequences holds each of them whole, and nothing else.
HoldsAt(row, seq, off) ==
    /\ off \in Nat /\ off + Len(seq) <= Len(row)
    /\ \A j \in 1..Len(seq) : row[off + j] = seq[j]

Row(row, ss, n) ==
    /\ \A i \in 1..n : \E off \in Nat : HoldsAt(row, ss[i], off)
    /\ \A k \in 1..Len(row) : \E i \in 1..n, off \in Nat :
          HoldsAt(row, ss[i], off) /\ k - off \in 1..Len(ss[i])

LEMMA HeldInLonger ==
  ASSUME NEW R, NEW row \in Seq(R), NEW seq \in Seq(R), NEW part \in Seq(R), NEW off \in Nat,
         HoldsAt(row, part, off)
  PROVE  HoldsAt(row \o seq, part, off)
<1>1. /\ Len(row \o seq) = Len(row) + Len(seq) /\ Len(row) \in Nat /\ Len(seq) \in Nat /\ Len(part) \in Nat
      /\ \A k \in 1..Len(row) : (row \o seq)[k] = row[k]
  BY ConcatProperties
<1>2. off + Len(part) <= Len(row \o seq)
  BY <1>1 DEF HoldsAt
<1>3. \A j \in 1..Len(part) : (row \o seq)[off + j] = part[j]
  <2> TAKE j \in 1..Len(part)
  <2>1. off + j \in 1..Len(row)
    BY <1>1 DEF HoldsAt
  <2> QED BY <1>1, <2>1 DEF HoldsAt
<1> QED BY <1>2, <1>3 DEF HoldsAt

LEMMA RowGrows ==
  ASSUME NEW R, NEW ss \in Seq(Seq(R)), NEW n \in 0..Len(ss), n < Len(ss), NEW row \in Seq(R),
         Row(row, ss, n)
  PROVE  Row(row \o ss[n + 1], ss, n + 1)
<1> DEFINE seq == ss[n + 1]
           new == row \o seq
<1>0. n + 1 \in 1..Len(ss) /\ n \in Nat /\ \A i \in 1..n + 1 : ss[i] \in Seq(R) /\ (i \in 1..n \/ i = n + 1)
  OBVIOUS
<1>1. seq \in Seq(R)
  BY <1>0
<1>2. \A i \in 1..n : ss[i] \in Seq(R)
  BY <1>0
<1> HIDE DEF seq
<1>3. /\ new \in Seq(R) /\ Len(new) = Len(row) + Len(seq) /\ Len(row) \in Nat /\ Len(seq) \in Nat
      /\ \A k \in 1..Len(seq) : new[Len(row) + k] = seq[k]
  BY <1>1
<1>4. HoldsAt(new, seq, Len(row))
  BY <1>3 DEF HoldsAt
<1>5. \A i \in 1..n, off \in Nat : HoldsAt(row, ss[i], off) => HoldsAt(new, ss[i], off)
  BY <1>1, <1>2, HeldInLonger
<1> HIDE DEF new
<1>6. \A i \in 1..n + 1 : \E off \in Nat : HoldsAt(new, ss[i], off)
  <2> TAKE i \in 1..n + 1
  <2>1. CASE i = n + 1
    BY <1>3, <1>4, <2>1 DEF seq
  <2>2. CASE i \in 1..n
    <3>1. PICK off \in Nat : HoldsAt(row, ss[i], off)
      BY <2>2 DEF Row
    <3> QED BY <1>5, <2>2, <3>1
  <2> QED BY <1>0, <2>1, <2>2
<1>7. ASSUME NEW k \in 1..Len(new)
      PROVE  \E i \in 1..n + 1, off \in Nat : HoldsAt(new, ss[i], off) /\ k - off \in 1..Len(ss[i])
  <2>1. CASE k \in 1..Len(row)
    <3>1. PICK i \in 1..n, off \in Nat : HoldsAt(row, ss[i], off) /\ k - off \in 1..Len(ss[i])
      BY <2>1 DEF Row
    <3>2. i \in 1..n + 1
      BY <1>0
    <3> QED BY <1>5, <3>1, <3>2
  <2>2. CASE k \notin 1..Len(row)
    <3>1. k - Len(row) \in 1..Len(seq) /\ n + 1 \in 1..n + 1
      BY <1>0, <1>3, <2>2
    <3> QED BY <1>3, <1>4, <3>1 DEF seq
  <2> QED BY <2>1, <2>2
<1> QED BY <1>6, <1>7 DEF Row, new, seq

LEMMA FlatIsRow ==
  ASSUME NEW R, NEW ss \in Seq(Seq(R))
  PROVE  FlattenSeq(ss) \in Seq(R) /\ Row(FlattenSeq(ss), ss, Len(ss))
<1>1. PICK g \in [0..Len(ss) -> Seq(R)] : Joined(g, ss, Len(ss)) /\ FlattenSeq(ss) = g[Len(ss)]
  BY FlatIsJoined
<1> DEFINE T == {k \in 0..Len(ss) : Row(g[k], ss, k)}
<1>2. Len(ss) \in Nat /\ 0 \in 0..Len(ss) /\ Len(ss) \in 0..Len(ss)
  OBVIOUS
<1>3. 0 \in T
  <2>1. g[0] = << >> /\ Len(<< >>) = 0
    BY <1>1 DEF Joined
  <2> QED BY <1>2, <2>1 DEF Row
<1>4. ASSUME NEW k \in 0..Len(ss), k \in T, k < Len(ss)
      PROVE  k + 1 \in T
  <2>1. g[k + 1] = g[k] \o ss[k + 1] /\ g[k] \in Seq(R) /\ k + 1 \in 0..Len(ss)
    BY <1>1, <1>2, <1>4 DEF Joined
  <2>2. Row(g[k] \o ss[k + 1], ss, k + 1)
    BY <1>4, <2>1, RowGrows
  <2> QED BY <2>1, <2>2
<1> HIDE DEF T
<1>5. Len(ss) \in T
  BY <1>2, <1>3, <1>4, UpTo
<1> QED BY <1>1, <1>2, <1>5 DEF T

\* The members of a row are those of its parts.
LEMMA FlatMembers ==
  ASSUME NEW R, NEW ss \in Seq(Seq(R))
  PROVE  /\ FlattenSeq(ss) \in Seq(R)
         /\ \A i \in DOMAIN ss : ToSet(ss[i]) \subseteq ToSet(FlattenSeq(ss))
         /\ \A x \in ToSet(FlattenSeq(ss)) : \E i \in DOMAIN ss : x \in ToSet(ss[i])
<1> DEFINE row == FlattenSeq(ss)
<1>1. row \in Seq(R) /\ Row(row, ss, Len(ss)) /\ DOMAIN ss = 1..Len(ss)
  BY FlatIsRow
<1> HIDE DEF row
<1>0. \A seq \in Seq(R) : DOMAIN seq = 1..Len(seq) /\ Len(seq) \in Nat
  OBVIOUS
<1>2. \A i \in DOMAIN ss : ss[i] \in Seq(R)
  BY <1>1
<1>3. ASSUME NEW i \in DOMAIN ss, NEW j \in DOMAIN ss[i]
      PROVE  ss[i][j] \in ToSet(row)
  <2>1. PICK off \in Nat : HoldsAt(row, ss[i], off)
    BY <1>1 DEF Row
  <2>2. j \in 1..Len(ss[i]) /\ Len(ss[i]) \in Nat /\ DOMAIN row = 1..Len(row) /\ Len(row) \in Nat
    BY <1>0, <1>1, <1>2
  <2>3. off + j \in DOMAIN row /\ row[off + j] = ss[i][j]
    BY <2>1, <2>2 DEF HoldsAt
  <2> QED BY <2>3 DEF ToSet
<1>4. ASSUME NEW k \in DOMAIN row
      PROVE  \E i \in DOMAIN ss : row[k] \in ToSet(ss[i])
  <2>1. PICK i \in DOMAIN ss, off \in Nat : HoldsAt(row, ss[i], off) /\ k - off \in 1..Len(ss[i])
    BY <1>0, <1>1 DEF Row
  <2>2. k \in Int /\ off + (k - off) = k /\ DOMAIN ss[i] = 1..Len(ss[i])
    BY <1>0, <1>1, <1>2
  <2>3. row[k] = ss[i][k - off]
    BY <2>1, <2>2 DEF HoldsAt
  <2> QED BY <2>1, <2>2, <2>3 DEF ToSet
<1> QED BY <1>1, <1>3, <1>4 DEF ToSet, row

-----------------------------------------------------------------------------
\* Where keeps the members at the positions asked for, and no others.
LEMMA WhereMembers ==
  ASSUME NEW R, NEW seq \in Seq(R), NEW S \in SUBSET DOMAIN seq
  PROVE  /\ Where(seq, S) \in Seq(R)
         /\ ToSet(Where(seq, S)) = {seq[i] : i \in S}
<1> DEFINE ss == [i \in 1..Len(seq) |-> IF i \in S THEN <<seq[i]>> ELSE << >>]
<1>1. DOMAIN seq = 1..Len(seq) /\ Len(seq) \in Nat /\ \A i \in 1..Len(seq) : seq[i] \in R
  OBVIOUS
<1>2. ss \in Seq(Seq(R)) /\ DOMAIN ss = 1..Len(seq)
  BY <1>1
<1>3. \A i \in 1..Len(seq) : /\ i \in S => ss[i] = <<seq[i]>>
                             /\ i \notin S => ss[i] = << >>
  OBVIOUS
<1>4. Where(seq, S) = FlattenSeq(ss)
  BY DEF Where
<1> HIDE DEF ss
<1>5. \A i \in S : seq[i] \in ToSet(Where(seq, S))
  <2> TAKE i \in S
  <2>1. i \in 1..Len(seq) /\ ss[i] = <<seq[i]>>
    BY <1>1, <1>3
  <2>2. seq[i] \in ToSet(ss[i])
    BY <2>1 DEF ToSet
  <2> QED BY <1>2, <1>4, <2>1, <2>2, FlatMembers
<1>6. \A x \in ToSet(Where(seq, S)) : \E i \in S : x = seq[i]
  <2> TAKE x \in ToSet(Where(seq, S))
  <2>1. PICK i \in 1..Len(seq) : x \in ToSet(ss[i])
    BY <1>2, <1>4, FlatMembers
  <2>2. i \in S
    <3> SUFFICES ASSUME i \notin S PROVE FALSE
      OBVIOUS
    <3>1. ss[i] = << >>
      BY <1>3
    <3> QED BY <2>1, <3>1 DEF ToSet
  <2>3. ToSet(ss[i]) = {seq[i]}
    BY <1>3, <2>2 DEF ToSet
  <2> QED BY <2>1, <2>2, <2>3
<1> QED BY <1>2, <1>4, <1>5, <1>6, FlatMembers

\* They keep their order: the k-th comes from position pos[k].
Picks(row, seq, S, pos) ==
    /\ pos \in [1..Len(row) -> S]
    /\ \A k \in 1..Len(row) : row[k] = seq[pos[k]]
    /\ \A j, k \in 1..Len(row) : j < k => pos[j] < pos[k]
    /\ \A i \in S : \E k \in 1..Len(row) : pos[k] = i

LEMMA PickOne ==
  ASSUME NEW R, NEW seq \in Seq(R), NEW row \in Seq(R), NEW n \in 1..Len(seq),
         NEW S, S \subseteq 1..(n - 1), NEW pos, Picks(row, seq, S, pos)
  PROVE  \E new : Picks(Append(row, seq[n]), seq, S \cup {n}, new)
<1> DEFINE N == Len(row)
           longer == Append(row, seq[n])
           new == [k \in 1..N + 1 |-> IF k = N + 1 THEN n ELSE pos[k]]
<1>1. /\ N \in Nat /\ n \in Nat /\ seq[n] \in R
      /\ Len(longer) = N + 1 /\ longer[N + 1] = seq[n]
      /\ \A k \in 1..N : longer[k] = row[k]
  OBVIOUS
<1>2. \A k \in 1..N : pos[k] \in S /\ pos[k] < n
  <2> TAKE k \in 1..N
  <2>1. pos[k] \in S
    BY DEF Picks
  <2>2. n \in Nat /\ \A i \in S : i < n
    BY <1>1
  <2> QED BY <2>1, <2>2
<1>3. /\ new[N + 1] = n /\ DOMAIN new = 1..N + 1
      /\ \A k \in 1..N : new[k] = pos[k]
      /\ \A k \in 1..N + 1 : k \in 1..N \/ k = N + 1
      /\ N + 1 \in 1..N + 1
  BY <1>1
<1>4. new \in [1..N + 1 -> S \cup {n}]
  BY <1>2, <1>3
<1> HIDE DEF new, longer
<1>5. \A k \in 1..N + 1 : longer[k] = seq[new[k]]
  BY <1>1, <1>2, <1>3 DEF Picks
<1>6. ASSUME NEW j \in 1..N + 1, NEW k \in 1..N + 1, j < k
      PROVE  new[j] < new[k]
  <2>1. j \in 1..N
    BY <1>1, <1>6
  <2>2. CASE k \in 1..N
    BY <1>3, <1>6, <2>1, <2>2 DEF Picks
  <2>3. CASE k = N + 1
    BY <1>2, <1>3, <2>1, <2>3
  <2> QED BY <1>3, <2>2, <2>3
<1>7. ASSUME NEW i \in S \cup {n}
      PROVE  \E k \in 1..N + 1 : new[k] = i
  <2>1. CASE i = n
    BY <1>3, <2>1
  <2>2. CASE i \in S
    <3>1. PICK k \in 1..N : pos[k] = i
      BY <2>2 DEF Picks
    <3> QED BY <1>1, <1>3, <3>1
  <2> QED BY <2>1, <2>2
<1>8. Picks(longer, seq, S \cup {n}, new)
  BY <1>1, <1>4, <1>5, <1>6, <1>7 DEF Picks
<1> QED BY <1>8 DEF longer

LEMMA WherePicks ==
  ASSUME NEW R, NEW seq \in Seq(R), NEW S \in SUBSET DOMAIN seq
  PROVE  \E pos : Picks(Where(seq, S), seq, S, pos)
<1> DEFINE n == Len(seq)
           ss == [i \in 1..n |-> IF i \in S THEN <<seq[i]>> ELSE << >>]
           upTo(k) == {i \in S : i <= k}
<1>1. DOMAIN seq = 1..n /\ n \in Nat /\ \A i \in 1..n : seq[i] \in R
  OBVIOUS
<1>2. ss \in Seq(Seq(R)) /\ Len(ss) = n
  BY <1>1
<1>3. \A i \in 1..n : /\ i \in S => ss[i] = <<seq[i]>>
                      /\ i \notin S => ss[i] = << >>
  OBVIOUS
<1>4. Where(seq, S) = FlattenSeq(ss)
  BY DEF Where
<1> HIDE DEF ss
<1>5. PICK g \in [0..n -> Seq(R)] : Joined(g, ss, n) /\ Where(seq, S) = g[n]
  BY <1>2, <1>4, FlatIsJoined
<1> DEFINE T == {k \in 0..n : \E pos : Picks(g[k], seq, upTo(k), pos)}
<1>6. 0 \in T
  <2>1. g[0] = << >> /\ Len(<< >>) = 0 /\ upTo(0) = {} /\ 0 \in 0..n
    BY <1>1, <1>5 DEF Joined
  <2>2. Picks(g[0], seq, upTo(0), << >>)
    BY <2>1 DEF Picks
  <2> QED BY <2>1, <2>2
<1>7. ASSUME NEW k \in 0..n, k \in T, k < n
      PROVE  k + 1 \in T
  <2>1. PICK pos : Picks(g[k], seq, upTo(k), pos)
    BY <1>7
  <2>2. g[k + 1] = g[k] \o ss[k + 1] /\ g[k] \in Seq(R) /\ k + 1 \in 1..n /\ k + 1 \in 0..n /\ k \in Nat
    BY <1>1, <1>5, <1>7 DEF Joined
  <2>3. upTo(k) \subseteq 1..((k + 1) - 1) /\ S \subseteq 1..n
    BY <1>1, <2>2
  <2>4. CASE k + 1 \in S
    <3>1. seq[k + 1] \in R /\ g[k + 1] = g[k] \o <<seq[k + 1]>>
      BY <1>1, <1>3, <2>2, <2>4
    <3>2. g[k + 1] = Append(g[k], seq[k + 1])
      BY <2>2, <3>1
    <3>3. upTo(k + 1) = upTo(k) \cup {k + 1}
      BY <1>1, <2>2, <2>3, <2>4
    <3>4. \E new : Picks(Append(g[k], seq[k + 1]), seq, upTo(k) \cup {k + 1}, new)
      BY <2>1, <2>2, <2>3, PickOne
    <3> QED BY <2>2, <3>2, <3>3, <3>4
  <2>5. CASE k + 1 \notin S
    <3>1. g[k + 1] = g[k] \o << >>
      BY <1>3, <2>2, <2>5
    <3>2. g[k + 1] = g[k]
      BY <2>2, <3>1
    <3>3. upTo(k + 1) = upTo(k)
      BY <1>1, <2>2, <2>3, <2>5
    <3> QED BY <2>1, <2>2, <3>2, <3>3
  <2> QED BY <2>4, <2>5
<1> HIDE DEF T
<1>8. n \in T
  <2>1. \A k \in 0..n : k \in T
    BY <1>1, <1>6, <1>7, UpTo
  <2> QED BY <1>1, <2>1
<1>9. upTo(n) = S
  BY <1>1
<1> QED BY <1>5, <1>8, <1>9 DEF T

\* What is there once in the positions asked for is there once in the row.
LEMMA WhereOnce ==
  ASSUME NEW R, NEW seq \in Seq(R), NEW S \in SUBSET DOMAIN seq,
         \A i, j \in S : seq[i] = seq[j] => i = j
  PROVE  \A i, j \in DOMAIN Where(seq, S) : Where(seq, S)[i] = Where(seq, S)[j] => i = j
<1> DEFINE row == Where(seq, S)
<1>1. row \in Seq(R)
  BY WhereMembers
<1>2. PICK pos : Picks(row, seq, S, pos)
  BY WherePicks
<1> HIDE DEF row
<1>3. DOMAIN row = 1..Len(row) /\ Len(row) \in Nat /\ S \subseteq Nat
  BY <1>1
<1>4. pos \in [1..Len(row) -> S]
  BY <1>2 DEF Picks
<1>5. ASSUME NEW i \in 1..Len(row), NEW j \in 1..Len(row), row[i] = row[j]
      PROVE  i = j
  <2>1. pos[i] \in S /\ pos[j] \in S
    BY <1>4
  <2>2. seq[pos[i]] = seq[pos[j]]
    BY <1>2, <1>5 DEF Picks
  <2>3. pos[i] = pos[j] /\ pos[i] \in Nat
    BY <1>3, <2>1, <2>2
  <2>4. i < j => pos[i] < pos[j]
    BY <1>2 DEF Picks
  <2>5. j < i => pos[j] < pos[i]
    BY <1>2 DEF Picks
  <2> QED BY <1>3, <2>3, <2>4, <2>5
<1> QED BY <1>3, <1>5 DEF row
=============================================================================
