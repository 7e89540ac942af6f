-------------------------- MODULE PositionsProofs --------------------------
(***************************************************************************)
(* Theorems about Positions: lines and offsets, for any contents.  The     *)
(* loops of the code are recursive functions there; that such a function   *)
(* exists, and what holds of all its values, is shown here for each of     *)
(* them, by the least number for which it would not.                       *)
(***************************************************************************)
EXTENDS Positions, FiniteSetTheorems, WellFoundedInduction, TLAPS

LEMMA Least ==
  ASSUME NEW S, S \subseteq Nat, S # {}
  PROVE  \E m \in S : \A k \in S : m <= k
<1>1. PICK m \in S : \A k \in S : ~(<<k, m>> \in OpToRel(<, Nat))
  BY WFMin, NatLessThanWellFounded
<1>2. ASSUME NEW k \in S PROVE m <= k
  <2>1. k \in Nat /\ m \in Nat /\ ~(<<k, m>> \in OpToRel(<, Nat))
    BY <1>1
  <2> QED
    BY <2>1 DEF OpToRel
<1> QED
  BY <1>2

\* A set that has 0, and with a number the next one, has all up to n.
LEMMA Climb ==
  ASSUME NEW n \in Nat, NEW S, 0 \in S, \A i \in 0 .. n - 1 : i \in S => i + 1 \in S
  PROVE  \A i \in 0 .. n : i \in S
<1> SUFFICES ASSUME NEW j \in 0 .. n, j \notin S PROVE FALSE
  OBVIOUS
<1> DEFINE T == {i \in 0 .. n : i \notin S}
<1>1. PICK m \in T : \A k \in T : m <= k
  <2>1. T \subseteq Nat /\ T # {}
    OBVIOUS
  <2> HIDE DEF T
  <2> QED
    BY <2>1, Least
<1>2. m \in 0 .. n /\ m # 0
  OBVIOUS
<1>3. m - 1 \in 0 .. n - 1 /\ m - 1 \notin T /\ m - 1 + 1 = m
  BY <1>1, <1>2
<1> QED
  BY <1>2, <1>3

-----------------------------------------------------------------------------
(***************************************************************************)
(* The loop that splits a content                                          *)
(***************************************************************************)
Start == [start |-> 0, lines |-> <<>>]

LEMMA LoopExists ==
  ASSUME NEW t, NEW n \in Nat
  PROVE  \E w : w = [i \in 0 .. n |->
                       IF i = 0 THEN Start ELSE SplitStep(t, w[i - 1], i - 1)]
<1> DEFINE Is(m, w) == w = [i \in 0 .. m |->
                              IF i = 0 THEN Start ELSE SplitStep(t, w[i - 1], i - 1)]
           S == {m \in Nat : \E w : Is(m, w)}
<1>1. 0 \in S
  <2>1. PICK w : w = [i \in 0 .. 0 |-> Start]
    OBVIOUS
  <2>2. Is(0, w)
    BY <2>1
  <2> QED
    BY <2>2
<1>2. ASSUME NEW m \in 0 .. n - 1, m \in S PROVE m + 1 \in S
  <2>1. PICK v : Is(m, v)
    BY <1>2
  <2>2. PICK w : w = [i \in 0 .. m + 1 |-> IF i = m + 1 THEN SplitStep(t, v[m], m) ELSE v[i]]
    OBVIOUS
  <2>3. m \in Nat /\ m + 1 \in Nat
    OBVIOUS
  <2>4. \A i \in 0 .. m : w[i] = v[i]
    BY <2>2, <2>3
  <2>5. \A i \in 0 .. m : v[i] = IF i = 0 THEN Start ELSE SplitStep(t, v[i - 1], i - 1)
    BY <2>1
  <2>6. ASSUME NEW i \in 0 .. m + 1
        PROVE  w[i] = IF i = 0 THEN Start ELSE SplitStep(t, w[i - 1], i - 1)
    <3>1. CASE i = 0
      BY <2>3, <2>4, <2>5, <3>1
    <3>2. CASE i \in 1 .. m
      <4>1. i \in 0 .. m /\ i - 1 \in 0 .. m /\ i # 0
        BY <2>3, <3>2
      <4> QED
        BY <2>4, <2>5, <4>1
    <3>3. CASE i = m + 1
      <4>1. w[i] = SplitStep(t, v[m], m) /\ i - 1 = m /\ m \in 0 .. m /\ i # 0
        BY <2>2, <2>3, <3>3
      <4> QED
        BY <2>4, <4>1
    <3> QED
      BY <2>3, <3>1, <3>2, <3>3
  <2>7. Is(m + 1, w)
    BY <2>2, <2>6
  <2> QED
    BY <2>3, <2>7
<1> HIDE DEF S
<1>3. n \in S
  BY <1>1, <1>2, Climb
<1> QED
  BY <1>3 DEF S

\* SplitFile by the values of the loop.
LEMMA SplitFileOf ==
  ASSUME NEW t \in Seq(Bytes)
  PROVE  \E w : /\ w[0] = Start
                /\ \A i \in 1 .. Len(t) : w[i] = SplitStep(t, w[i - 1], i - 1)
                /\ SplitFile(t) = IF w[Len(t)].start < Len(t)
                                    THEN Push(w[Len(t)], Len(t), 0).lines
                                    ELSE w[Len(t)].lines
<1> DEFINE n == Len(t)
           Is(w) == w = [i \in 0 .. n |->
                           IF i = 0 THEN [start |-> 0, lines |-> <<>>]
                           ELSE SplitStep(t, w[i - 1], i - 1)]
           w == CHOOSE w : Is(w)
<1>1. n \in Nat
  OBVIOUS
<1>2. \E v : Is(v)
  <2> HIDE DEF n
  <2> QED
    BY <1>1, LoopExists DEF Start
<1>3. Is(w)
  BY <1>2
<1>4. SplitFile(t) = IF w[n].start < n THEN Push(w[n], n, 0).lines ELSE w[n].lines
  BY DEF SplitFile
<1> HIDE DEF n, w
<1>5. w[0] = Start
  BY <1>1, <1>3 DEF Start
<1>6. \A i \in 1 .. n : w[i] = SplitStep(t, w[i - 1], i - 1)
  BY <1>1, <1>3
<1> QED
  BY <1>4, <1>5, <1>6 DEF n

-----------------------------------------------------------------------------
(***************************************************************************)
(* The loops that convert offsets: they go from a place p to a[p], which   *)
(* is nearer to the end, and stop in D.                                    *)
(***************************************************************************)
LEMMA Nearer ==
  ASSUME NEW P, NEW m, NEW S, \A p \in P : m[p] \in Nat,
         \A p \in P : (\A q \in P : m[q] < m[p] => q \in S) => p \in S
  PROVE  \A p \in P : p \in S
<1> SUFFICES ASSUME NEW o \in P, o \notin S PROVE FALSE
  OBVIOUS
<1> DEFINE T == {m[p] : p \in {q \in P : q \notin S}}
<1>1. PICK k \in T : \A l \in T : k <= l
  <2>1. T \subseteq Nat /\ T # {}
    OBVIOUS
  <2> HIDE DEF T
  <2> QED
    BY <2>1, Least
<1>2. PICK p \in {q \in P : q \notin S} : m[p] = k
  BY <1>1, Zenon
<1>3. ASSUME NEW q \in P, m[q] < m[p] PROVE q \in S
  <2>1. m[q] \notin T
    <3>1. m[q] \in Nat /\ m[p] \in Nat /\ m[p] = k
      BY <1>2
    <3> HIDE DEF T
    <3> QED
      BY <1>1, <1>3, <3>1
  <2> QED
    BY <2>1
<1> QED
  BY <1>2, <1>3

Walks(N, P, m, D, c, h, a) ==
    /\ N \in Nat
    /\ \A p \in P : m[p] \in 0 .. N
    /\ \A p \in P : p \in D => c[p] \in Int
    /\ \A p \in P : p \notin D => h[p] \in Int /\ a[p] \in P /\ m[a[p]] < m[p]

LEMMA WalkExists ==
  ASSUME NEW N, NEW P, NEW m, NEW D, NEW c, NEW h, NEW a, Walks(N, P, m, D, c, h, a)
  PROVE  \E w \in [P -> Int] :
           \A p \in P : w[p] = IF p \in D THEN c[p] ELSE h[p] + w[a[p]]
<1> USE DEF Walks
<1> DEFINE Goes(w, p) == w[p] = IF p \in D THEN c[p] ELSE h[p] + w[a[p]]
           S == {k \in Nat : \E w \in [P -> Int] : \A p \in P : m[p] < k => Goes(w, p)}
<1>1. 0 \in S
  <2>1. [p \in P |-> 0] \in [P -> Int]
    OBVIOUS
  <2>2. \A p \in P : ~(m[p] < 0)
    OBVIOUS
  <2> QED
    BY <2>1, <2>2
<1>2. ASSUME NEW k \in 0 .. N, k \in S PROVE k + 1 \in S
  <2>1. PICK v \in [P -> Int] : \A p \in P : m[p] < k => Goes(v, p)
    BY <1>2
  <2>2. \A p \in P : (IF m[p] < k THEN v[p] ELSE IF p \in D THEN c[p] ELSE h[p] + v[a[p]]) \in Int
    OBVIOUS
  <2>3. PICK w : w = [p \in P |-> IF m[p] < k THEN v[p]
                                  ELSE IF p \in D THEN c[p] ELSE h[p] + v[a[p]]]
    OBVIOUS
  <2>4. ASSUME NEW p \in P, m[p] < k + 1 PROVE Goes(w, p)
    <3>1. p \notin D => a[p] \in P /\ m[a[p]] < k /\ w[a[p]] = v[a[p]]
      BY <2>3, <2>4
    <3>2. w[p] = IF p \in D THEN c[p] ELSE h[p] + v[a[p]]
      BY <2>1, <2>3
    <3> QED
      BY <3>1, <3>2
  <2>5. w \in [P -> Int]
    BY <2>2, <2>3
  <2> QED
    BY <2>4, <2>5
<1> HIDE DEF S
<1>3. N + 1 \in S
  BY <1>1, <1>2, Climb
<1>4. PICK w \in [P -> Int] : \A p \in P : m[p] < N + 1 => Goes(w, p)
  BY <1>3 DEF S
<1> QED
  BY <1>4

LEMMA Stepping ==
  ASSUME NEW s \in Seq(Bytes), NEW n \in Int, n <= Len(s), NEW i \in 0 .. n - 1
  PROVE  /\ Iterate(s, n, i) \in {-1, 1, 2, 4}
         /\ Advance(s, n, i) \in 0 .. n /\ Advance(s, n, i) > i
         /\ UnitsAt(s, n, i) \in 0 .. 2
         /\ UnitsAt(s, n, i) <= Advance(s, n, i) - i
<1>1. Iterate(s, n, i) \in {-1, 1, 2, 4} /\ i + Iterate(s, n, i) <= n
  BY DEF Iterate
<1> QED
  BY <1>1 DEF Advance, UnitsAt

\* The loop of a conversion to code units, and to bytes, by all its values
UnitsWalk(s, n, b, w) ==
    \A i \in 0 .. Len(s) :
      w[i] \in Int /\ w[i] = IF i >= b \/ i >= n THEN 0 ELSE UnitsAt(s, n, i) + w[Advance(s, n, i)]

BytesWalk(s, n, u, w) ==
    \A i \in 0 .. Len(s), left \in -1 .. u :
      /\ w[<<i, left>>] \in Int
      /\ w[<<i, left>>] = IF left <= 0 \/ i >= n THEN i
                         ELSE w[<<Advance(s, n, i), left - UnitsAt(s, n, i)>>]

\* Utf16FromByte by the values of its loop.
LEMMA UnitsOf ==
  ASSUME NEW s \in Seq(Bytes), NEW n \in Int, n <= Len(s), NEW b \in Int
  PROVE  \E w : Utf16FromByte(s, n, b) = w[0] /\ UnitsWalk(s, n, b, w)
<1> DEFINE N == Len(s)
           P == 0 .. N
           Is(w) == w = [i \in 0 .. N |-> IF i >= b \/ i >= n THEN 0
                                          ELSE UnitsAt(s, n, i) + w[Advance(s, n, i)]]
           w == CHOOSE w : Is(w)
<1>1. N \in Nat /\ n <= N
  OBVIOUS
<1>2. Utf16FromByte(s, n, b) = w[0]
  BY DEF Utf16FromByte
<1>3. PICK m, D, c, h, a : /\ m = [i \in P |-> N - i]
                           /\ D = {i \in P : i >= b \/ i >= n}
                           /\ c = [i \in P |-> 0]
                           /\ h = [i \in P |-> UnitsAt(s, n, i)]
                           /\ a = [i \in P |-> Advance(s, n, i)]
  OBVIOUS
<1> HIDE DEF N
<1>4. ASSUME NEW i \in P, i \notin D
      PROVE  h[i] \in Int /\ a[i] \in P /\ m[a[i]] < m[i]
  <2>1. i \in 0 .. n - 1 /\ i \in Nat
    BY <1>1, <1>3, <1>4
  <2>2. PICK j \in 0 .. n, k \in 0 .. 2 : j = Advance(s, n, i) /\ k = UnitsAt(s, n, i) /\ j > i
    BY <1>1, <2>1, Stepping DEF N
  <2>3. h[i] = k /\ a[i] = j /\ m[i] = N - i /\ j \in P
    BY <1>1, <1>3, <2>2
  <2>4. m[j] = N - j
    BY <1>3, <2>3
  <2> QED
    BY <1>1, <2>1, <2>2, <2>3, <2>4
<1>5. \A i \in P : m[i] \in 0 .. N /\ (i \in D => c[i] \in Int)
  BY <1>1, <1>3
<1>6. PICK v \in [P -> Int] : \A i \in P : v[i] = IF i \in D THEN c[i] ELSE h[i] + v[a[i]]
  <2>1. Walks(N, P, m, D, c, h, a)
    BY <1>1, <1>4, <1>5 DEF Walks
  <2> HIDE DEF P
  <2> QED
    BY <2>1, WalkExists
<1>7. \A i \in P : v[i] = IF i >= b \/ i >= n THEN 0
                          ELSE UnitsAt(s, n, i) + v[Advance(s, n, i)]
  BY <1>3, <1>6
<1>8. v = [i \in 0 .. N |-> IF i >= b \/ i >= n THEN 0
                            ELSE UnitsAt(s, n, i) + v[Advance(s, n, i)]]
  BY <1>6, <1>7
<1>9. Is(w)
  BY <1>8
<1> HIDE DEF w
<1>10. PICK S : S = {i \in P : w[i] \in Int}
  OBVIOUS
<1>11. \A i \in P : i \in S
  <2>1. ASSUME NEW p \in P, \A q \in P : m[q] < m[p] => q \in S PROVE p \in S
    <3>1. w[p] = IF p \in D THEN c[p] ELSE h[p] + w[a[p]]
      BY <1>3, <1>9
    <3>2. p \notin D => w[a[p]] \in Int
      BY <1>4, <1>10, <2>1
    <3> QED
      BY <1>4, <1>5, <1>10, <3>1, <3>2
  <2>2. \A p \in P : m[p] \in Nat
    BY <1>5
  <2> HIDE DEF P
  <2> QED
    BY <2>1, <2>2, Nearer
<1>12. \A i \in P : w[i] \in Int
  BY <1>10, <1>11
<1>13. \A i \in P : w[i] = IF i >= b \/ i >= n THEN 0
                           ELSE UnitsAt(s, n, i) + w[Advance(s, n, i)]
  BY <1>9
<1>14. UnitsWalk(s, n, b, w)
  BY <1>12, <1>13 DEF UnitsWalk, N
<1> QED
  BY <1>2, <1>14

\* ByteFromUtf16 by the values of its loop.
LEMMA BytesOf ==
  ASSUME NEW s \in Seq(Bytes), NEW n \in Int, n <= Len(s), NEW u \in Nat
  PROVE  \E w : ByteFromUtf16(s, n, u) = w[<<0, u>>] /\ BytesWalk(s, n, u, w)
<1> DEFINE N == Len(s)
           P == (0 .. N) \X (-1 .. u)
           Is(w) == w = [p \in P |->
                           IF p[2] <= 0 \/ p[1] >= n THEN p[1]
                           ELSE w[<<Advance(s, n, p[1]), p[2] - UnitsAt(s, n, p[1])>>]]
           w == CHOOSE w : Is(w)
<1>1. N \in Nat /\ n <= N
  OBVIOUS
<1>2. ByteFromUtf16(s, n, u) = w[<<0, u>>]
  BY DEF ByteFromUtf16
<1>3. PICK m, D, c, h, a :
           /\ m = [p \in P |-> N - p[1]]
           /\ D = {p \in P : p[2] <= 0 \/ p[1] >= n}
           /\ c = [p \in P |-> p[1]]
           /\ h = [p \in P |-> 0]
           /\ a = [p \in P |-> <<Advance(s, n, p[1]), p[2] - UnitsAt(s, n, p[1])>>]
  OBVIOUS
<1> HIDE DEF N
<1>4. ASSUME NEW p \in P, p \notin D
      PROVE  h[p] = 0 /\ a[p] \in P /\ m[a[p]] < m[p]
  <2>1. PICK i \in 0 .. N, left \in -1 .. u : p = <<i, left>>
    OBVIOUS
  <2>2. i \in 0 .. n - 1 /\ left \in 1 .. u
    BY <1>1, <1>3, <1>4, <2>1
  <2>3. PICK j \in 0 .. n, k \in 0 .. 2 : j = Advance(s, n, i) /\ k = UnitsAt(s, n, i) /\ j > i
    BY <1>1, <2>2, Stepping DEF N
  <2>4. a[p] = <<j, left - k>> /\ m[p] = N - i /\ h[p] = 0
    <3>1. p[1] = i /\ p[2] = left
      BY <2>1
    <3>2. /\ a[p] = <<Advance(s, n, p[1]), p[2] - UnitsAt(s, n, p[1])>>
          /\ m[p] = N - p[1] /\ h[p] = 0
      BY <1>3
    <3> QED
      BY <2>3, <3>1, <3>2
  <2>5. j \in 0 .. N /\ left - k \in -1 .. u
    <3>1. j \in 0 .. N
      BY <1>1, <2>3
    <3>2. left \in Nat /\ left >= 1 /\ left <= u /\ k \in Nat /\ k <= 2
      BY <2>2, <2>3
    <3>3. left - k \in -1 .. u
      BY <3>2
    <3> QED
      BY <3>1, <3>3
  <2>6. PICK q \in P : q = <<j, left - k>>
    BY <2>5
  <2>7. m[q] = N - j
    BY <1>3, <2>6
  <2> QED
    BY <1>1, <2>1, <2>2, <2>3, <2>4, <2>6, <2>7
<1>5. \A p \in P : m[p] \in 0 .. N /\ c[p] = p[1] /\ c[p] \in Int
  BY <1>1, <1>3
<1>6. PICK v \in [P -> Int] : \A p \in P : v[p] = IF p \in D THEN c[p] ELSE h[p] + v[a[p]]
  <2>1. Walks(N, P, m, D, c, h, a)
    BY <1>1, <1>4, <1>5 DEF Walks
  <2> HIDE DEF P
  <2> QED
    BY <2>1, WalkExists
<1>7. \A p \in P : v[p] = IF p \in D THEN p[1] ELSE v[a[p]]
  <2>1. ASSUME NEW p \in P, p \notin D PROVE v[p] = v[a[p]]
    <3>1. v[p] = 0 + v[a[p]] /\ v[a[p]] \in Int
      BY <1>4, <1>6, <2>1
    <3> QED
      BY <3>1
  <2> QED
    BY <1>5, <1>6, <2>1
<1>8. \A p \in P : v[p] = IF p[2] <= 0 \/ p[1] >= n THEN p[1]
                          ELSE v[<<Advance(s, n, p[1]), p[2] - UnitsAt(s, n, p[1])>>]
  BY <1>3, <1>7
<1>9. v = [p \in P |-> IF p[2] <= 0 \/ p[1] >= n THEN p[1]
                       ELSE v[<<Advance(s, n, p[1]), p[2] - UnitsAt(s, n, p[1])>>]]
  BY <1>6, <1>8
<1>10. Is(w)
  BY <1>9
<1> HIDE DEF w
<1>11. \A p \in P : w[p] = IF p[2] <= 0 \/ p[1] >= n THEN p[1]
                           ELSE w[<<Advance(s, n, p[1]), p[2] - UnitsAt(s, n, p[1])>>]
  BY <1>10
<1>12. PICK S : S = {p \in P : w[p] \in Int}
  OBVIOUS
<1>13. \A p \in P : p \in S
  <2>1. ASSUME NEW p \in P, \A q \in P : m[q] < m[p] => q \in S PROVE p \in S
    <3>1. w[p] = IF p \in D THEN p[1] ELSE w[a[p]]
      BY <1>3, <1>11
    <3>2. p \notin D => w[a[p]] \in Int
      BY <1>4, <1>12, <2>1
    <3> QED
      BY <1>5, <1>12, <3>1, <3>2
  <2>2. \A p \in P : m[p] \in Nat
    BY <1>5
  <2> HIDE DEF P
  <2> QED
    BY <2>1, <2>2, Nearer
<1>14. ASSUME NEW i \in 0 .. N, NEW left \in -1 .. u
       PROVE  /\ w[<<i, left>>] \in Int
              /\ w[<<i, left>>] = IF left <= 0 \/ i >= n THEN i
                                 ELSE w[<<Advance(s, n, i), left - UnitsAt(s, n, i)>>]
  <2>0. PICK p : p = <<i, left>>
    OBVIOUS
  <2>1. p \in P /\ p = <<i, left>> /\ p[1] = i /\ p[2] = left
    BY <2>0
  <2> QED
    BY <1>11, <1>12, <1>13, <2>1
<1>15. BytesWalk(s, n, u, w)
  BY <1>14 DEF BytesWalk, N
<1> QED
  BY <1>2, <1>15

-----------------------------------------------------------------------------
(***************************************************************************)
(* The lines that the splitting loop has made when it is to begin another  *)
(* one at start.  A line is wrapped if its length is; after the CR of a    *)
(* CR LF, and then only, the last line is open: a wrapped one follows it.  *)
(***************************************************************************)
Eol == {"CR", "LF"}
Wrapped(l) == l.len = Wrap - 1
EndOf(l) == l.at + l.len
IsOpen(t, ls, k) == ~Wrapped(ls[k]) /\ EndOf(ls[k]) \in CrLfs(t)
Unfinished(t, ls) == Len(ls) > 0 /\ IsOpen(t, ls, Len(ls))

LinesRight(t, ls, start) ==
    /\ \A k \in 1 .. Len(ls) :
         /\ Wrapped(ls[k]) => ls[k].at <= start
         /\ ~Wrapped(ls[k]) => /\ ls[k].at \in LineStarts(t)
                               /\ ls[k] = LineFrom(t, ls[k].at)
                               /\ ls[k].at < start
         /\ Wrapped(ls[k]) <=> k > 1 /\ IsOpen(t, ls, k - 1)
    /\ \A s \in LineStarts(t) :
         s < start => \E k \in 1 .. Len(ls) : ~Wrapped(ls[k]) /\ ls[k].at = s
    /\ \A j, k \in 1 .. Len(ls) :
         j < k /\ ~Wrapped(ls[j]) /\ ~Wrapped(ls[k]) => ls[j].at < ls[k].at

LEMMA ContentsAre ==
  ASSUME NEW t \in Contents
  PROVE  t \in Seq(Bytes) /\ Len(t) \in Nat /\ Len(t) <= MaxLen
BY PositionsAssumption DEF Contents

LEMMA AppendOf ==
  ASSUME NEW S, NEW s \in Seq(S), NEW x \in S
  PROVE  /\ Append(s, x) \in Seq(S)
         /\ Len(Append(s, x)) = Len(s) + 1
         /\ \A k \in 1 .. Len(s) : k \in 1 .. Len(s) + 1 /\ Append(s, x)[k] = s[k]
         /\ Append(s, x)[Len(s) + 1] = x
         /\ \A k \in 1 .. Len(s) + 1 : k \in 1 .. Len(s) \/ k = Len(s) + 1
BY SMTT(60)

LEMMA EndIs ==
  ASSUME NEW t \in Seq(Bytes), NEW s \in Nat, NEW e \in s .. Len(t),
         e < Len(t) => ByteAt(t, e) \in Eol,
         \A i \in s .. e - 1 : ByteAt(t, i) \notin Eol
  PROVE  EndOfLine(t, s) = e
<1> DEFINE Is(x) == /\ x < Len(t) => ByteAt(t, x) \in Eol
                    /\ \A i \in s .. x - 1 : ByteAt(t, i) \notin Eol
<1>1. Is(e)
  OBVIOUS
<1>2. ASSUME NEW x \in s .. Len(t), Is(x) PROVE x = e
  <2>1. x \in Nat /\ e \in Nat /\ Len(t) \in Nat
    OBVIOUS
  <2>2. CASE x < e
    <3>1. x \in s .. e - 1 /\ x < Len(t)
      BY <2>1, <2>2
    <3> QED
      BY <1>2, <3>1
  <2>3. CASE e < x
    <3>1. e \in s .. x - 1 /\ e < Len(t)
      BY <2>1, <2>3
    <3> QED
      BY <1>2, <3>1
  <2> QED
    BY <2>1, <2>2, <2>3
<1> QED
  BY <1>1, <1>2 DEF EndOfLine, Eol

LEMMA Length ==
  /\ \A d \in 0 .. MaxLen : d % Wrap = d /\ d \in 0 .. Wrap - 1 /\ d # Wrap - 1
  /\ (-1) % Wrap = Wrap - 1 /\ Wrap - 1 \in 0 .. Wrap - 1
<1>1. MaxLen \in Nat /\ Wrap \in Nat /\ Wrap > 2 * MaxLen + 2
  BY PositionsAssumption
<1>2. ASSUME NEW d \in 0 .. MaxLen
      PROVE  d % Wrap = d /\ d \in 0 .. Wrap - 1 /\ d # Wrap - 1
  <2>1. d \in 0 .. Wrap - 1 /\ d # Wrap - 1
    BY <1>1
  <2> QED
    BY <1>1, <2>1
<1> QED
  BY <1>1, <1>2

LEMMA AppendLine ==
  ASSUME NEW t \in Contents, NEW ls \in Seq(Line), NEW start \in 0 .. Len(t),
         LinesRight(t, ls, start), ~Unfinished(t, ls), start \in LineStarts(t),
         NEW i \in start .. Len(t), i < Len(t) => ByteAt(t, i) \in Eol,
         \A j \in start .. i - 1 : ByteAt(t, j) \notin Eol,
         NEW next \in 0 .. Len(t), start < next,
         \A s \in LineStarts(t) : s < next => s <= start,
         NEW l, l = [at |-> start, len |-> (i - start) % Wrap]
  PROVE  /\ Append(ls, l) \in Seq(Line)
         /\ LinesRight(t, Append(ls, l), next)
         /\ Unfinished(t, Append(ls, l)) <=> i \in CrLfs(t)
<1>1. /\ t \in Seq(Bytes) /\ Len(t) \in Nat /\ Len(t) <= MaxLen /\ MaxLen \in Nat
      /\ start \in Nat /\ i \in Nat /\ next \in Nat
  BY ContentsAre, PositionsAssumption
<1>2. i - start \in 0 .. MaxLen
  BY <1>1
<1>3. l.at = start /\ l.len = i - start /\ ~Wrapped(l) /\ l \in Line
  <2>1. (i - start) % Wrap = i - start /\ i - start \in 0 .. Wrap - 1 /\ i - start # Wrap - 1
    BY <1>2, Length
  <2> QED
    BY <1>1, <2>1 DEF Wrapped, Line
<1>4. l = LineFrom(t, start)
  <2>1. EndOfLine(t, start) = i
    BY <1>1, EndIs
  <2> QED
    BY <1>3, <2>1 DEF LineFrom
<1>5. EndOf(l) = i
  BY <1>1, <1>3 DEF EndOf
<1>6. PICK n \in Nat : n = Len(ls)
  OBVIOUS
<1>7. PICK m : m = Append(ls, l)
  OBVIOUS
<1>8. /\ m \in Seq(Line) /\ Len(m) = n + 1
      /\ \A k \in 1 .. n : k \in 1 .. n + 1 /\ m[k] = ls[k]
      /\ m[n + 1] = l
      /\ \A k \in 1 .. n + 1 : k \in 1 .. n \/ k = n + 1
  BY <1>3, <1>6, <1>7, AppendOf
<1>9. \A k \in 1 .. n : ls[k] \in Line /\ ls[k].at \in Nat
  <2>1. \A k \in 1 .. n : ls[k] \in Line
    BY <1>6
  <2>2. \A x \in Line : x.at \in Nat
    BY DEF Line
  <2> QED
    BY <2>1, <2>2
<1>10. \A k \in 1 .. n : IsOpen(t, m, k) <=> IsOpen(t, ls, k)
  BY <1>8 DEF IsOpen
<1>11. ASSUME NEW k \in 1 .. n + 1
       PROVE  /\ Wrapped(m[k]) => m[k].at <= next
              /\ ~Wrapped(m[k]) => /\ m[k].at \in LineStarts(t)
                                   /\ m[k] = LineFrom(t, m[k].at)
                                   /\ m[k].at < next
              /\ Wrapped(m[k]) <=> k > 1 /\ IsOpen(t, m, k - 1)
  <2>1. CASE k \in 1 .. n
    <3>1. /\ Wrapped(ls[k]) => ls[k].at <= start
          /\ ~Wrapped(ls[k]) => /\ ls[k].at \in LineStarts(t)
                                /\ ls[k] = LineFrom(t, ls[k].at)
                                /\ ls[k].at < start
          /\ Wrapped(ls[k]) <=> k > 1 /\ IsOpen(t, ls, k - 1)
      BY <1>6, <2>1 DEF LinesRight
    <3>2. m[k] = ls[k] /\ ls[k].at \in Nat
      BY <1>8, <1>9, <2>1
    <3>3. k > 1 => (IsOpen(t, m, k - 1) <=> IsOpen(t, ls, k - 1))
      <4>1. k > 1 => k - 1 \in 1 .. n
        BY <1>6, <2>1
      <4> QED
        BY <1>10, <4>1
    <3>4. Wrapped(m[k]) => m[k].at <= next
      BY <1>1, <3>1, <3>2
    <3>5. ~Wrapped(m[k]) => /\ m[k].at \in LineStarts(t)
                            /\ m[k] = LineFrom(t, m[k].at)
                            /\ m[k].at < next
      BY <1>1, <3>1, <3>2
    <3>6. Wrapped(m[k]) <=> k > 1 /\ IsOpen(t, m, k - 1)
      BY <3>1, <3>2, <3>3
    <3> QED
      BY <3>4, <3>5, <3>6
  <2>2. CASE k = n + 1
    <3>1. ~(k > 1 /\ IsOpen(t, m, k - 1))
      <4>1. k > 1 => k - 1 = n /\ n \in 1 .. n /\ n > 0
        BY <1>6, <2>2
      <4>2. n > 0 => ~IsOpen(t, ls, n)
        BY <1>6 DEF Unfinished
      <4> QED
        BY <1>10, <4>1, <4>2
    <3> QED
      BY <1>3, <1>4, <1>8, <2>2, <3>1
  <2> QED
    BY <1>8, <2>1, <2>2
<1>12. ASSUME NEW s \in LineStarts(t), s < next
       PROVE  \E k \in 1 .. n + 1 : ~Wrapped(m[k]) /\ m[k].at = s
  <2>1. s \in Nat /\ s <= start
    BY <1>1, <1>12 DEF LineStarts
  <2>2. CASE s = start
    <3>1. n + 1 \in 1 .. n + 1
      BY <1>6
    <3> QED
      BY <1>3, <1>8, <2>2, <3>1
  <2>3. CASE s < start
    <3>1. PICK k \in 1 .. n : ~Wrapped(ls[k]) /\ ls[k].at = s
      BY <1>6, <2>3 DEF LinesRight
    <3> QED
      BY <1>8, <3>1
  <2> QED
    BY <1>1, <2>1, <2>2, <2>3
<1>13. ASSUME NEW j \in 1 .. n + 1, NEW k \in 1 .. n + 1,
              j < k, ~Wrapped(m[j]), ~Wrapped(m[k])
       PROVE  m[j].at < m[k].at
  <2>1. j \in 1 .. n /\ m[j] = ls[j]
    BY <1>6, <1>8, <1>13
  <2>2. CASE k \in 1 .. n
    <3>1. m[k] = ls[k]
      BY <1>8, <2>2
    <3> QED
      BY <1>6, <1>13, <2>1, <2>2, <3>1 DEF LinesRight
  <2>3. CASE k = n + 1
    <3>1. ls[j].at < start
      BY <1>6, <1>13, <2>1 DEF LinesRight
    <3> QED
      BY <1>3, <1>8, <2>1, <2>3, <3>1
  <2> QED
    BY <1>8, <2>2, <2>3
<1>14. LinesRight(t, m, next)
  BY <1>8, <1>11, <1>12, <1>13 DEF LinesRight
<1>15. Unfinished(t, m) <=> i \in CrLfs(t)
  <2>1. Len(m) > 0 /\ m[Len(m)] = l
    BY <1>6, <1>8
  <2> QED
    BY <1>3, <1>5, <2>1 DEF Unfinished, IsOpen
<1> QED
  BY <1>7, <1>8, <1>14, <1>15

LEMMA AppendWrapped ==
  ASSUME NEW t \in Contents, NEW ls \in Seq(Line), NEW start \in 0 .. Len(t),
         LinesRight(t, ls, start), Unfinished(t, ls),
         NEW l, l = [at |-> start, len |-> Wrap - 1]
  PROVE  /\ Append(ls, l) \in Seq(Line)
         /\ LinesRight(t, Append(ls, l), start)
         /\ ~Unfinished(t, Append(ls, l))
<1>1. /\ Len(t) \in Nat /\ Len(t) <= MaxLen /\ MaxLen \in Nat /\ start \in Nat
  BY ContentsAre, PositionsAssumption
<1>2. l.at = start /\ Wrapped(l) /\ l \in Line
  BY <1>1, Length DEF Wrapped, Line
<1>3. PICK n \in Nat : n = Len(ls)
  OBVIOUS
<1>4. PICK m : m = Append(ls, l)
  OBVIOUS
<1>5. /\ m \in Seq(Line) /\ Len(m) = n + 1
      /\ \A k \in 1 .. n : k \in 1 .. n + 1 /\ m[k] = ls[k]
      /\ m[n + 1] = l
      /\ \A k \in 1 .. n + 1 : k \in 1 .. n \/ k = n + 1
  BY <1>2, <1>3, <1>4, AppendOf
<1>6. \A k \in 1 .. n : IsOpen(t, m, k) <=> IsOpen(t, ls, k)
  BY <1>5 DEF IsOpen
<1>7. ASSUME NEW k \in 1 .. n + 1
      PROVE  /\ Wrapped(m[k]) => m[k].at <= start
             /\ ~Wrapped(m[k]) => /\ m[k].at \in LineStarts(t)
                                  /\ m[k] = LineFrom(t, m[k].at)
                                  /\ m[k].at < start
             /\ Wrapped(m[k]) <=> k > 1 /\ IsOpen(t, m, k - 1)
  <2>1. CASE k \in 1 .. n
    <3>1. /\ Wrapped(ls[k]) => ls[k].at <= start
          /\ ~Wrapped(ls[k]) => /\ ls[k].at \in LineStarts(t)
                                /\ ls[k] = LineFrom(t, ls[k].at)
                                /\ ls[k].at < start
          /\ Wrapped(ls[k]) <=> k > 1 /\ IsOpen(t, ls, k - 1)
      BY <1>3, <2>1 DEF LinesRight
    <3>2. m[k] = ls[k]
      BY <1>5, <2>1
    <3>3. k > 1 => (IsOpen(t, m, k - 1) <=> IsOpen(t, ls, k - 1))
      <4>1. k > 1 => k - 1 \in 1 .. n
        BY <1>3, <2>1
      <4> QED
        BY <1>6, <4>1
    <3> QED
      BY <3>1, <3>2, <3>3
  <2>2. CASE k = n + 1
    <3>1. k > 1 /\ IsOpen(t, m, k - 1)
      <4>1. n > 0 /\ IsOpen(t, ls, n)
        BY <1>3 DEF Unfinished
      <4>2. k > 1 /\ k - 1 = n /\ n \in 1 .. n
        BY <1>3, <2>2, <4>1
      <4> QED
        BY <1>6, <4>1, <4>2
    <3> QED
      BY <1>1, <1>2, <1>5, <2>2, <3>1
  <2> QED
    BY <1>5, <2>1, <2>2
<1>8. ASSUME NEW s \in LineStarts(t), s < start
      PROVE  \E k \in 1 .. n + 1 : ~Wrapped(m[k]) /\ m[k].at = s
  <2>1. PICK k \in 1 .. n : ~Wrapped(ls[k]) /\ ls[k].at = s
    BY <1>3, <1>8 DEF LinesRight
  <2> QED
    BY <1>5, <2>1
<1>9. ASSUME NEW j \in 1 .. n + 1, NEW k \in 1 .. n + 1,
             j < k, ~Wrapped(m[j]), ~Wrapped(m[k])
      PROVE  m[j].at < m[k].at
  <2>1. j \in 1 .. n /\ m[j] = ls[j] /\ k \in 1 .. n /\ m[k] = ls[k]
    BY <1>2, <1>3, <1>5, <1>9
  <2> QED
    BY <1>3, <1>9, <2>1 DEF LinesRight
<1>10. LinesRight(t, m, start)
  BY <1>5, <1>7, <1>8, <1>9 DEF LinesRight
<1>11. ~Unfinished(t, m)
  <2>1. m[Len(m)] = l
    BY <1>5
  <2> QED
    BY <1>2, <2>1 DEF Unfinished, IsOpen
<1> QED
  BY <1>4, <1>5, <1>10, <1>11

\* Between the CR and the LF
Between(t, i) == i >= 1 /\ IsCrLf(t, i - 1)

SplitRight(t, i, a) ==
    /\ a.start \in 0 .. Len(t) /\ a.lines \in Seq(Line)
    /\ IF Between(t, i) THEN a.start = i + 1 ELSE a.start <= i
    /\ a.start = 0 \/ LastOfEol(t, a.start - 1)
    /\ \A j \in a.start .. i - 1 : ByteAt(t, j) \notin Eol
    /\ LinesRight(t, a.lines, a.start)
    /\ Between(t, i) <=> Unfinished(t, a.lines)

LEMMA StartRight ==
  ASSUME NEW t \in Contents
  PROVE  SplitRight(t, 0, Start)
<1>1. Len(t) \in Nat
  BY ContentsAre
<1>2. Start.start = 0 /\ Start.lines = <<>> /\ Start.lines \in Seq(Line)
  BY DEF Start
<1>3. LinesRight(t, <<>>, 0) /\ ~Unfinished(t, <<>>)
  <2>1. \A s \in LineStarts(t) : ~(s < 0)
    BY <1>1 DEF LineStarts
  <2> QED
    BY <2>1 DEF LinesRight, Unfinished
<1> QED
  BY <1>1, <1>2, <1>3 DEF SplitRight, Between

\* The line that ends at i, with as many bytes as skip to the next.
LEMMA PushRight ==
  ASSUME NEW t \in Contents, NEW i \in 0 .. Len(t), NEW a, SplitRight(t, i, a),
         ~Between(t, i), a.start < Len(t),
         i < Len(t) => ByteAt(t, i) \in Eol,
         NEW skip \in 0 .. 2, a.start < i + skip, i + skip <= Len(t),
         \A s \in LineStarts(t) : i < s => s >= i + skip,
         NEW ls, ls = Push(a, i, skip).lines
  PROVE  /\ Push(a, i, skip).start = i + skip
         /\ ls \in Seq(Line)
         /\ LinesRight(t, ls, i + skip)
         /\ Unfinished(t, ls) <=> i \in CrLfs(t)
<1>1. /\ t \in Seq(Bytes) /\ Len(t) \in Nat /\ i \in Nat
      /\ a.start \in 0 .. Len(t) /\ a.start <= i /\ a.lines \in Seq(Line)
      /\ a.start = 0 \/ LastOfEol(t, a.start - 1)
      /\ \A j \in a.start .. i - 1 : ByteAt(t, j) \notin Eol
      /\ LinesRight(t, a.lines, a.start)
      /\ ~Unfinished(t, a.lines)
  BY ContentsAre DEF SplitRight
<1>2. a.start \in LineStarts(t)
  BY <1>1 DEF LineStarts
<1>3. PICK l : l = [at |-> a.start, len |-> (i - a.start) % Wrap]
  OBVIOUS
<1>4. Push(a, i, skip).start = i + skip /\ ls = Append(a.lines, l)
  BY <1>3 DEF Push
<1>5. ASSUME NEW s \in LineStarts(t), s < i + skip
      PROVE  s <= a.start
  <2>1. s \in Nat /\ s < Len(t) /\ (s = 0 \/ LastOfEol(t, s - 1))
    BY <1>1 DEF LineStarts
  <2>2. s <= i
    BY <1>1, <1>5, <2>1
  <2>3. CASE s > a.start
    <3>1. s - 1 \in a.start .. i - 1 /\ LastOfEol(t, s - 1)
      BY <1>1, <2>1, <2>2, <2>3
    <3>2. ByteAt(t, s - 1) \in Eol
      BY <3>1 DEF LastOfEol, Eol
    <3> QED
      BY <1>1, <3>1, <3>2
  <2> QED
    BY <1>1, <2>1, <2>3
<1>6. i \in a.start .. Len(t) /\ i + skip \in 0 .. Len(t)
  BY <1>1
<1>7. /\ Append(a.lines, l) \in Seq(Line)
      /\ LinesRight(t, Append(a.lines, l), i + skip)
      /\ Unfinished(t, Append(a.lines, l)) <=> i \in CrLfs(t)
  <2>1. PICK ol, st, nx : ol = a.lines /\ st = a.start /\ nx = i + skip
    OBVIOUS
  <2>2. /\ ol \in Seq(Line) /\ st \in 0 .. Len(t) /\ nx \in 0 .. Len(t) /\ st < nx
        /\ \A s \in LineStarts(t) : s < nx => s <= st
        /\ i \in st .. Len(t)
        /\ l = [at |-> st, len |-> (i - st) % Wrap]
    BY <1>1, <1>3, <1>5, <1>6, <2>1
  <2> QED
    BY <1>1, <1>2, <2>1, <2>2, AppendLine
<1> QED
  BY <1>4, <1>7

LEMMA StepRight ==
  ASSUME NEW t \in Contents, NEW i \in 0 .. Len(t) - 1, NEW a, SplitRight(t, i, a)
  PROVE  SplitRight(t, i + 1, SplitStep(t, a, i))
<1>1. /\ Len(t) \in Nat /\ i \in Nat /\ i < Len(t) /\ i \in 0 .. Len(t) /\ i + 1 - 1 = i
      /\ a.start \in 0 .. Len(t) /\ a.lines \in Seq(Line)
  BY ContentsAre DEF SplitRight
<1>2. PICK b : b = SplitStep(t, a, i)
  OBVIOUS
<1>3. \A s \in LineStarts(t) : s \in Nat /\ s < Len(t) /\ (s = 0 \/ LastOfEol(t, s - 1))
  BY <1>1 DEF LineStarts
<1>4. CASE ByteAt(t, i) = "LF"
  <2>1. ~Between(t, i + 1) /\ i \notin CrLfs(t) /\ LastOfEol(t, i)
    BY <1>1, <1>4 DEF Between, IsCrLf, CrLfs, LastOfEol
  <2>2. b = Push(a, i, 1)
    BY <1>2, <1>4 DEF SplitStep
  <2>3. CASE Between(t, i)
    <3>1. /\ a.start = i + 1 /\ LinesRight(t, a.lines, a.start) /\ Unfinished(t, a.lines)
          /\ a.start = 0 \/ LastOfEol(t, a.start - 1)
      BY <2>3 DEF SplitRight
    <3>2. PICK l : l = [at |-> a.start, len |-> Wrap - 1]
      OBVIOUS
    <3>3. b.start = i + 1 /\ b.lines = Append(a.lines, l)
      <4>1. (i - a.start) % Wrap = Wrap - 1
        <5>1. i - a.start = -1
          BY <1>1, <3>1
        <5> QED
          BY <5>1, Length
      <4> QED
        BY <2>2, <3>2, <4>1 DEF Push
    <3>4. /\ Append(a.lines, l) \in Seq(Line)
          /\ LinesRight(t, Append(a.lines, l), a.start)
          /\ ~Unfinished(t, Append(a.lines, l))
      <4>1. PICK ol, st : ol = a.lines /\ st = a.start
        OBVIOUS
      <4> QED
        BY <1>1, <3>1, <3>2, <4>1, AppendWrapped
    <3>5. \A j \in b.start .. i + 1 - 1 : FALSE
      BY <1>1, <3>3
    <3>6. b.start \in 0 .. Len(t) /\ b.start <= i + 1 /\ LastOfEol(t, b.start - 1)
      BY <1>1, <2>1, <3>3
    <3> QED
      BY <1>2, <2>1, <3>1, <3>3, <3>4, <3>5, <3>6 DEF SplitRight
  <2>4. CASE ~Between(t, i)
    <3>1. a.start <= i /\ i + 1 <= Len(t) /\ a.start < i + 1
      BY <1>1, <2>4 DEF SplitRight
    <3>2. /\ b.start = i + 1
          /\ b.lines \in Seq(Line) /\ LinesRight(t, b.lines, i + 1)
          /\ Unfinished(t, b.lines) <=> i \in CrLfs(t)
      <4>1. \A s \in LineStarts(t) : i < s => s >= i + 1
        BY <1>1, <1>3
      <4>2. 1 \in 0 .. 2 /\ a.start < Len(t) /\ ByteAt(t, i) \in Eol
        BY <1>1, <1>4, <3>1 DEF Eol
      <4> QED
        BY <1>1, <2>2, <2>4, <3>1, <4>1, <4>2, PushRight
    <3>3. \A j \in b.start .. i + 1 - 1 : FALSE
      BY <1>1, <3>2
    <3>4. b.start \in 0 .. Len(t) /\ b.start <= i + 1 /\ LastOfEol(t, b.start - 1)
      BY <1>1, <2>1, <3>1, <3>2
    <3> QED
      BY <1>2, <2>1, <3>2, <3>3, <3>4 DEF SplitRight
  <2> QED
    BY <2>3, <2>4
<1>5. CASE IsCrLf(t, i)
  <2>1. /\ Between(t, i + 1) /\ i \in CrLfs(t) /\ ~Between(t, i)
        /\ i + 2 <= Len(t) /\ ByteAt(t, i) = "CR" /\ ByteAt(t, i + 1) = "LF"
    BY <1>1, <1>5 DEF Between, IsCrLf, CrLfs
  <2>2. b = Push(a, i, 2)
    BY <1>2, <1>5, <2>1 DEF SplitStep
  <2>3. a.start <= i /\ a.start < i + 2 /\ a.start < Len(t) /\ ByteAt(t, i) \in Eol
    BY <1>1, <2>1 DEF SplitRight, Eol
  <2>4. \A s \in LineStarts(t) : i < s => s >= i + 2
    <3>1. ASSUME NEW s \in LineStarts(t), i < s, s < i + 2 PROVE FALSE
      <4>1. s = i + 1 /\ s - 1 = i /\ LastOfEol(t, s - 1)
        BY <1>1, <1>3, <3>1
      <4> QED
        BY <1>5, <2>1, <4>1 DEF LastOfEol
    <3>2. \A s \in LineStarts(t) : s \in Nat
      BY <1>3
    <3> QED
      BY <1>1, <3>1, <3>2
  <2>5. /\ b.start = i + 2
        /\ b.lines \in Seq(Line) /\ LinesRight(t, b.lines, i + 2)
        /\ Unfinished(t, b.lines) <=> i \in CrLfs(t)
    BY <1>1, <2>1, <2>2, <2>3, <2>4, PushRight
  <2>6. \A j \in b.start .. i + 1 - 1 : FALSE
    BY <1>1, <2>5
  <2>7. /\ b.start \in 0 .. Len(t) /\ b.start = i + 1 + 1 /\ b.start - 1 = i + 1
        /\ LastOfEol(t, b.start - 1)
    BY <1>1, <2>1, <2>5 DEF LastOfEol
  <2> QED
    BY <1>2, <2>1, <2>5, <2>6, <2>7 DEF SplitRight
<1>6. CASE ByteAt(t, i) = "CR" /\ ~IsCrLf(t, i)
  <2>1. /\ ~Between(t, i + 1) /\ i \notin CrLfs(t) /\ ~Between(t, i) /\ LastOfEol(t, i)
        /\ ByteAt(t, i) # "LF"
    BY <1>1, <1>6 DEF Between, IsCrLf, CrLfs, LastOfEol
  <2>2. b = Push(a, i, 1)
    BY <1>2, <1>6, <2>1 DEF SplitStep
  <2>3. a.start <= i /\ i + 1 <= Len(t) /\ a.start < i + 1
    BY <1>1, <2>1 DEF SplitRight
  <2>4. /\ b.start = i + 1
        /\ b.lines \in Seq(Line) /\ LinesRight(t, b.lines, i + 1)
        /\ Unfinished(t, b.lines) <=> i \in CrLfs(t)
    <3>1. \A s \in LineStarts(t) : i < s => s >= i + 1
      BY <1>1, <1>3
    <3>2. 1 \in 0 .. 2 /\ a.start < Len(t) /\ ByteAt(t, i) \in Eol
      BY <1>1, <1>6, <2>3 DEF Eol
    <3> QED
      BY <1>1, <2>1, <2>2, <2>3, <3>1, <3>2, PushRight
  <2>5. \A j \in b.start .. i + 1 - 1 : FALSE
    BY <1>1, <2>4
  <2>6. b.start \in 0 .. Len(t) /\ b.start <= i + 1 /\ LastOfEol(t, b.start - 1)
    BY <1>1, <2>1, <2>3, <2>4
  <2> QED
    BY <1>2, <2>1, <2>4, <2>5, <2>6 DEF SplitRight
<1>7. CASE ByteAt(t, i) \notin Eol
  <2>1. ByteAt(t, i) # "LF" /\ ByteAt(t, i) # "CR"
    BY <1>7 DEF Eol
  <2>2. ~Between(t, i + 1) /\ ~Between(t, i) /\ ~IsCrLf(t, i)
    BY <1>1, <2>1 DEF Between, IsCrLf
  <2>3. b = a
    BY <1>2, <2>1, <2>2 DEF SplitStep
  <2>4. a.start <= i /\ \A j \in a.start .. i - 1 : ByteAt(t, j) \notin Eol
    BY <2>2 DEF SplitRight
  <2>5. \A j \in a.start .. i + 1 - 1 : ByteAt(t, j) \notin Eol
    <3>1. \A j \in a.start .. i + 1 - 1 : j \in a.start .. i - 1 \/ j = i
      BY <1>1
    <3> QED
      BY <1>7, <2>4, <3>1
  <2>6. a.start <= i + 1
    BY <1>1, <2>4
  <2> QED
    BY <1>2, <2>2, <2>3, <2>5, <2>6 DEF SplitRight
<1> QED
  BY <1>4, <1>5, <1>6, <1>7 DEF Eol

\* The lines of SplitFile.
LEMMA SplitFileRight ==
  ASSUME NEW t \in Contents
  PROVE  /\ SplitFile(t) \in Seq(Line)
         /\ LinesRight(t, SplitFile(t), Len(t))
         /\ ~Unfinished(t, SplitFile(t))
<1>1. t \in Seq(Bytes) /\ Len(t) \in Nat
  BY ContentsAre
<1>2. PICK w : /\ w[0] = Start
               /\ \A i \in 1 .. Len(t) : w[i] = SplitStep(t, w[i - 1], i - 1)
               /\ SplitFile(t) = IF w[Len(t)].start < Len(t)
                                    THEN Push(w[Len(t)], Len(t), 0).lines
                                    ELSE w[Len(t)].lines
  BY <1>1, SplitFileOf
<1>3. PICK S : S = {i \in 0 .. Len(t) : SplitRight(t, i, w[i])}
  OBVIOUS
<1>4. 0 \in S
  BY <1>1, <1>2, <1>3, StartRight
<1>5. ASSUME NEW i \in 0 .. Len(t) - 1, i \in S PROVE i + 1 \in S
  <2>1. i + 1 \in 1 .. Len(t) /\ i + 1 \in 0 .. Len(t) /\ i + 1 - 1 = i
    BY <1>1
  <2>2. w[i + 1] = SplitStep(t, w[i], i)
    BY <1>2, <2>1
  <2>3. SplitRight(t, i + 1, w[i + 1])
    BY <1>3, <1>5, <2>2, StepRight
  <2> QED
    BY <1>3, <2>1, <2>3
<1>6. Len(t) \in S
  <2>1. PICK n \in Nat : n = Len(t)
    BY <1>1
  <2>2. \A i \in 0 .. n - 1 : i \in S => i + 1 \in S
    BY <1>5, <2>1
  <2>3. \A i \in 0 .. n : i \in S
    BY <1>4, <2>2, Climb
  <2> QED
    BY <2>1, <2>3
<1>7. PICK a : a = w[Len(t)]
  OBVIOUS
<1>8. SplitRight(t, Len(t), a)
  BY <1>3, <1>6, <1>7
<1>9. ~Between(t, Len(t)) /\ Len(t) \notin CrLfs(t)
  BY <1>1 DEF Between, IsCrLf, CrLfs
<1>10. a.start \in 0 .. Len(t)
  BY <1>8 DEF SplitRight
<1>11. CASE a.start < Len(t)
  <2>1. PICK ls : ls = Push(a, Len(t), 0).lines
    OBVIOUS
  <2>2. \A s \in LineStarts(t) : ~(Len(t) < s)
    BY <1>1 DEF LineStarts
  <2>3. /\ Len(t) \in 0 .. Len(t) /\ ~(Len(t) < Len(t)) /\ 0 \in 0 .. 2
        /\ Len(t) + 0 = Len(t)
    BY <1>1
  <2>4. /\ ls \in Seq(Line)
        /\ LinesRight(t, ls, Len(t) + 0)
        /\ Unfinished(t, ls) <=> Len(t) \in CrLfs(t)
    <3>1. /\ Len(t) < Len(t) => ByteAt(t, Len(t)) \in Eol
          /\ a.start < Len(t) + 0 /\ Len(t) + 0 <= Len(t)
          /\ \A s \in LineStarts(t) : Len(t) < s => s >= Len(t) + 0
      BY <1>1, <1>11, <2>2, <2>3
    <3> QED
      BY <1>8, <1>9, <1>11, <2>1, <2>3, <3>1, PushRight
  <2> QED
    BY <1>2, <1>7, <1>9, <1>11, <2>1, <2>3, <2>4
<1>12. CASE ~(a.start < Len(t))
  <2>1. a.start = Len(t)
    BY <1>1, <1>10, <1>12
  <2>2. SplitFile(t) = a.lines
    BY <1>2, <1>7, <1>12
  <2>3. /\ a.lines \in Seq(Line) /\ LinesRight(t, a.lines, a.start)
        /\ ~Unfinished(t, a.lines)
    BY <1>8, <1>9 DEF SplitRight
  <2> QED
    BY <2>1, <2>2, <2>3
<1> QED
  BY <1>11, <1>12

Kept(split) == {k \in DOMAIN split : split[k].len # Wrap - 1}

KeptRight(t, split, kept) ==
    /\ {split[k] : k \in kept} = {LineFrom(t, s) : s \in LineStarts(t)}
    /\ \A j, k \in kept : j < k => split[j].at < split[k].at
    /\ DOMAIN split \ kept =
         {k + 1 : k \in {j \in kept : split[j].at + split[j].len \in CrLfs(t)}}

LEMMA SplitKeeps ==
  ASSUME NEW t \in Contents
  PROVE  KeptRight(t, SplitFile(t), Kept(SplitFile(t)))
<1> DEFINE split == SplitFile(t)
           kept == Kept(split)
<1>0. kept = {k \in DOMAIN split : split[k].len # Wrap - 1}
  BY DEF Kept
<1> HIDE DEF kept
<1>1. split \in Seq(Line) /\ LinesRight(t, split, Len(t)) /\ ~Unfinished(t, split)
  BY SplitFileRight
<1>2. PICK n \in Nat : n = Len(split) /\ DOMAIN split = 1 .. n
  BY <1>1
<1> HIDE DEF split
<1>3. \A k : k \in kept <=> k \in 1 .. n /\ ~Wrapped(split[k])
  BY <1>0, <1>2 DEF Wrapped
<1>4. Len(t) \in Nat /\ \A s \in LineStarts(t) : s < Len(t)
  BY ContentsAre DEF LineStarts
<1>5. {split[k] : k \in kept} = {LineFrom(t, s) : s \in LineStarts(t)}
  <2>1. ASSUME NEW k \in kept PROVE split[k] \in {LineFrom(t, s) : s \in LineStarts(t)}
    BY <1>1, <1>2, <1>3 DEF LinesRight
  <2>2. ASSUME NEW s \in LineStarts(t) PROVE LineFrom(t, s) \in {split[k] : k \in kept}
    <3>1. PICK k \in 1 .. n : ~Wrapped(split[k]) /\ split[k].at = s
      BY <1>1, <1>2, <1>4 DEF LinesRight
    <3>2. split[k] = LineFrom(t, s) /\ k \in kept
      BY <1>1, <1>2, <1>3, <3>1 DEF LinesRight
    <3> QED
      BY <3>2
  <2> QED
    BY <2>1, <2>2
<1>6. \A j, k \in kept : j < k => split[j].at < split[k].at
  BY <1>1, <1>2, <1>3 DEF LinesRight
<1>7. \A k \in 1 .. n : Wrapped(split[k]) <=> k > 1 /\ IsOpen(t, split, k - 1)
  BY <1>1, <1>2 DEF LinesRight
<1>8. n > 0 => ~IsOpen(t, split, n)
  BY <1>1, <1>2 DEF Unfinished
<1>9. PICK O : O = {j \in kept : split[j].at + split[j].len \in CrLfs(t)}
  OBVIOUS
<1>10. \A k : k \in O <=> k \in 1 .. n /\ IsOpen(t, split, k)
  BY <1>3, <1>9 DEF IsOpen, EndOf
<1>11. DOMAIN split \ kept = {k + 1 : k \in O}
  <2>1. ASSUME NEW k \in DOMAIN split \ kept PROVE k \in {j + 1 : j \in O}
    <3>1. k \in 1 .. n /\ k > 1 /\ IsOpen(t, split, k - 1)
      BY <1>2, <1>3, <1>7, <2>1
    <3>2. k - 1 \in 1 .. n /\ k = k - 1 + 1
      BY <1>2, <3>1
    <3> QED
      BY <1>10, <3>1, <3>2
  <2>2. ASSUME NEW k \in O PROVE k + 1 \in DOMAIN split \ kept
    <3>1. k \in 1 .. n /\ IsOpen(t, split, k)
      BY <1>10, <2>2
    <3>2. k # n
      BY <1>8, <3>1
    <3>3. k + 1 \in 1 .. n /\ k + 1 > 1 /\ k + 1 - 1 = k
      BY <1>2, <3>1, <3>2
    <3>4. Wrapped(split[k + 1])
      BY <1>7, <3>1, <3>3
    <3> QED
      BY <1>2, <1>3, <3>3, <3>4
  <2> QED
    BY <2>1, <2>2
<1>12. KeptRight(t, split, kept)
  BY <1>5, <1>6, <1>9, <1>11 DEF KeptRight
<1> QED
  BY <1>12 DEF split, kept

-----------------------------------------------------------------------------
(***************************************************************************)
(* Types                                                                   *)
(***************************************************************************)
\* A file has no more bytes than all of them together.
LEMMA LengthInTotal ==
  ASSUME content \in [Files -> Contents], NEW f \in Files, Total < MaxLen
  PROVE  Len(content[f]) < MaxLen
<1>1. /\ MaxLen \in Nat /\ IsFiniteSet(Files)
      /\ Len(content[f]) \in Nat /\ Len(content[f]) <= MaxLen
  BY ContentsAre, PositionsAssumption
<1>2. PICK T : T = {p \in Files \X (1 .. MaxLen) : p[2] <= Len(content[p[1]])}
  OBVIOUS
<1>3. IsFiniteSet(1 .. MaxLen) /\ Cardinality(1 .. MaxLen) = MaxLen
  <2>1. IsFiniteSet(1 .. MaxLen) /\ Cardinality(1 .. MaxLen) = IF 1 > MaxLen THEN 0 ELSE MaxLen - 1 + 1
    BY <1>1, FS_Interval
  <2> QED
    BY <1>1, <2>1
<1>4. IsFiniteSet(T)
  <2>1. IsFiniteSet(Files \X (1 .. MaxLen))
    BY <1>1, <1>3, FS_Product
  <2> QED
    BY <1>2, <2>1, FS_Subset
<1>5. SUFFICES ASSUME Len(content[f]) = MaxLen PROVE FALSE
  BY <1>1
<1>6. PICK F : F = [k \in 1 .. MaxLen |-> <<f, k>>]
  OBVIOUS
<1>7. F \in [1 .. MaxLen -> T]
  <2>1. ASSUME NEW k \in 1 .. MaxLen PROVE <<f, k>> \in T
    <3>1. PICK p : p = <<f, k>>
      OBVIOUS
    <3>2. p \in Files \X (1 .. MaxLen) /\ p[1] = f /\ p[2] = k /\ k <= MaxLen
      BY <1>1, <3>1
    <3>3. p \in T
      BY <1>2, <1>5, <3>2
    <3> QED
      BY <3>1, <3>3
  <2> QED
    BY <1>6, <2>1
<1>8. F \in Injection(1 .. MaxLen, T)
  <2>1. ASSUME NEW i \in 1 .. MaxLen, NEW j \in 1 .. MaxLen, F[i] = F[j] PROVE i = j
    BY <1>6, <2>1
  <2> QED
    BY <1>7, <2>1 DEF Injection, IsInjective
<1>9. MaxLen <= Cardinality(T)
  BY <1>3, <1>4, <1>8, FS_Injection
<1>10. Cardinality(T) \in Nat /\ Total = Cardinality(T)
  BY <1>2, <1>4, FS_CardinalityType DEF Total
<1> QED
  BY <1>1, <1>9, <1>10

LEMMA TypeInit == Init => TypeOK
<1> SUFFICES ASSUME Init PROVE TypeOK
  OBVIOUS
<1>1. MaxLen \in Nat
  BY PositionsAssumption
<1>2. <<>> \in Contents
  <2>1. <<>> \in [1 .. 0 -> Bytes] /\ 0 \in 0 .. MaxLen
    BY <1>1
  <2> QED
    BY <2>1 DEF Contents
<1> QED
  BY <1>2 DEF Init, TypeOK, NothingRead

LEMMA JoinOf ==
  ASSUME NEW S, NEW a \in Seq(S), NEW b \in Seq(S)
  PROVE  /\ a \o b \in Seq(S)
         /\ Len(a \o b) = Len(a) + Len(b)
         /\ \A k \in 1 .. Len(a) : (a \o b)[k] = a[k]
         /\ \A k \in 1 .. Len(b) : (a \o b)[Len(a) + k] = b[k]
BY SMTT(60)

LEMMA TypeNext == TypeOK /\ [Next]_vars => TypeOK'
<1> SUFFICES ASSUME TypeOK, [Next]_vars PROVE TypeOK'
  OBVIOUS
<1>1. /\ content \in [Files -> Contents]
      /\ files \in [Files -> FileStates \cup {NotRead}]
      /\ lines \in Seq(Line)
  BY DEF TypeOK
<1>2. ASSUME NEW f \in Files, NEW b \in Bytes, Write(f, b) PROVE TypeOK'
  <2>1. Len(content[f]) < MaxLen
    <3>1. Total < (IF files = NothingRead THEN MaxLen ELSE MaxRead)
      BY <1>2 DEF Write
    <3>2. IsFiniteSet({p \in Files \X (1 .. MaxLen) : p[2] <= Len(content[p[1]])})
      <4>1. IsFiniteSet(1 .. MaxLen)
        BY PositionsAssumption, FS_Interval
      <4>2. IsFiniteSet(Files \X (1 .. MaxLen))
        BY <4>1, PositionsAssumption, FS_Product
      <4> QED
        BY <4>2, FS_Subset
    <3>3. Total \in Nat
      BY <3>2, FS_CardinalityType DEF Total
    <3>4. Total < MaxLen
      BY <3>1, <3>3, PositionsAssumption
    <3> QED
      BY <1>1, <3>4, LengthInTotal
  <2>2. Append(content[f], b) \in Contents
    <3>1. PICK t : t = content[f]
      OBVIOUS
    <3>2. t \in Seq(Bytes) /\ Len(t) \in Nat /\ Len(t) < MaxLen /\ MaxLen \in Nat
      BY <1>1, <2>1, <3>1, ContentsAre, PositionsAssumption
    <3>3. PICK u : u = Append(t, b)
      OBVIOUS
    <3>4. u \in Seq(Bytes) /\ Len(u) = Len(t) + 1
      BY <3>2, <3>3
    <3>5. Len(u) \in 0 .. MaxLen /\ u \in [1 .. Len(u) -> Bytes]
      BY <3>2, <3>4
    <3> QED
      BY <3>1, <3>3, <3>5 DEF Contents
  <2>3. content' \in [Files -> Contents]
    BY <1>1, <1>2, <2>2 DEF Write
  <2> QED
    BY <1>1, <1>2, <2>3 DEF Write, TypeOK
<1>3. CASE StartRun
  BY <1>1, <1>3 DEF StartRun, TypeOK, NothingRead
<1>4. ASSUME NEW f \in Files, OpenFile(f) PROVE TypeOK'
  <2>1. [text |-> content[f], first |-> -1, num |-> 0] \in FileStates
    BY <1>1 DEF FileStates
  <2> QED
    BY <1>1, <1>4, <2>1 DEF OpenFile, TypeOK
<1>5. ASSUME NEW f \in Files, SplitLines(f) PROVE TypeOK'
  <2>1. PICK r : r = files[f]
    OBVIOUS
  <2>2. r \in FileStates /\ r.text \in Contents
    BY <1>1, <1>5, <2>1 DEF SplitLines, FileStates
  <2>3. SplitFile(r.text) \in Seq(Line)
    BY <2>2, SplitFileRight
  <2>4. lines' \in Seq(Line)
    BY <1>1, <1>5, <2>1, <2>3, JoinOf DEF SplitLines
  <2>5. files' \in [Files -> FileStates \cup {NotRead}]
    <3>1. Len(lines) \in Int /\ Len(SplitFile(r.text)) \in Nat
      BY <1>1, <2>3
    <3>2. [r EXCEPT !.first = Len(lines), !.num = Len(SplitFile(r.text))] \in FileStates
      BY <2>2, <3>1 DEF FileStates
    <3>3. files' = [files EXCEPT ![f] = [r EXCEPT !.first = Len(lines),
                                                  !.num = Len(SplitFile(r.text))]]
      BY <1>5, <2>1 DEF SplitLines
    <3> QED
      BY <1>1, <3>2, <3>3
  <2> QED
    BY <1>1, <1>5, <2>4, <2>5 DEF SplitLines, TypeOK
<1>6. CASE UNCHANGED vars
  BY <1>1, <1>6 DEF vars, TypeOK
<1> QED
  BY <1>2, <1>3, <1>4, <1>5, <1>6 DEF Next

\* Every variable has a value of its kind: what the splitting and the conversions
\* are applied to are contents.
THEOREM TypeCorrect == Spec => []TypeOK
BY TypeInit, TypeNext, PTL DEF Spec

\* Splitting a content, of any length and with any line endings, gives the lines
\* that the client has, and a wrapped one after each that a CR LF ends.
THEOREM AlwaysKept == Spec => []LinesKept
<1>1. TypeOK => LinesKept
  <2> SUFFICES ASSUME TypeOK, NEW f \in Files
               PROVE  LET t == content[f]
                          split == SplitFile(t)
                          kept == {k \in DOMAIN split : split[k].len # Wrap - 1}
                      IN  /\ {split[k] : k \in kept} = {LineFrom(t, s) : s \in LineStarts(t)}
                          /\ \A j, k \in kept : j < k => split[j].at < split[k].at
                          /\ DOMAIN split \ kept =
                               {k + 1 : k \in {j \in kept : split[j].at + split[j].len \in CrLfs(t)}}
    BY DEF LinesKept
  <2>1. content[f] \in Contents
    BY DEF TypeOK
  <2>2. KeptRight(content[f], SplitFile(content[f]), Kept(SplitFile(content[f])))
    BY <2>1, SplitKeeps
  <2> QED
    BY <2>2 DEF KeptRight, Kept
<1> QED
  BY <1>1, TypeCorrect, PTL

-----------------------------------------------------------------------------
(***************************************************************************)
(* The lines that are kept                                                 *)
(***************************************************************************)
\* What is known of a file that was read: it is not split, or its lines are there.
Cached(r, ls) ==
    \/ r.first = -1 /\ r.num = 0
    \/ /\ r.first \in Nat /\ r.num = Len(SplitFile(r.text))
       /\ r.first + r.num <= Len(ls)
       /\ \A k \in 1 .. r.num : ls[r.first + k] = SplitFile(r.text)[k]

CachedInv == \A f \in Files : files[f] # NotRead => Cached(files[f], lines)

LEMMA SliceOf ==
  ASSUME NEW S, NEW a \in Seq(S), NEW b \in Seq(S), NEW i \in Nat,
         i + Len(b) <= Len(a), \A k \in 1 .. Len(b) : a[i + k] = b[k]
  PROVE  SubSeq(a, i + 1, i + Len(b)) = b
<1>1. Len(a) \in Nat /\ Len(b) \in Nat
  OBVIOUS
<1>2. PICK n \in Nat : n = Len(b)
  BY <1>1
<1>3. PICK s : s = SubSeq(a, i + 1, i + n)
  OBVIOUS
<1>4. s = [k \in 1 .. n |-> a[i + k]]
  BY <1>1, <1>2, <1>3
<1>5. b = [k \in 1 .. n |-> b[k]]
  BY <1>2
<1>6. \A k \in 1 .. n : s[k] = b[k]
  BY <1>2, <1>4
<1> QED
  BY <1>2, <1>3, <1>4, <1>5, <1>6

LEMMA CachedNext == TypeOK /\ CachedInv /\ [Next]_vars => CachedInv'
<1> SUFFICES ASSUME TypeOK, CachedInv, [Next]_vars PROVE CachedInv'
  OBVIOUS
<1>1. /\ content \in [Files -> Contents]
      /\ files \in [Files -> FileStates \cup {NotRead}]
      /\ lines \in Seq(Line)
  BY DEF TypeOK
<1>2. CASE StartRun
  BY <1>1, <1>2 DEF StartRun, NothingRead, CachedInv
<1>3. ASSUME NEW f \in Files, OpenFile(f) PROVE CachedInv'
  <2>1. /\ files' = [files EXCEPT ![f] = [text |-> content[f], first |-> -1, num |-> 0]]
        /\ lines' = lines
    BY <1>3 DEF OpenFile
  <2>2. ASSUME NEW g \in Files, files'[g] # NotRead PROVE Cached(files'[g], lines')
    <3>1. CASE g = f
      BY <1>1, <2>1, <3>1 DEF Cached
    <3>2. CASE g # f
      <4>1. files'[g] = files[g] /\ Cached(files[g], lines)
        BY <1>1, <2>1, <2>2, <3>2 DEF CachedInv
      <4> QED
        BY <2>1, <4>1 DEF Cached
    <3> QED
      BY <3>1, <3>2
  <2> QED
    BY <2>2 DEF CachedInv
<1>4. ASSUME NEW f \in Files, SplitLines(f) PROVE CachedInv'
  <2>1. PICK r : r = files[f]
    OBVIOUS
  <2>2. r \in FileStates /\ r.text \in Contents
    BY <1>1, <1>4, <2>1 DEF SplitLines, FileStates
  <2>3. PICK s \in Seq(Line) : s = SplitFile(r.text)
    BY <2>2, SplitFileRight
  <2>4. /\ lines' = lines \o s
        /\ files' = [files EXCEPT ![f] = [r EXCEPT !.first = Len(lines), !.num = Len(s)]]
    BY <1>4, <2>1, <2>3 DEF SplitLines
  <2>5. /\ Len(lines) \in Nat /\ Len(s) \in Nat
        /\ Len(lines') = Len(lines) + Len(s)
        /\ \A k \in 1 .. Len(lines) : lines'[k] = lines[k]
        /\ \A k \in 1 .. Len(s) : lines'[Len(lines) + k] = s[k]
    BY <1>1, <2>3, <2>4, JoinOf
  <2>6. ASSUME NEW g \in Files, files'[g] # NotRead PROVE Cached(files'[g], lines')
    <3>1. CASE g = f
      <4>1. PICK q : q = [r EXCEPT !.first = Len(lines), !.num = Len(s)]
        OBVIOUS
      <4>2. files'[g] = q /\ q.first = Len(lines) /\ q.num = Len(s) /\ q.text = r.text
        BY <1>1, <2>2, <2>4, <3>1, <4>1 DEF FileStates
      <4> QED
        BY <2>3, <2>5, <4>2 DEF Cached
    <3>2. CASE g # f
      <4>1. PICK q : q = files[g]
        OBVIOUS
      <4>2. files'[g] = q /\ Cached(q, lines) /\ q \in FileStates
        BY <1>1, <2>4, <2>6, <3>2, <4>1 DEF CachedInv
      <4>3. CASE q.first = -1 /\ q.num = 0
        BY <4>2, <4>3 DEF Cached
      <4>4. CASE ~(q.first = -1 /\ q.num = 0)
        <5>1. /\ q.first \in Nat /\ q.num = Len(SplitFile(q.text))
              /\ q.first + q.num <= Len(lines) /\ q.num \in Nat
              /\ \A k \in 1 .. q.num : lines[q.first + k] = SplitFile(q.text)[k]
          BY <4>2, <4>4 DEF Cached, FileStates
        <5>2. \A k \in 1 .. q.num : q.first + k \in 1 .. Len(lines)
          BY <2>5, <5>1
        <5>3. \A k \in 1 .. q.num : lines'[q.first + k] = SplitFile(q.text)[k]
          BY <2>5, <5>1, <5>2
        <5>4. q.first + q.num <= Len(lines')
          BY <2>5, <5>1
        <5> QED
          BY <4>2, <5>1, <5>3, <5>4 DEF Cached
      <4> QED
        BY <4>3, <4>4
    <3> QED
      BY <3>1, <3>2
  <2> QED
    BY <2>6 DEF CachedInv
<1>5. ASSUME files' = files, lines' = lines PROVE CachedInv'
  BY <1>5 DEF CachedInv, Cached
<1>6. ASSUME NEW f \in Files, NEW b \in Bytes, Write(f, b) PROVE CachedInv'
  BY <1>5, <1>6 DEF Write
<1> QED
  BY <1>2, <1>3, <1>4, <1>5, <1>6 DEF Next, vars

\* What the analyzer has in its array for a file are the lines of the content it
\* read, for any number of files, whatever is written to them meanwhile.
THEOREM AlwaysCached == Spec => []CachedLines
<1>1. Init => CachedInv
  BY DEF Init, NothingRead, CachedInv
<1>2. TypeOK /\ CachedInv => CachedLines
  <2> SUFFICES ASSUME TypeOK, CachedInv, NEW f \in Files, files[f] # NotRead
               PROVE  /\ files[f].first + files[f].num <= Len(lines)
                      /\ Slice(f) = SplitFile(files[f].text)
    BY DEF CachedLines
  <2>1. PICK r : r = files[f]
    OBVIOUS
  <2>2. r \in FileStates /\ r.text \in Contents /\ Cached(r, lines) /\ lines \in Seq(Line)
    BY <2>1 DEF TypeOK, CachedInv, FileStates
  <2>3. CASE r.first = -1 /\ r.num = 0
    BY <2>1, <2>2, <2>3 DEF Slice
  <2>4. CASE ~(r.first = -1 /\ r.num = 0)
    <3>1. PICK s \in Seq(Line) : s = SplitFile(r.text)
      BY <2>2, SplitFileRight
    <3>2. /\ r.first \in Nat /\ r.num = Len(s)
          /\ r.first + Len(s) <= Len(lines)
          /\ \A k \in 1 .. Len(s) : lines[r.first + k] = s[k]
      BY <2>2, <2>4, <3>1 DEF Cached
    <3>3. SubSeq(lines, r.first + 1, r.first + Len(s)) = s
      BY <2>2, <3>2, SliceOf
    <3>4. Slice(f) = SubSeq(lines, r.first + 1, r.first + r.num)
      <4>1. r # NotRead /\ r.first >= 0
        BY <2>1, <3>2
      <4>2. Slice(f) = IF r = NotRead THEN <<>>
                       ELSE IF r.first >= 0 THEN SubSeq(lines, r.first + 1, r.first + r.num)
                       ELSE SplitFile(r.text)
        BY <2>1, Zenon DEF Slice
      <4> QED
        BY <4>1, <4>2, Zenon
    <3> QED
      BY <2>1, <3>1, <3>2, <3>3, <3>4
  <2> QED
    BY <2>3, <2>4
<1> QED
  BY <1>1, <1>2, TypeInit, TypeNext, CachedNext, PTL DEF Spec

-----------------------------------------------------------------------------
(***************************************************************************)
(* The conversions stay within the content                                 *)
(***************************************************************************)
LEMMA Backwards ==
  ASSUME NEW N \in Nat, NEW S,
         \A i \in 0 .. N : (\A j \in 0 .. N : i < j => j \in S) => i \in S
  PROVE  \A i \in 0 .. N : i \in S
<1>1. PICK P : P = 0 .. N
  OBVIOUS
<1>2. PICK m : m = [i \in P |-> N - i]
  OBVIOUS
<1>3. \A p \in P : m[p] \in Nat
  BY <1>1, <1>2
<1>4. \A p \in P : m[p] = N - p
  BY <1>1, <1>2
<1>5. ASSUME NEW p \in P, \A q \in P : m[q] < m[p] => q \in S PROVE p \in S
  <2>1. \A j \in 0 .. N : p < j => j \in S
    BY <1>1, <1>4, <1>5
  <2> QED
    BY <1>1, <2>1
<1>6. \A p \in P : p \in S
  BY <1>3, <1>5, Nearer
<1> QED
  BY <1>1, <1>6

LEMMA UnitsWithin ==
  ASSUME NEW s \in Seq(Bytes), NEW n \in Int, n <= Len(s), NEW b \in Int,
         NEW w, UnitsWalk(s, n, b, w)
  PROVE  \A i \in 0 .. Len(s) : w[i] \in 0 .. Len(s) - i
<1>1. PICK N \in Nat : N = Len(s)
  OBVIOUS
<1>2. PICK S : S = {i \in 0 .. N : w[i] \in 0 .. N - i}
  OBVIOUS
<1>3. ASSUME NEW i \in 0 .. N, \A j \in 0 .. N : i < j => j \in S PROVE i \in S
  <2>1. w[i] = IF i >= b \/ i >= n THEN 0 ELSE UnitsAt(s, n, i) + w[Advance(s, n, i)]
    BY <1>1 DEF UnitsWalk
  <2>2. CASE i >= b \/ i >= n
    BY <1>2, <2>1, <2>2
  <2>3. CASE ~(i >= b \/ i >= n)
    <3>1. i \in 0 .. n - 1
      BY <2>3
    <3>2. PICK j \in 0 .. n, k \in 0 .. 2 :
            j = Advance(s, n, i) /\ k = UnitsAt(s, n, i) /\ j > i /\ k <= j - i
      BY <1>1, <3>1, Stepping
    <3>3. w[i] = k + w[j] /\ j \in 0 .. N /\ i < j
      BY <1>1, <2>1, <2>3, <3>2
    <3>4. PICK x \in 0 .. N - j : x = w[j]
      BY <1>2, <1>3, <3>3
    <3>5. k + x \in 0 .. N - i
      <4>1. k \in Nat /\ x \in Nat /\ i \in Nat /\ j \in Nat /\ k <= j - i /\ x <= N - j
        BY <3>1, <3>2, <3>4
      <4> QED
        BY <4>1
    <3> QED
      BY <1>2, <3>3, <3>4, <3>5
  <2> QED
    BY <2>2, <2>3
<1>4. \A i \in 0 .. N : i \in S
  BY <1>3, Backwards
<1> QED
  BY <1>1, <1>2, <1>4

LEMMA BytesWithin ==
  ASSUME NEW s \in Seq(Bytes), NEW n \in Int, n <= Len(s), NEW u \in Nat,
         NEW w, BytesWalk(s, n, u, w), NEW m \in 0 .. Len(s), n <= m, n < 0 \/ n = m
  PROVE  \A i \in 0 .. m, left \in -1 .. u : w[<<i, left>>] \in i .. m
<1>1. PICK N \in Nat : N = Len(s) /\ m \in 0 .. N
  OBVIOUS
<1>2. PICK S : S = {i \in 0 .. m : \A left \in -1 .. u : w[<<i, left>>] \in i .. m}
  OBVIOUS
<1>3. ASSUME NEW i \in 0 .. m, \A j \in 0 .. m : i < j => j \in S PROVE i \in S
  <2>1. ASSUME NEW left \in -1 .. u PROVE w[<<i, left>>] \in i .. m
    <3>1. w[<<i, left>>] = IF left <= 0 \/ i >= n THEN i
                          ELSE w[<<Advance(s, n, i), left - UnitsAt(s, n, i)>>]
      BY <1>1 DEF BytesWalk
    <3>2. CASE left <= 0 \/ i >= n
      BY <3>1, <3>2
    <3>3. CASE ~(left <= 0 \/ i >= n)
      <4>1. i \in 0 .. n - 1
        BY <3>3
      <4>2. PICK j \in 0 .. n, k \in 0 .. 2 :
              j = Advance(s, n, i) /\ k = UnitsAt(s, n, i) /\ j > i
        BY <1>1, <4>1, Stepping
      <4>3. w[<<i, left>>] = w[<<j, left - k>>] /\ j \in 0 .. m /\ i < j /\ left - k \in -1 .. u
        BY <1>1, <3>1, <3>3, <4>2
      <4>4. w[<<j, left - k>>] \in j .. m
        BY <1>2, <1>3, <4>3
      <4> QED
        BY <4>3, <4>4
    <3> QED
      BY <3>2, <3>3
  <2> QED
    BY <1>2, <2>1
<1>4. m \in Nat
  BY <1>1
<1>5. \A i \in 0 .. m : i \in S
  BY <1>3, <1>4, Backwards
<1> QED
  BY <1>2, <1>5

LEMMA SignedIs ==
  /\ \A d \in 0 .. MaxLen : Signed(d) = d
  /\ Signed(Wrap - 1) = -1
BY PositionsAssumption DEF Signed

\* The line of the client that begins at s
LEMMA LineIs ==
  ASSUME NEW t \in Contents, NEW s \in LineStarts(t)
  PROVE  /\ s \in Nat /\ s < Len(t)
         /\ EndOfLine(t, s) \in s .. Len(t)
         /\ EndOfLine(t, s) < Len(t) => ByteAt(t, EndOfLine(t, s)) \in Eol
         /\ \A i \in s .. EndOfLine(t, s) - 1 : ByteAt(t, i) \notin Eol
         /\ LineFrom(t, s).at = s
         /\ LineFrom(t, s).len = EndOfLine(t, s) - s
         /\ LineFrom(t, s).len \in 0 .. MaxLen
         /\ Signed(LineFrom(t, s).len) = EndOfLine(t, s) - s
<1>1. t \in Seq(Bytes) /\ Len(t) \in Nat /\ Len(t) <= MaxLen /\ MaxLen \in Nat
  BY ContentsAre, PositionsAssumption
<1>2. s \in Nat /\ s < Len(t)
  BY <1>1 DEF LineStarts
<1> DEFINE T == {e \in s .. Len(t) : e < Len(t) => ByteAt(t, e) \in Eol}
<1>3. Len(t) \in T /\ T \subseteq Nat
  BY <1>1, <1>2
<1>4. PICK e \in T : \A k \in T : e <= k
  <2> HIDE DEF T
  <2> QED
    BY <1>3, Least
<1>5. \A i \in s .. e - 1 : ByteAt(t, i) \notin Eol
  <2> SUFFICES ASSUME NEW i \in s .. e - 1, ByteAt(t, i) \in Eol PROVE FALSE
    OBVIOUS
  <2>1. i \in T /\ i < e /\ e \in Nat /\ i \in Nat
    BY <1>1, <1>2
  <2> QED
    BY <1>4, <2>1
<1>6. EndOfLine(t, s) = e
  BY <1>1, <1>2, <1>5, EndIs
<1>7. e - s \in 0 .. MaxLen
  BY <1>1, <1>2
<1>8. LineFrom(t, s).at = s /\ LineFrom(t, s).len = e - s
  BY <1>6 DEF LineFrom
<1> QED
  BY <1>2, <1>5, <1>6, <1>7, <1>8, SignedIs

\* The pointer and the length of a line as the code has them
LEMMA LineWithin ==
  ASSUME NEW t \in Contents, NEW k \in DOMAIN SplitFile(t), NEW l, l = SplitFile(t)[k]
  PROVE  /\ l.at \in 0 .. Len(t)
         /\ Signed(l.len) \in -1 .. Len(t) - l.at
         /\ BytesFrom(t, l) \in Seq(Bytes)
         /\ Len(BytesFrom(t, l)) = Len(t) - l.at
<1>1. t \in Seq(Bytes) /\ Len(t) \in Nat /\ Len(t) <= MaxLen
  BY ContentsAre
<1>2. PICK split : split = SplitFile(t) /\ split \in Seq(Line) /\ LinesRight(t, split, Len(t))
  BY SplitFileRight
<1>3. k \in 1 .. Len(split) /\ l = split[k] /\ l \in Line
  BY <1>2
<1>4. l.at \in Nat
  BY <1>3, PositionsAssumption DEF Line
<1>5. l.at <= Len(t) /\ Signed(l.len) \in -1 .. Len(t) - l.at
  <2>1. CASE Wrapped(l)
    <3>1. l.at <= Len(t)
      BY <1>2, <1>3, <2>1 DEF LinesRight
    <3>2. Signed(l.len) = -1
      BY <2>1, SignedIs DEF Wrapped
    <3> QED
      BY <1>1, <1>4, <3>1, <3>2
  <2>2. CASE ~Wrapped(l)
    <3>1. l.at \in LineStarts(t) /\ l = LineFrom(t, l.at)
      BY <1>2, <1>3, <2>2 DEF LinesRight
    <3>2. PICK e \in l.at .. Len(t) : Signed(l.len) = e - l.at
      BY <3>1, LineIs
    <3> QED
      BY <1>1, <1>4, <3>2
  <2> QED
    BY <2>1, <2>2
<1>6. PICK a \in 0 .. Len(t) : a = l.at
  BY <1>1, <1>4, <1>5
<1>7. SubSeq(t, a + 1, Len(t)) \in Seq(Bytes) /\ Len(SubSeq(t, a + 1, Len(t))) = Len(t) - a
  BY <1>1, <1>6
<1> QED
  BY <1>5, <1>6, <1>7 DEF BytesFrom

LEMMA ConversionsWithin ==
  ASSUME NEW s \in Seq(Bytes), NEW n \in Int, n <= Len(s), n >= -1, NEW u \in Nat
  PROVE  /\ ByteFromUtf16(s, n, u) \in 0 .. (IF n < 0 THEN 0 ELSE n)
         /\ Utf16FromByte(s, n, u) \in 0 .. Len(s)
<1>1. PICK w : ByteFromUtf16(s, n, u) = w[<<0, u>>] /\ BytesWalk(s, n, u, w)
  BY BytesOf
<1>2. PICK v : Utf16FromByte(s, n, u) = v[0] /\ UnitsWalk(s, n, u, v)
  BY UnitsOf
<1>3. Len(s) \in Nat /\ 0 \in 0 .. Len(s)
  OBVIOUS
<1>4. PICK m \in 0 .. Len(s) : m = (IF n < 0 THEN 0 ELSE n) /\ n <= m /\ (n < 0 \/ n = m)
  BY <1>3
<1>5. \A i \in 0 .. m, left \in -1 .. u : w[<<i, left>>] \in i .. m
  BY <1>1, <1>4, BytesWithin
<1>6. w[<<0, u>>] \in 0 .. m
  BY <1>4, <1>5
<1>7. v[0] \in 0 .. Len(s)
  <2>1. \A i \in 0 .. Len(s) : v[i] \in 0 .. Len(s) - i
    BY <1>2, UnitsWithin
  <2>2. v[0] \in 0 .. Len(s) - 0
    BY <1>3, <2>1
  <2> QED
    BY <1>3, <2>2
<1> QED
  BY <1>1, <1>2, <1>4, <1>6, <1>7

\* No conversion of a line of a content, whatever the content, looks or points
\* beyond it, and the wrapped length of the line between a CR and its LF never
\* lets one.
THEOREM AlwaysInBounds == Spec => []InBounds
<1>1. TypeOK => InBounds
  <2> SUFFICES ASSUME TypeOK, NEW f \in Files, NEW k \in DOMAIN SplitFile(content[f])
               PROVE  LET t == content[f]
                          l == SplitFile(t)[k]
                          s == BytesFrom(t, l)
                      IN  /\ l.at + Signed(l.len) <= Len(t)
                          /\ \A u \in 0 .. MaxLen + 1 :
                               /\ l.at + ByteFromUtf16(s, Signed(l.len), u) <= Len(t)
                               /\ Utf16FromByte(s, Signed(l.len), u) <= Len(s)
    BY DEF InBounds
  <2>1. PICK t \in Contents : t = content[f]
    BY DEF TypeOK
  <2>2. PICK l : l = SplitFile(t)[k]
    OBVIOUS
  <2>3. PICK s : s = BytesFrom(t, l)
    OBVIOUS
  <2>4. Len(t) \in Nat
    BY ContentsAre
  <2>5. k \in DOMAIN SplitFile(t)
    BY <2>1
  <2>6. /\ l.at \in 0 .. Len(t) /\ Signed(l.len) \in -1 .. Len(t) - l.at
        /\ s \in Seq(Bytes) /\ Len(s) = Len(t) - l.at
    BY <2>2, <2>3, <2>5, LineWithin
  <2>7. PICK a, n : a = l.at /\ n = Signed(l.len)
    OBVIOUS
  <2>8. a \in 0 .. Len(t) /\ n \in -1 .. Len(t) - a
    BY <2>6, <2>7
  <2>9. ASSUME NEW u \in 0 .. MaxLen + 1
        PROVE  a + ByteFromUtf16(s, n, u) <= Len(t) /\ Utf16FromByte(s, n, u) <= Len(s)
    <3>1. /\ ByteFromUtf16(s, n, u) \in 0 .. (IF n < 0 THEN 0 ELSE n)
          /\ Utf16FromByte(s, n, u) \in 0 .. Len(s)
      <4>1. u \in Nat /\ n \in Int /\ n <= Len(s) /\ n >= -1
        BY <2>4, <2>6, <2>7, <2>8
      <4> QED
        BY <2>6, <4>1, ConversionsWithin
    <3> QED
      BY <2>4, <2>6, <2>7, <2>8, <3>1
  <2>10. a + n <= Len(t)
    BY <2>4, <2>8
  <2> QED
    BY <2>1, <2>2, <2>3, <2>7, <2>9, <2>10
<1> QED
  BY <1>1, TypeCorrect, PTL

-----------------------------------------------------------------------------
(***************************************************************************)
(* The two conversions belong together                                     *)
(***************************************************************************)
LEMMA BoundariesAre ==
  ASSUME NEW s \in Seq(Bytes)
  PROVE  /\ 0 \in Boundaries(s) /\ Len(s) \in Boundaries(s)
         /\ \A b \in Boundaries(s) : b \in Nat /\ b <= Len(s)
         /\ \A b \in Boundaries(s), i \in 0 .. Len(s) : i < b => Advance(s, Len(s), i) <= b
<1>1. PICK N \in Nat : N = Len(s)
  OBVIOUS
<1>2. \A i \in 0 .. N - 1 : Advance(s, N, i) \in 0 .. N
  BY <1>1, Stepping
<1>3. \A i \in 0 .. N - 1 : Advance(s, N, i) <= N
  BY <1>1, <1>2
<1> QED
  BY <1>1, <1>3 DEF Boundaries

LEMMA SteppingTo ==
  ASSUME NEW s \in Seq(Bytes), NEW N \in Nat, N = Len(s), NEW i \in 0 .. N - 1
  PROVE  /\ Iterate(s, N, i) \in {-1, 1, 2, 4}
         /\ Advance(s, N, i) \in 0 .. N /\ Advance(s, N, i) > i
         /\ UnitsAt(s, N, i) \in 0 .. 2
<1>1. N \in Int /\ N <= Len(s)
  OBVIOUS
<1> QED
  BY <1>1, Stepping

LEMMA BoundaryBehind ==
  ASSUME NEW s \in Seq(Bytes), NEW N, N = Len(s), NEW b \in Boundaries(s), NEW i \in 0 .. N, i < b
  PROVE  Advance(s, N, i) <= b
BY BoundariesAre

\* A code point that begins at such a place ends at one: only continuation bytes
\* are in it.
LEMMA NextBoundary ==
  ASSUME NEW s \in Seq(Bytes), NEW b \in Boundaries(s), b < Len(s)
  PROVE  Advance(s, Len(s), b) \in Boundaries(s)
<1>1. PICK N \in Nat : N = Len(s) /\ b \in 0 .. N - 1
  BY BoundariesAre
<1>2. PICK e \in 0 .. N : e = Advance(s, N, b) /\ e > b
  BY <1>1, SteppingTo
<1>3. ASSUME NEW k \in 0 .. e - 1 PROVE Advance(s, N, k) <= e
  <2>1. CASE k < b
    <3>1. Advance(s, N, k) <= b
      <4>1. k \in 0 .. N
        BY <1>1, <1>2
      <4> QED
        BY <1>1, <2>1, <4>1, BoundaryBehind
    <3>2. k \in 0 .. N - 1
      BY <1>1, <1>2, <2>1
    <3>3. Advance(s, N, k) \in 0 .. N
      BY <1>1, <3>2, SteppingTo
    <3> QED
      BY <1>1, <1>2, <3>1, <3>3
  <2>2. CASE k = b
    BY <1>2, <2>2
  <2>3. CASE k > b
    <3>1. PICK d \in {-1, 1, 2, 4} : d = Iterate(s, N, b)
      BY <1>1, SteppingTo
    <3>2. d > 1 /\ e = b + d
      BY <1>1, <1>2, <2>3, <3>1 DEF Advance
    <3>3. \A j \in 1 .. d - 1 : ByteAt(s, b + j) = "C"
      BY <1>1, <3>1, <3>2 DEF Iterate
    <3>4. k - b \in 1 .. d - 1 /\ b + (k - b) = k
      BY <1>1, <1>2, <2>3, <3>2
    <3>5. ByteAt(s, k) = "C"
      BY <3>3, <3>4
    <3>6. Iterate(s, N, k) = -1
      BY <3>5 DEF Iterate
    <3>7. Advance(s, N, k) = k + 1
      BY <3>6 DEF Advance
    <3> QED
      BY <1>2, <3>7
  <2> QED
    BY <1>1, <2>1, <2>2, <2>3
<1>4. e \in 0 .. Len(s) /\ \A k \in 0 .. e - 1 : Advance(s, Len(s), k) <= e
  BY <1>1, <1>2, <1>3
<1>5. e \in Boundaries(s)
  BY <1>4 DEF Boundaries
<1> QED
  BY <1>1, <1>2, <1>5

\* The code units up to such a place, by those from there to the end
LEMMA UnitsTo ==
  ASSUME NEW s \in Seq(Bytes), NEW b \in Boundaries(s),
         NEW v, UnitsWalk(s, Len(s), Len(s), v), NEW w, UnitsWalk(s, Len(s), b, w)
  PROVE  \A i \in 0 .. b : w[i] = v[i] - v[b]
<1>1. PICK N \in Nat : N = Len(s) /\ b \in 0 .. N
  BY BoundariesAre
<1>2. PICK S : S = {i \in 0 .. b : w[i] = v[i] - v[b]}
  OBVIOUS
<1>3. ASSUME NEW i \in 0 .. b, \A j \in 0 .. b : i < j => j \in S PROVE i \in S
  <2>1. /\ w[i] \in Int /\ w[i] = IF i >= b \/ i >= N THEN 0 ELSE UnitsAt(s, N, i) + w[Advance(s, N, i)]
        /\ v[i] \in Int /\ v[i] = IF i >= N \/ i >= N THEN 0 ELSE UnitsAt(s, N, i) + v[Advance(s, N, i)]
        /\ v[b] \in Int
    BY <1>1 DEF UnitsWalk
  <2>2. CASE i = b
    BY <1>1, <1>2, <2>1, <2>2
  <2>3. CASE i < b
    <3>1. i \in 0 .. N - 1 /\ i \in 0 .. N
      BY <1>1, <2>3
    <3>2. PICK j \in 0 .. N, k \in 0 .. 2 : j = Advance(s, N, i) /\ k = UnitsAt(s, N, i) /\ j > i
      BY <1>1, <3>1, SteppingTo
    <3>3. j <= b
      BY <1>1, <2>3, <3>1, <3>2, BoundaryBehind
    <3>4. w[i] = k + w[j] /\ v[i] = k + v[j] /\ j \in 0 .. b /\ i < j
      BY <1>1, <2>1, <2>3, <3>2, <3>3
    <3>5. w[j] = v[j] - v[b] /\ v[j] \in Int
      BY <1>1, <1>2, <1>3, <3>2, <3>4 DEF UnitsWalk
    <3>6. w[i] = v[i] - v[b]
      BY <2>1, <3>2, <3>4, <3>5
    <3> QED
      BY <1>2, <3>6
  <2> QED
    BY <1>1, <2>2, <2>3
<1>4. b \in Nat
  BY <1>1
<1>5. \A i \in 0 .. b : i \in S
  BY <1>3, <1>4, Backwards
<1> QED
  BY <1>2, <1>5

LEMMA AdjointWalk ==
  ASSUME NEW s \in Seq(Bytes), NEW b \in Boundaries(s), NEW u \in Nat,
         NEW v, UnitsWalk(s, Len(s), Len(s), v), NEW w, UnitsWalk(s, Len(s), b, w),
         NEW r, BytesWalk(s, Len(s), u, r)
  PROVE  \A i \in 0 .. b, left \in -1 .. u :
           left <= v[i] => (r[<<i, left>>] <= b <=> left <= w[i])
<1>1. PICK N \in Nat : N = Len(s) /\ b \in 0 .. N
  BY BoundariesAre
<1>2. PICK S : S = {i \in 0 .. b : \A left \in -1 .. u :
                      left <= v[i] => (r[<<i, left>>] <= b <=> left <= w[i])}
  OBVIOUS
<1>3. ASSUME NEW i \in 0 .. b, \A j \in 0 .. b : i < j => j \in S PROVE i \in S
  <2>1. ASSUME NEW left \in -1 .. u, left <= v[i] PROVE r[<<i, left>>] <= b <=> left <= w[i]
    <3>1. /\ r[<<i, left>>] = IF left <= 0 \/ i >= N THEN i
                             ELSE r[<<Advance(s, N, i), left - UnitsAt(s, N, i)>>]
          /\ w[i] \in Int /\ w[i] = IF i >= b \/ i >= N THEN 0 ELSE UnitsAt(s, N, i) + w[Advance(s, N, i)]
          /\ v[i] \in Int /\ v[i] = IF i >= N \/ i >= N THEN 0 ELSE UnitsAt(s, N, i) + v[Advance(s, N, i)]
      BY <1>1 DEF UnitsWalk, BytesWalk
    <3>2. w[i] >= 0
      <4>1. \A k \in 0 .. Len(s) : w[k] \in 0 .. Len(s) - k
        <5>1. Len(s) \in Int /\ Len(s) <= Len(s) /\ b \in Int
          BY <1>1
        <5> QED
          BY <5>1, UnitsWithin
      <4> QED
        BY <1>1, <4>1
    <3>3. CASE left <= 0
      BY <1>1, <3>1, <3>2, <3>3
    <3>4. CASE left > 0
      <4>1. i < N
        BY <1>1, <2>1, <3>1, <3>4
      <4>2. i \in 0 .. N - 1 /\ left \in 1 .. u
        BY <1>1, <3>4, <4>1
      <4>3. PICK j \in 0 .. N, k \in 0 .. 2 : j = Advance(s, N, i) /\ k = UnitsAt(s, N, i) /\ j > i
        BY <1>1, <4>2, SteppingTo
      <4>4. r[<<i, left>>] = r[<<j, left - k>>] /\ v[i] = k + v[j] /\ left - k \in -1 .. u
        BY <1>1, <3>1, <4>2, <4>3
      <4>5. CASE i = b
        <5>1. \A x \in 0 .. Len(s), l \in -1 .. u : r[<<x, l>>] \in x .. Len(s)
          <6>1. /\ Len(s) \in Int /\ Len(s) <= Len(s) /\ Len(s) \in 0 .. Len(s)
                /\ (Len(s) < 0 \/ Len(s) = Len(s))
            BY <1>1
          <6> QED
            BY <6>1, BytesWithin
        <5>2. r[<<j, left - k>>] \in j .. N
          BY <1>1, <4>3, <4>4, <5>1
        <5>3. w[i] = 0
          BY <3>1, <4>5
        <5> QED
          BY <1>1, <4>2, <4>3, <4>4, <4>5, <5>2, <5>3
      <4>6. CASE i < b
        <5>1. j <= b
          BY <1>1, <4>2, <4>3, <4>6, BoundaryBehind
        <5>2. w[i] = k + w[j] /\ j \in 0 .. b /\ i < j
          BY <1>1, <3>1, <4>2, <4>3, <4>6, <5>1
        <5>3. w[j] \in Int /\ v[j] \in Int
          BY <1>1, <4>3 DEF UnitsWalk
        <5>4. left - k <= v[j] => (r[<<j, left - k>>] <= b <=> left - k <= w[j])
          BY <1>2, <1>3, <4>4, <5>2
        <5>5. left - k <= v[j]
          BY <2>1, <4>2, <4>3, <4>4, <5>3
        <5>6. left - k <= w[j] <=> left <= w[i]
          BY <4>2, <4>3, <5>2, <5>3
        <5> QED
          BY <4>4, <5>4, <5>5, <5>6
      <4> QED
        BY <1>1, <4>5, <4>6
    <3> QED
      BY <3>3, <3>4
  <2> QED
    BY <1>2, <2>1
<1>4. b \in Nat
  BY <1>1
<1>5. \A i \in 0 .. b : i \in S
  BY <1>3, <1>4, Backwards
<1> QED
  BY <1>2, <1>5

LEMMA AdjointOf ==
  ASSUME NEW s \in Seq(Bytes), NEW b \in Boundaries(s), NEW u \in Nat,
         u <= Utf16FromByte(s, Len(s), Len(s))
  PROVE  ByteFromUtf16(s, Len(s), u) <= b <=> u <= Utf16FromByte(s, Len(s), b)
<1>1. PICK N \in Nat : N = Len(s) /\ b \in 0 .. N
  BY BoundariesAre
<1>2. N \in Int /\ N <= Len(s) /\ b \in Int
  BY <1>1
<1>3. PICK v : Utf16FromByte(s, N, N) = v[0] /\ UnitsWalk(s, N, N, v)
  BY <1>2, UnitsOf
<1>4. PICK w : Utf16FromByte(s, N, b) = w[0] /\ UnitsWalk(s, N, b, w)
  BY <1>2, UnitsOf
<1>5. PICK r : ByteFromUtf16(s, N, u) = r[<<0, u>>] /\ BytesWalk(s, N, u, r)
  BY <1>2, BytesOf
<1>6. \A i \in 0 .. b, left \in -1 .. u :
        left <= v[i] => (r[<<i, left>>] <= b <=> left <= w[i])
  BY <1>1, <1>3, <1>4, <1>5, AdjointWalk
<1>7. u <= v[0] => (r[<<0, u>>] <= b <=> u <= w[0])
  BY <1>1, <1>6
<1> QED
  BY <1>1, <1>3, <1>4, <1>5, <1>7

\* The bytes of a line of the client
LEMMA BytesOfLine ==
  ASSUME NEW t \in Contents, NEW begin \in LineStarts(t)
  PROVE  /\ Within(t, LineFrom(t, begin)) \in Seq(Bytes)
         /\ Len(Within(t, LineFrom(t, begin))) = EndOfLine(t, begin) - begin
         /\ \A i \in 0 .. EndOfLine(t, begin) - begin - 1 :
              ByteAt(Within(t, LineFrom(t, begin)), i) = ByteAt(t, begin + i)
<1>1. t \in Seq(Bytes) /\ Len(t) \in Nat /\ begin \in Nat
  BY ContentsAre, LineIs
<1>2. PICK e \in begin .. Len(t) : e = EndOfLine(t, begin)
  BY LineIs
<1>3. Within(t, LineFrom(t, begin)) = SubSeq(t, begin + 1, begin + (e - begin))
  BY <1>2, LineIs DEF Within
<1>4. PICK s : s = SubSeq(t, begin + 1, e)
  OBVIOUS
<1>5. /\ s \in Seq(Bytes) /\ Len(s) = e - begin
      /\ \A i \in 0 .. e - begin - 1 : s[i + 1] = t[begin + i + 1]
  BY <1>1, <1>2, <1>4
<1>6. begin + (e - begin) = e
  BY <1>1, <1>2
<1> QED
  BY <1>2, <1>3, <1>4, <1>5, <1>6 DEF ByteAt

\* The two conversions belong together on every line of every content, valid
\* UTF-8 or not: neither of the two loops can lose count of the other.
THEOREM AlwaysAdjoint == Spec => []Adjoint
<1>1. TypeOK => Adjoint
  <2> SUFFICES ASSUME TypeOK, NEW f \in Files, NEW begin \in LineStarts(content[f])
               PROVE  LET t == content[f]
                          s == Within(t, LineFrom(t, begin))
                          n == Len(s)
                      IN  \A b \in Boundaries(s), u \in 0 .. Utf16FromByte(s, n, n) :
                            ByteFromUtf16(s, n, u) <= b <=> u <= Utf16FromByte(s, n, b)
    BY DEF Adjoint
  <2>1. PICK t \in Contents : t = content[f]
    BY DEF TypeOK
  <2>2. PICK s : s = Within(t, LineFrom(t, begin))
    OBVIOUS
  <2>3. s \in Seq(Bytes)
    BY <2>1, <2>2, BytesOfLine
  <2>4. \A b \in Boundaries(s), u \in 0 .. Utf16FromByte(s, Len(s), Len(s)) :
          ByteFromUtf16(s, Len(s), u) <= b <=> u <= Utf16FromByte(s, Len(s), b)
    <3> SUFFICES ASSUME NEW b \in Boundaries(s), NEW u \in 0 .. Utf16FromByte(s, Len(s), Len(s))
                 PROVE  ByteFromUtf16(s, Len(s), u) <= b <=> u <= Utf16FromByte(s, Len(s), b)
      OBVIOUS
    <3>1. Utf16FromByte(s, Len(s), Len(s)) \in 0 .. Len(s)
      BY <2>3, ConversionsWithin
    <3>2. u \in Nat /\ u <= Utf16FromByte(s, Len(s), Len(s))
      BY <3>1
    <3> QED
      BY <2>3, <3>2, AdjointOf
  <2> QED
    BY <2>1, <2>2, <2>4
<1> QED
  BY <1>1, TypeCorrect, PTL

-----------------------------------------------------------------------------
(***************************************************************************)
(* From a place back to itself                                             *)
(***************************************************************************)
\* The code units before such a place lead to one that as many are before.
LEMMA ExactWalk ==
  ASSUME NEW s \in Seq(Bytes), NEW b \in Boundaries(s), NEW u \in Nat,
         NEW v, UnitsWalk(s, Len(s), Len(s), v), NEW w, UnitsWalk(s, Len(s), b, w),
         NEW r, BytesWalk(s, Len(s), u, r)
  PROVE  \A i \in 0 .. b :
           i \in Boundaries(s) /\ w[i] <= u =>
             /\ r[<<i, w[i]>>] \in Boundaries(s)
             /\ r[<<i, w[i]>>] <= b
             /\ v[r[<<i, w[i]>>]] = v[b]
             /\ Valid(s) => r[<<i, w[i]>>] = b
<1> DEFINE Ends(e) == e \in Boundaries(s) /\ e <= b /\ v[e] = v[b] /\ (Valid(s) => e = b)
<1>1. PICK N \in Nat : N = Len(s) /\ b \in 0 .. N
  BY BoundariesAre
<1>2. PICK S : S = {i \in 0 .. b : i \in Boundaries(s) /\ w[i] <= u => Ends(r[<<i, w[i]>>])}
  OBVIOUS
<1> HIDE DEF Ends
<1>3. \A i \in 0 .. b : w[i] = v[i] - v[b] /\ w[i] \in Nat /\ v[i] \in Int /\ v[b] \in Int
  <2>1. \A i \in 0 .. b : w[i] = v[i] - v[b]
    BY UnitsTo
  <2>2. \A i \in 0 .. Len(s) : w[i] \in 0 .. Len(s) - i
    <3>1. Len(s) \in Int /\ Len(s) <= Len(s) /\ b \in Int
      BY <1>1
    <3> QED
      BY <3>1, UnitsWithin
  <2>3. \A i \in 0 .. b : w[i] \in Nat
    <3> SUFFICES ASSUME NEW i \in 0 .. b PROVE w[i] \in Nat
      OBVIOUS
    <3>1. i \in 0 .. Len(s)
      BY <1>1
    <3>2. w[i] \in 0 .. Len(s) - i
      BY <2>2, <3>1
    <3> QED
      BY <3>2
  <2>4. \A i \in 0 .. Len(s) : v[i] \in Int
    BY DEF UnitsWalk
  <2>5. \A i \in 0 .. b : v[i] \in Int /\ v[b] \in Int
    BY <1>1, <2>4
  <2> QED
    BY <2>1, <2>3, <2>5
<1>4. ASSUME NEW i \in 0 .. b, \A j \in 0 .. b : i < j => j \in S PROVE i \in S
  <2>1. ASSUME i \in Boundaries(s), w[i] <= u PROVE Ends(r[<<i, w[i]>>])
    <3>1. PICK left \in 0 .. u : left = w[i]
      BY <1>3, <2>1
    <3>2. r[<<i, left>>] = IF left <= 0 \/ i >= N THEN i
                          ELSE r[<<Advance(s, N, i), left - UnitsAt(s, N, i)>>]
      <4>1. i \in 0 .. Len(s) /\ left \in -1 .. u
        BY <1>1
      <4> QED
        BY <1>1, <4>1 DEF BytesWalk
    <3>3. CASE i = b
      <4>1. left = 0
        BY <1>3, <3>1, <3>3
      <4>2. r[<<i, left>>] = b
        BY <3>2, <3>3, <4>1
      <4> QED
        BY <1>1, <3>1, <4>2 DEF Ends
    <3>4. CASE i < b
      <4>1. i \in 0 .. N - 1
        BY <1>1, <3>4
      <4>2. PICK j \in 0 .. N, k \in 0 .. 2 : j = Advance(s, N, i) /\ k = UnitsAt(s, N, i) /\ j > i
        BY <1>1, <4>1, SteppingTo
      <4>3. j \in 0 .. b /\ j \in Boundaries(s)
        <5>1. j <= b
          BY <1>1, <3>4, <4>1, <4>2, BoundaryBehind
        <5>2. Advance(s, Len(s), i) \in Boundaries(s)
          BY <1>1, <2>1, <4>1, NextBoundary
        <5> QED
          BY <1>1, <4>2, <5>1, <5>2
      <4>4. left = k + w[j]
        <5>1. w[i] = IF i >= b \/ i >= N THEN 0 ELSE UnitsAt(s, N, i) + w[Advance(s, N, i)]
          BY <1>1, <4>1 DEF UnitsWalk
        <5> QED
          BY <1>1, <3>1, <3>4, <4>1, <4>2, <5>1
      <4>5. w[j] \in Nat /\ w[j] <= u
        BY <1>3, <4>2, <4>3, <4>4
      <4>6. Ends(r[<<j, w[j]>>])
        BY <1>2, <1>4, <4>2, <4>3, <4>5
      <4>7. CASE left > 0
        <5>1. left - k = w[j]
          BY <4>2, <4>4, <4>5
        <5>2. r[<<i, left>>] = r[<<j, w[j]>>]
          BY <3>2, <4>1, <4>2, <4>7, <5>1
        <5> QED
          BY <3>1, <4>6, <5>2
      <4>8. CASE left = 0
        <5>1. k = 0
          BY <4>2, <4>4, <4>5, <4>8
        <5>2. ~Valid(s)
          <6>1. PICK d \in {-1, 1, 2, 4} : d = Iterate(s, N, i)
            BY <1>1, <4>1, SteppingTo
          <6>2. d = -1
            BY <4>2, <5>1, <6>1 DEF UnitsAt
          <6>3. i < Len(s) /\ ~(Iterate(s, Len(s), i) > 0)
            BY <1>1, <4>1, <6>1, <6>2
          <6> QED
            BY <2>1, <6>3 DEF Valid
        <5>3. r[<<i, left>>] = i
          BY <3>2, <4>8
        <5>4. v[i] = v[b]
          <6>1. w[i] = v[i] - v[b] /\ v[i] \in Int /\ v[b] \in Int
            BY <1>3
          <6>2. w[i] = 0
            BY <3>1, <4>8
          <6>3. PICK x \in Int, y \in Int : x = v[i] /\ y = v[b]
            BY <6>1
          <6>4. x - y = 0
            BY <6>1, <6>2, <6>3
          <6> QED
            BY <6>3, <6>4
        <5> QED
          BY <2>1, <3>1, <3>4, <5>2, <5>3, <5>4 DEF Ends
      <4> QED
        BY <4>7, <4>8
    <3> QED
      BY <1>1, <3>3, <3>4
  <2> QED
    BY <1>2, <2>1
<1>5. b \in Nat
  BY <1>1
<1>6. \A i \in 0 .. b : i \in S
  BY <1>4, <1>5, Backwards
<1> QED
  BY <1>2, <1>6 DEF Ends

LEMMA ExactOf ==
  ASSUME NEW s \in Seq(Bytes), NEW b \in Boundaries(s),
         NEW e, e = ByteFromUtf16(s, Len(s), Utf16FromByte(s, Len(s), b))
  PROVE  /\ e \in Boundaries(s) /\ e <= b
         /\ Utf16FromByte(s, Len(s), e) = Utf16FromByte(s, Len(s), b)
         /\ Valid(s) => e = b
<1>1. PICK N \in Nat : N = Len(s) /\ b \in 0 .. N
  BY BoundariesAre
<1>2. N \in Int /\ N <= Len(s) /\ b \in Int /\ b \in Nat /\ N >= -1
  BY <1>1
<1>3. PICK v : Utf16FromByte(s, N, N) = v[0] /\ UnitsWalk(s, N, N, v)
  BY <1>2, UnitsOf
<1>4. PICK w : Utf16FromByte(s, N, b) = w[0] /\ UnitsWalk(s, N, b, w)
  BY <1>2, UnitsOf
<1>5. PICK u \in Nat : u = w[0]
  <2>1. Utf16FromByte(s, N, b) \in 0 .. Len(s)
    BY <1>2, ConversionsWithin
  <2> QED
    BY <1>4, <2>1
<1>6. PICK r : ByteFromUtf16(s, N, u) = r[<<0, u>>] /\ BytesWalk(s, N, u, r)
  BY <1>2, BytesOf
<1>7. e = r[<<0, u>>]
  BY <1>1, <1>4, <1>5, <1>6
<1>8. e \in Boundaries(s) /\ e <= b /\ v[e] = v[b] /\ (Valid(s) => e = b)
  <2>1. \A i \in 0 .. b :
           i \in Boundaries(s) /\ w[i] <= u =>
             /\ r[<<i, w[i]>>] \in Boundaries(s)
             /\ r[<<i, w[i]>>] <= b
             /\ v[r[<<i, w[i]>>]] = v[b]
             /\ Valid(s) => r[<<i, w[i]>>] = b
    BY <1>1, <1>3, <1>4, <1>6, ExactWalk
  <2>2. 0 \in 0 .. b /\ 0 \in Boundaries(s) /\ w[0] <= u
    BY <1>1, <1>5, BoundariesAre
  <2>3. PICK z : z = w[0]
    OBVIOUS
  <2> QED
    BY <1>5, <1>7, <2>1, <2>2
<1>9. e \in 0 .. N
  BY <1>1, <1>8, BoundariesAre
<1>10. PICK x : Utf16FromByte(s, N, e) = x[0] /\ UnitsWalk(s, N, e, x)
  <2>1. e \in Int
    BY <1>9
  <2> QED
    BY <1>2, <2>1, UnitsOf
<1>11. w[0] = v[0] - v[b]
  <2>1. \A i \in 0 .. b : w[i] = v[i] - v[b]
    BY <1>1, <1>3, <1>4, UnitsTo
  <2> QED
    BY <1>1, <2>1
<1>12. x[0] = v[0] - v[e]
  <2>1. \A i \in 0 .. e : x[i] = v[i] - v[e]
    BY <1>1, <1>3, <1>8, <1>10, UnitsTo
  <2> QED
    BY <1>9, <2>1
<1> QED
  BY <1>1, <1>4, <1>8, <1>10, <1>11, <1>12

-----------------------------------------------------------------------------
(***************************************************************************)
(* A part of the bytes: p has those of s from q on, m of them, and no code *)
(* point of s that begins in that part ends beyond it.                     *)
(***************************************************************************)
PartOf(p, m, s, n, q) ==
    /\ p \in Seq(Bytes) /\ s \in Seq(Bytes)
    /\ m \in Nat /\ n \in Nat /\ q \in Nat
    /\ m <= Len(p) /\ n <= Len(s) /\ q + m <= n
    /\ \A i \in 0 .. m - 1 : ByteAt(p, i) = ByteAt(s, q + i)
    /\ \A i \in 0 .. m - 1 : Advance(s, n, q + i) <= q + m

LEMMA PartSteps ==
  ASSUME NEW p, NEW m, NEW s, NEW n, NEW q, PartOf(p, m, s, n, q), NEW i \in 0 .. m - 1
  PROVE  /\ UnitsAt(p, m, i) = UnitsAt(s, n, q + i)
         /\ q + Advance(p, m, i) = Advance(s, n, q + i)
<1> USE DEF PartOf
<1>1. i \in Nat /\ i < m /\ q + i \in 0 .. n - 1
  OBVIOUS
<1>2. ByteAt(p, i) = ByteAt(s, q + i) /\ Advance(s, n, q + i) <= q + m
  OBVIOUS
<1>3. PICK d \in {-1, 1, 2, 4} : d = Iterate(s, n, q + i)
  BY <1>1, Stepping
<1> DEFINE Go(k) == q + i + k <= n /\ \A j \in 1 .. k - 1 : ByteAt(s, q + i + j) = "C"
           GoP(k) == i + k <= m /\ \A j \in 1 .. k - 1 : ByteAt(p, i + j) = "C"
<1>4. Iterate(s, n, q + i) =
        CASE ByteAt(s, q + i) = "L2" -> IF Go(2) THEN 2 ELSE -1
          [] ByteAt(s, q + i) = "L4" -> IF Go(4) THEN 4 ELSE -1
          [] ByteAt(s, q + i) = "C" -> -1
          [] OTHER -> 1
  BY DEF Iterate
<1>5. Iterate(p, m, i) =
        CASE ByteAt(p, i) = "L2" -> IF GoP(2) THEN 2 ELSE -1
          [] ByteAt(p, i) = "L4" -> IF GoP(4) THEN 4 ELSE -1
          [] ByteAt(p, i) = "C" -> -1
          [] OTHER -> 1
  BY DEF Iterate
<1>6. ASSUME NEW k \in {2, 4}, GoP(k) PROVE Go(k)
  <2>1. q + i + k <= n
    BY <1>1, <1>6
  <2>2. ASSUME NEW j \in 1 .. k - 1 PROVE ByteAt(s, q + i + j) = "C"
    <3>1. k \in Nat /\ j \in Nat /\ j < k /\ i + k <= m /\ m \in Nat /\ q \in Nat
      BY <1>6, <2>2
    <3>2. ByteAt(p, i + j) = "C"
      BY <1>6, <2>2
    <3>3. i + j \in 0 .. m - 1 /\ q + (i + j) = q + i + j
      BY <1>1, <3>1
    <3>4. ByteAt(p, i + j) = ByteAt(s, q + (i + j))
      BY <3>3
    <3> QED
      BY <3>2, <3>3, <3>4
  <2> QED
    BY <2>1, <2>2
<1>7. ASSUME NEW k \in {2, 4}, Go(k), Iterate(s, n, q + i) = k PROVE GoP(k)
  <2>1. Advance(s, n, q + i) = q + i + k
    BY <1>7 DEF Advance
  <2>2. i + k <= m
    BY <1>1, <1>2, <2>1
  <2>3. ASSUME NEW j \in 1 .. k - 1 PROVE ByteAt(p, i + j) = "C"
    <3>1. k \in Nat /\ j \in Nat /\ j < k /\ m \in Nat /\ q \in Nat
      BY <1>7, <2>3
    <3>2. ByteAt(s, q + i + j) = "C"
      BY <1>7, <2>3
    <3>3. i + j \in 0 .. m - 1 /\ q + (i + j) = q + i + j
      BY <1>1, <2>2, <3>1
    <3>4. ByteAt(p, i + j) = ByteAt(s, q + (i + j))
      BY <3>3
    <3> QED
      BY <3>2, <3>3, <3>4
  <2> QED
    BY <2>2, <2>3
<1> HIDE DEF Go, GoP
<1>8. Iterate(p, m, i) = Iterate(s, n, q + i)
  BY <1>2, <1>4, <1>5, <1>6, <1>7
<1>9. PICK e : e = Iterate(p, m, i)
  OBVIOUS
<1> QED
  BY <1>1, <1>3, <1>8 DEF Advance, UnitsAt

LEMMA PartUnits ==
  ASSUME NEW p, NEW m, NEW s, NEW n, NEW q, PartOf(p, m, s, n, q),
         NEW b \in 0 .. m, NEW v, UnitsWalk(p, m, b, v), NEW w, UnitsWalk(s, n, q + b, w)
  PROVE  \A i \in 0 .. m : v[i] = w[q + i]
<1>1. PICK S : S = {i \in 0 .. m : v[i] = w[q + i]}
  OBVIOUS
<1>2. m \in Nat /\ n \in Nat /\ q \in Nat /\ q + m <= n /\ m <= Len(p) /\ n <= Len(s)
      /\ p \in Seq(Bytes) /\ Len(p) \in Nat /\ Len(s) \in Nat
  BY DEF PartOf
<1>3. ASSUME NEW i \in 0 .. m, \A j \in 0 .. m : i < j => j \in S PROVE i \in S
  <2>1. v[i] \in Int /\ v[i] = IF i >= b \/ i >= m THEN 0 ELSE UnitsAt(p, m, i) + v[Advance(p, m, i)]
    <3>1. i \in 0 .. Len(p)
      BY <1>2
    <3> QED
      BY <3>1 DEF UnitsWalk
  <2>2. w[q + i] = IF q + i >= q + b \/ q + i >= n THEN 0
                   ELSE UnitsAt(s, n, q + i) + w[Advance(s, n, q + i)]
    <3>1. q + i \in 0 .. Len(s)
      BY <1>2
    <3> QED
      BY <3>1 DEF UnitsWalk
  <2>3. CASE i >= b
    <3>1. q + i >= q + b
      BY <1>2, <2>3
    <3>2. v[i] = w[q + i]
      BY <2>1, <2>2, <2>3, <3>1
    <3> QED
      BY <1>1, <3>2
  <2>4. CASE i < b
    <3>1. i \in 0 .. m - 1 /\ ~(i >= b \/ i >= m) /\ ~(q + i >= q + b \/ q + i >= n)
      BY <1>2, <2>4
    <3>2. UnitsAt(p, m, i) = UnitsAt(s, n, q + i) /\ q + Advance(p, m, i) = Advance(s, n, q + i)
      BY <3>1, PartSteps
    <3>3. Advance(p, m, i) \in 0 .. m /\ Advance(p, m, i) > i
      <4>1. m \in Int /\ m <= Len(p) /\ p \in Seq(Bytes)
        BY <1>2
      <4> QED
        BY <3>1, <4>1, Stepping
    <3>4. v[Advance(p, m, i)] = w[q + Advance(p, m, i)]
      BY <1>1, <1>3, <3>3
    <3>5. v[i] = w[q + i]
      BY <2>1, <2>2, <3>1, <3>2, <3>4
    <3> QED
      BY <1>1, <3>5
  <2> QED
    BY <1>2, <2>3, <2>4
<1>4. \A i \in 0 .. m : i \in S
  BY <1>2, <1>3, Backwards
<1> QED
  BY <1>1, <1>4

LEMMA PartBytes ==
  ASSUME NEW p, NEW m, NEW s, PartOf(p, m, s, m, 0),
         NEW u \in Nat, NEW v, BytesWalk(p, m, u, v), NEW w, BytesWalk(s, m, u, w)
  PROVE  v[<<0, u>>] = w[<<0, u>>]
<1>1. PICK S : S = {i \in 0 .. m : \A left \in -1 .. u : v[<<i, left>>] = w[<<i, left>>]}
  OBVIOUS
<1>2. m \in Nat /\ m <= Len(p) /\ m <= Len(s) /\ p \in Seq(Bytes)
      /\ Len(p) \in Nat /\ Len(s) \in Nat
  BY DEF PartOf
<1>3. ASSUME NEW i \in 0 .. m, \A j \in 0 .. m : i < j => j \in S PROVE i \in S
  <2>1. ASSUME NEW left \in -1 .. u PROVE v[<<i, left>>] = w[<<i, left>>]
    <3>1. /\ v[<<i, left>>] = IF left <= 0 \/ i >= m THEN i
                             ELSE v[<<Advance(p, m, i), left - UnitsAt(p, m, i)>>]
          /\ w[<<i, left>>] = IF left <= 0 \/ i >= m THEN i
                             ELSE w[<<Advance(s, m, i), left - UnitsAt(s, m, i)>>]
      <4>1. i \in 0 .. Len(p) /\ i \in 0 .. Len(s)
        BY <1>2
      <4> QED
        BY <4>1 DEF BytesWalk
    <3>2. CASE left <= 0 \/ i >= m
      BY <3>1, <3>2
    <3>3. CASE ~(left <= 0 \/ i >= m)
      <4>1. i \in 0 .. m - 1 /\ left \in 1 .. u
        BY <1>2, <3>3
      <4>2. PICK j \in 0 .. m, k \in 0 .. 2 : j = Advance(p, m, i) /\ k = UnitsAt(p, m, i) /\ j > i
        <5>1. m \in Int /\ m <= Len(p) /\ p \in Seq(Bytes)
          BY <1>2
        <5> QED
          BY <4>1, <5>1, Stepping
      <4>3. k = UnitsAt(s, m, i) /\ j = Advance(s, m, i)
        <5>1. UnitsAt(p, m, i) = UnitsAt(s, m, 0 + i) /\ 0 + Advance(p, m, i) = Advance(s, m, 0 + i)
          BY <4>1, PartSteps
        <5>2. 0 + i = i /\ 0 + j = j
          BY <1>2
        <5> QED
          BY <4>2, <5>1, <5>2
      <4>4. left - k \in -1 .. u
        BY <4>1
      <4>5. v[<<j, left - k>>] = w[<<j, left - k>>]
        BY <1>1, <1>3, <4>2, <4>4
      <4> QED
        BY <3>1, <3>3, <4>2, <4>3, <4>5
    <3> QED
      BY <3>2, <3>3
  <2> QED
    BY <1>1, <2>1
<1>4. \A i \in 0 .. m : i \in S
  BY <1>2, <1>3, Backwards
<1>5. 0 \in 0 .. m /\ u \in -1 .. u
  BY <1>2
<1> QED
  BY <1>1, <1>4, <1>5

\* The code units between two places are those of the bytes between them.
LEMMA UnitsBetween ==
  ASSUME NEW s \in Seq(Bytes), NEW a \in Boundaries(s), NEW e \in Boundaries(s), a <= e,
         NEW p, p = SubSeq(s, a + 1, e)
  PROVE  Utf16FromByte(p, Len(p), Len(p)) =
           Utf16FromByte(s, Len(s), e) - Utf16FromByte(s, Len(s), a)
<1>1. PICK N \in Nat : N = Len(s) /\ a \in 0 .. N /\ e \in 0 .. N
  BY BoundariesAre
<1>2. N \in Int /\ N <= Len(s) /\ a \in Int /\ e \in Int
  BY <1>1
<1>3. PICK m \in Nat : m = e - a
  BY <1>1
<1>4. /\ p \in Seq(Bytes) /\ Len(p) = m /\ m \in Int /\ m <= Len(p)
      /\ \A i \in 0 .. m - 1 : p[i + 1] = s[a + i + 1]
  <2>1. p \in Seq(Bytes) /\ Len(p) = m
    BY <1>1, <1>3
  <2>2. \A i \in 0 .. m - 1 : p[i + 1] = s[a + 1 + (i + 1) - 1]
    BY <1>1, <1>3
  <2>3. \A i \in 0 .. m - 1 : a + 1 + (i + 1) - 1 = a + i + 1
    BY <1>1
  <2> QED
    BY <2>1, <2>2, <2>3
<1>5. PartOf(p, m, s, N, a)
  <2>1. a + m = e /\ a \in Nat
    BY <1>1, <1>3
  <2>2. ASSUME NEW i \in 0 .. m - 1 PROVE Advance(s, N, a + i) <= a + m
    <3>1. a + i \in 0 .. N /\ a + i < e
      BY <1>1, <1>3
    <3>2. Advance(s, N, a + i) <= e
      BY <1>1, <3>1, BoundaryBehind
    <3> QED
      BY <2>1, <3>2
  <2>3. \A i \in 0 .. m - 1 : ByteAt(p, i) = ByteAt(s, a + i)
    BY <1>4 DEF ByteAt
  <2>4. a + m <= N /\ N <= Len(s) /\ m <= Len(p)
    BY <1>1, <1>4, <2>1
  <2> QED
    BY <1>1, <1>4, <2>1, <2>2, <2>3, <2>4 DEF PartOf
<1>6. PICK v : Utf16FromByte(p, m, m) = v[0] /\ UnitsWalk(p, m, m, v)
  BY <1>4, UnitsOf
<1>7. PICK w : Utf16FromByte(s, N, e) = w[0] /\ UnitsWalk(s, N, e, w)
  BY <1>2, UnitsOf
<1>8. PICK x : Utf16FromByte(s, N, a) = x[0] /\ UnitsWalk(s, N, a, x)
  BY <1>2, UnitsOf
<1>9. PICK y : UnitsWalk(s, N, N, y)
  BY <1>2, UnitsOf
<1>10. v[0] = w[a]
  <2>1. a + m = e /\ m \in 0 .. m /\ 0 \in 0 .. m /\ a + 0 = a
    BY <1>1, <1>3
  <2>2. UnitsWalk(s, N, a + m, w)
    BY <1>7, <2>1
  <2>3. \A i \in 0 .. m : v[i] = w[a + i]
    BY <1>5, <1>6, <2>1, <2>2, PartUnits
  <2>4. v[0] = w[a + 0]
    BY <2>1, <2>3
  <2> QED
    BY <2>1, <2>4
<1>11. w[0] = y[0] - y[e] /\ w[a] = y[a] - y[e]
  <2>1. \A i \in 0 .. e : w[i] = y[i] - y[e]
    BY <1>1, <1>7, <1>9, UnitsTo
  <2> QED
    BY <1>1, <2>1
<1>12. x[0] = y[0] - y[a]
  <2>1. \A i \in 0 .. a : x[i] = y[i] - y[a]
    BY <1>1, <1>8, <1>9, UnitsTo
  <2> QED
    BY <1>1, <2>1
<1>13. y[0] \in Int /\ y[a] \in Int /\ y[e] \in Int
  BY <1>1, <1>9 DEF UnitsWalk
<1>14. w[a] = w[0] - x[0]
  BY <1>11, <1>12, <1>13
<1> QED
  BY <1>1, <1>4, <1>6, <1>7, <1>8, <1>10, <1>14

\* The code looks at a line by a pointer into the content, which goes on behind
\* the line, and its length: it sees the bytes of the line and no others.
LEMMA SeesLine ==
  ASSUME NEW t \in Contents, NEW begin \in LineStarts(t),
         NEW l, l = LineFrom(t, begin),
         NEW s, s = Within(t, l), NEW x, x = BytesFrom(t, l)
  PROVE  /\ s \in Seq(Bytes) /\ Len(s) \in Nat /\ Signed(l.len) = Len(s)
         /\ x \in Seq(Bytes) /\ Len(s) <= Len(x)
         /\ \A i \in 0 .. Len(s) - 1 : ByteAt(x, i) = ByteAt(s, i)
         /\ \A b \in 0 .. Len(s) : Utf16FromByte(x, Len(s), b) = Utf16FromByte(s, Len(s), b)
         /\ \A u \in Nat : ByteFromUtf16(x, Len(s), u) = ByteFromUtf16(s, Len(s), u)
<1>1. t \in Seq(Bytes) /\ Len(t) \in Nat /\ begin \in Nat /\ begin < Len(t)
  BY ContentsAre, LineIs
<1>2. PICK e \in begin .. Len(t) : e = EndOfLine(t, begin)
  BY LineIs
<1>3. PICK n \in Nat : n = e - begin
  BY <1>1, <1>2
<1>4. /\ s \in Seq(Bytes) /\ Len(s) = n
      /\ \A i \in 0 .. n - 1 : ByteAt(s, i) = ByteAt(t, begin + i)
  BY <1>2, <1>3, BytesOfLine
<1>5. Signed(l.len) = n /\ l.at = begin
  BY <1>2, <1>3, LineIs
<1>6. /\ x \in Seq(Bytes) /\ n <= Len(x)
      /\ \A i \in 0 .. n - 1 : ByteAt(x, i) = ByteAt(t, begin + i)
  <2>1. x = SubSeq(t, begin + 1, Len(t))
    BY <1>5 DEF BytesFrom
  <2>2. x \in Seq(Bytes) /\ Len(x) = Len(t) - begin
    BY <1>1, <2>1
  <2>3. \A i \in 0 .. Len(t) - begin - 1 : x[i + 1] = t[begin + i + 1]
    BY <1>1, <2>1
  <2>4. n <= Len(t) - begin
    BY <1>1, <1>2, <1>3
  <2>5. \A i \in 0 .. n - 1 : x[i + 1] = t[begin + i + 1]
    BY <1>1, <2>3, <2>4
  <2> QED
    BY <2>2, <2>4, <2>5 DEF ByteAt
<1>7. PartOf(s, n, x, n, 0)
  <2>1. ASSUME NEW i \in 0 .. n - 1
        PROVE  ByteAt(s, i) = ByteAt(x, 0 + i) /\ Advance(x, n, 0 + i) <= 0 + n
    <3>1. 0 + i = i /\ 0 + n = n /\ n \in Int
      OBVIOUS
    <3>2. Advance(x, n, i) \in 0 .. n
      BY <1>6, <3>1, Stepping
    <3>3. Advance(x, n, i) <= n
      BY <3>2
    <3> QED
      BY <1>4, <1>6, <3>1, <3>3
  <2> QED
    BY <1>4, <1>6, <2>1 DEF PartOf
<1>8. n \in Int /\ n <= Len(s) /\ n <= Len(x)
  BY <1>4, <1>6
<1>9. ASSUME NEW b \in 0 .. n PROVE Utf16FromByte(x, n, b) = Utf16FromByte(s, n, b)
  <2>1. b \in Int /\ 0 + b = b /\ 0 \in 0 .. n
    OBVIOUS
  <2>2. PICK v : Utf16FromByte(s, n, b) = v[0] /\ UnitsWalk(s, n, b, v)
    BY <1>4, <1>8, <2>1, UnitsOf
  <2>3. PICK w : Utf16FromByte(x, n, b) = w[0] /\ UnitsWalk(x, n, 0 + b, w)
    BY <1>6, <1>8, <2>1, UnitsOf
  <2>4. \A i \in 0 .. n : v[i] = w[0 + i]
    BY <1>7, <2>2, <2>3, PartUnits
  <2>5. v[0] = w[0 + 0] /\ 0 + 0 = 0
    BY <2>1, <2>4
  <2> QED
    BY <2>2, <2>3, <2>5
<1>10. ASSUME NEW u \in Nat PROVE ByteFromUtf16(x, n, u) = ByteFromUtf16(s, n, u)
  <2>1. PICK v : ByteFromUtf16(s, n, u) = v[<<0, u>>] /\ BytesWalk(s, n, u, v)
    BY <1>4, <1>8, BytesOf
  <2>2. PICK w : ByteFromUtf16(x, n, u) = w[<<0, u>>] /\ BytesWalk(x, n, u, w)
    BY <1>6, <1>8, BytesOf
  <2>3. v[<<0, u>>] = w[<<0, u>>]
    BY <1>7, <2>1, <2>2, PartBytes
  <2> QED
    BY <2>1, <2>2, <2>3
<1> QED
  BY <1>4, <1>5, <1>6, <1>9, <1>10

-----------------------------------------------------------------------------
(***************************************************************************)
(* The line of a number, in a content without CR LF                        *)
(***************************************************************************)
LEMMA CountOf ==
  ASSUME NEW k \in Nat, NEW S, NEW F \in [1 .. k -> S],
         \A i, j \in 1 .. k : F[i] = F[j] => i = j,
         \A x \in S : \E i \in 1 .. k : F[i] = x
  PROVE  Cardinality(S) = k
<1>1. F \in Injection(1 .. k, S) /\ F \in Surjection(1 .. k, S)
  BY DEF Injection, IsInjective, Surjection
<1>2. ExistsBijection(1 .. k, S)
  BY <1>1 DEF ExistsBijection, Bijection
<1>3. IsFiniteSet(1 .. k) /\ Cardinality(1 .. k) = k
  <2>1. IsFiniteSet(1 .. k) /\ Cardinality(1 .. k) = IF 1 > k THEN 0 ELSE k - 1 + 1
    BY FS_Interval
  <2> QED
    BY <2>1
<1> QED
  BY <1>2, <1>3, FS_Bijection

LEMMA LineAt ==
  ASSUME NEW t \in Contents, CrLfs(t) = {}, NEW begin \in LineStarts(t)
  PROVE  /\ LineNumber(t, begin) \in Nat
         /\ LineNumber(t, begin) < Len(SplitFile(t))
         /\ SplitFile(t)[LineNumber(t, begin) + 1] = LineFrom(t, begin)
<1>1. PICK split \in Seq(Line) : split = SplitFile(t) /\ LinesRight(t, split, Len(t))
  BY SplitFileRight
<1>2. PICK n \in Nat : n = Len(split)
  BY <1>1
<1>3. \A k \in 1 .. n : ~Wrapped(split[k])
  BY <1>1, <1>2 DEF LinesRight, IsOpen
<1>4. /\ \A k \in 1 .. n : split[k].at \in LineStarts(t) /\ split[k] = LineFrom(t, split[k].at)
      /\ \A s \in LineStarts(t) : s < Len(t) => \E k \in 1 .. n : split[k].at = s
      /\ \A j, k \in 1 .. n : j < k => split[j].at < split[k].at
  BY <1>1, <1>2, <1>3 DEF LinesRight
<1>5. \A s \in LineStarts(t) : s \in Nat /\ s < Len(t)
  BY LineIs
<1>6. PICK k \in 1 .. n : split[k].at = begin
  BY <1>4, <1>5
<1>7. PICK h : h = [j \in 1 .. n |-> split[j].at]
  OBVIOUS
<1>8. /\ \A j \in 1 .. n : h[j] = split[j].at /\ h[j] \in LineStarts(t) /\ h[j] \in Nat
      /\ \A i, j \in 1 .. n : i < j => h[i] < h[j]
      /\ \A s \in LineStarts(t) : \E j \in 1 .. n : h[j] = s
      /\ h[k] = begin
  BY <1>4, <1>5, <1>6, <1>7
<1>9. PICK S : S = {r \in LineStarts(t) : r < begin}
  OBVIOUS
<1>10. PICK F : F = [j \in 1 .. k - 1 |-> h[j]]
  OBVIOUS
<1>11. k - 1 \in Nat /\ \A j \in 1 .. k - 1 : j \in 1 .. n /\ j < k /\ F[j] = h[j]
  BY <1>2, <1>10
<1>12. F \in [1 .. k - 1 -> S]
  <2>1. \A j \in 1 .. k - 1 : h[j] \in S
    BY <1>8, <1>9, <1>11
  <2> QED
    BY <1>10, <2>1
<1>13. ASSUME NEW i \in 1 .. k - 1, NEW j \in 1 .. k - 1, F[i] = F[j] PROVE i = j
  <2>1. h[i] = h[j] /\ i \in 1 .. n /\ j \in 1 .. n /\ h[i] \in Nat
    BY <1>8, <1>11, <1>13
  <2>2. ~(i < j) /\ ~(j < i)
    BY <1>8, <2>1
  <2> QED
    BY <2>1, <2>2
<1>14. ASSUME NEW r \in S PROVE \E i \in 1 .. k - 1 : F[i] = r
  <2>1. r \in LineStarts(t) /\ r < begin /\ r \in Nat
    BY <1>5, <1>9
  <2>2. PICK j \in 1 .. n : h[j] = r
    BY <1>8, <2>1
  <2>3. begin \in Nat
    BY <1>5
  <2>4. j # k /\ ~(k < j)
    <3>1. j # k
      BY <1>8, <2>1, <2>2, <2>3
    <3>2. ASSUME k < j PROVE FALSE
      <4>1. h[k] < h[j]
        BY <1>8, <3>2
      <4> QED
        BY <1>8, <2>1, <2>2, <2>3, <4>1
    <3> QED
      BY <3>1, <3>2
  <2>5. j \in 1 .. k - 1
    BY <1>2, <2>4
  <2> QED
    BY <1>11, <2>2, <2>5
<1>15. Cardinality(S) = k - 1
  BY <1>11, <1>12, <1>13, <1>14, CountOf
<1>16. LineNumber(t, begin) = k - 1
  BY <1>9, <1>15 DEF LineNumber
<1>17. k - 1 + 1 = k /\ k - 1 < n
  BY <1>2
<1>18. split[k] = LineFrom(t, begin)
  BY <1>4, <1>6
<1> QED
  BY <1>1, <1>2, <1>11, <1>16, <1>17, <1>18

-----------------------------------------------------------------------------
(***************************************************************************)
(* What is shown and what is replaced                                      *)
(***************************************************************************)
\* A report or symbol is shown at the place of the byte where it was found, in a
\* file of any length and any mixture of code points.
THEOREM AlwaysShown == Spec => []ShownWhereFound
<1>1. TypeOK /\ CachedLines => ShownWhereFound
  <2> SUFFICES ASSUME TypeOK, CachedLines, NEW f \in Files,
                      files[f] # NotRead, CrLfs(files[f].text) = {},
                      NEW begin \in LineStarts(files[f].text)
               PROVE  LET t == files[f].text
                          s == Within(t, LineFrom(t, begin))
                      IN  Valid(s) =>
                            \A b \in Boundaries(s) :
                              LET p == ConvertPosition(f, LineNumber(t, begin) + 1, b + 1)
                              IN  /\ p.line = LineNumber(t, begin)
                                  /\ ByteFromUtf16(s, Len(s), p.character) = b
    BY DEF ShownWhereFound
  <2>1. PICK t \in Contents : t = files[f].text
    <3>1. files[f] \in FileStates
      BY DEF TypeOK
    <3> QED
      BY <3>1 DEF FileStates
  <2>2. begin \in LineStarts(t) /\ CrLfs(t) = {}
    BY <2>1
  <2>3. PICK l : l = LineFrom(t, begin)
    OBVIOUS
  <2>4. PICK s, x : s = Within(t, l) /\ x = BytesFrom(t, l)
    OBVIOUS
  <2>5. /\ s \in Seq(Bytes) /\ Len(s) \in Nat /\ Signed(l.len) = Len(s)
        /\ \A b \in 0 .. Len(s) : Utf16FromByte(x, Len(s), b) = Utf16FromByte(s, Len(s), b)
    BY <2>2, <2>3, <2>4, SeesLine
  <2>6. PICK k \in Nat : k = LineNumber(t, begin)
    BY <2>2, LineAt
  <2>7. k < Len(Slice(f)) /\ Slice(f)[k + 1] = l
    <3>1. Slice(f) = SplitFile(t)
      BY <2>1 DEF CachedLines
    <3>2. /\ LineNumber(t, begin) < Len(SplitFile(t))
          /\ SplitFile(t)[LineNumber(t, begin) + 1] = LineFrom(t, begin)
      BY <2>2, LineAt
    <3> QED
      BY <2>3, <2>6, <3>1, <3>2
  <2>8. ASSUME Valid(s), NEW b \in Boundaries(s)
        PROVE  /\ ConvertPosition(f, k + 1, b + 1).line = k
               /\ ByteFromUtf16(s, Len(s), ConvertPosition(f, k + 1, b + 1).character) = b
    <3>1. b \in 0 .. Len(s) /\ b + 1 - 1 = b /\ k + 1 - 1 = k
      BY <2>5, BoundariesAre
    <3>2. ~(k >= Len(Slice(f)))
      <4>1. Len(Slice(f)) \in Nat
        BY <2>1, SplitFileRight DEF CachedLines
      <4> QED
        BY <2>7, <4>1
    <3>3. ConvertPosition(f, k + 1, b + 1) =
            [line |-> k, character |-> Utf16FromByte(x, Len(s), b)]
      BY <2>1, <2>4, <2>5, <2>7, <3>1, <3>2 DEF ConvertPosition
    <3>4. Utf16FromByte(x, Len(s), b) = Utf16FromByte(s, Len(s), b)
      BY <2>5, <3>1
    <3>5. ByteFromUtf16(s, Len(s), Utf16FromByte(s, Len(s), b)) = b
      BY <2>5, <2>8, ExactOf
    <3> QED
      BY <3>3, <3>4, <3>5
  <2> QED
    BY <2>1, <2>3, <2>4, <2>6, <2>8
<1> QED
  BY <1>1, TypeCorrect, AlwaysCached, PTL

\* The prefix begins behind the last blank before the cursor, or with the line.
LEMMA PrefixIs ==
  ASSUME NEW x, NEW e \in Nat, NEW a, a = PrefixStart(x, e)
  PROVE  /\ a \in 0 .. e
         /\ \A k \in a .. e - 1 : ByteAt(x, k) # "blank"
         /\ a > 0 => ByteAt(x, a - 1) = "blank"
<1>1. PICK B : B = {k \in 0 .. e - 1 : ByteAt(x, k) = "blank"}
  OBVIOUS
<1>2. PrefixStart(x, e) = IF B = {} THEN 0 ELSE (CHOOSE k \in B : \A j \in B : j <= k) + 1
  BY <1>1 DEF PrefixStart
<1>3. CASE B = {}
  <2>1. a = 0
    BY <1>2, <1>3
  <2> QED
    BY <1>1, <1>3, <2>1
<1>4. CASE B # {}
  <2> DEFINE T == {j \in Nat : e - 1 - j \in B}
  <2>1. T \subseteq Nat /\ T # {}
    <3>1. PICK k \in 0 .. e - 1 : k \in B
      BY <1>1, <1>4
    <3>2. e - 1 - k \in Nat /\ e - 1 - (e - 1 - k) = k
      BY <3>1
    <3>3. e - 1 - k \in T
      BY <3>1, <3>2
    <3> QED
      BY <3>3
  <2>2. PICK m \in T : \A j \in T : m <= j
    <3> HIDE DEF T
    <3> QED
      BY <2>1, Least
  <2>3. m \in Nat /\ e - 1 - m \in B
    OBVIOUS
  <2>4. ASSUME NEW j \in B PROVE j <= e - 1 - m
    <3>1. j \in 0 .. e - 1
      BY <1>1
    <3>2. e - 1 - j \in Nat /\ e - 1 - (e - 1 - j) = j
      BY <3>1
    <3>3. e - 1 - j \in T
      BY <3>2
    <3>4. m <= e - 1 - j
      BY <2>2, <3>3
    <3> QED
      BY <2>3, <3>1, <3>4
  <2> HIDE DEF T
  <2>5. PICK c : c = CHOOSE k \in B : \A j \in B : j <= k
    OBVIOUS
  <2>6. c \in B /\ \A j \in B : j <= c
    BY <2>3, <2>4, <2>5
  <2>7. c \in 0 .. e - 1 /\ ByteAt(x, c) = "blank" /\ a = c + 1 /\ a - 1 = c
    BY <1>1, <1>2, <1>4, <2>5, <2>6
  <2>8. ASSUME NEW k \in a .. e - 1 PROVE ByteAt(x, k) # "blank"
    <3>1. k \in 0 .. e - 1 /\ ~(k <= c)
      BY <2>7
    <3> QED
      BY <1>1, <2>6, <3>1
  <2> QED
    BY <2>7, <2>8
<1> QED
  BY <1>3, <1>4

\* No code point lies across a place behind a blank.
LEMMA BehindBlank ==
  ASSUME NEW s \in Seq(Bytes), NEW a \in 0 .. Len(s), a > 0 => ByteAt(s, a - 1) = "blank"
  PROVE  a \in Boundaries(s)
<1>1. PICK N \in Nat : N = Len(s)
  OBVIOUS
<1>2. ASSUME NEW i \in 0 .. a - 1 PROVE Advance(s, N, i) <= a
  <2>1. i \in 0 .. N - 1 /\ i \in Nat /\ i < a /\ a \in Nat /\ ByteAt(s, a - 1) = "blank"
    BY <1>1, <1>2
  <2>2. PICK d \in {-1, 1, 2, 4} : d = Iterate(s, N, i)
    BY <1>1, <2>1, SteppingTo
  <2>3. CASE d < 0 \/ d = 1
    <3>1. Advance(s, N, i) = i + 1
      BY <2>2, <2>3 DEF Advance
    <3> QED
      BY <2>1, <3>1
  <2>4. CASE ~(d < 0 \/ d = 1)
    <3>1. Advance(s, N, i) = i + d
      BY <2>2, <2>4 DEF Advance
    <3>2. ByteAt(s, i) \in {"L2", "L4"} /\ \A j \in 1 .. d - 1 : ByteAt(s, i + j) = "C"
      BY <2>2, <2>4 DEF Iterate
    <3>3. i # a - 1
      BY <2>1, <3>2
    <3>4. a - 1 - i \notin 1 .. d - 1
      <4>1. i + (a - 1 - i) = a - 1
        BY <2>1
      <4> QED
        BY <2>1, <3>2, <4>1
    <3> QED
      BY <2>1, <2>2, <2>4, <3>1, <3>3, <3>4
  <2> QED
    BY <2>3, <2>4
<1> QED
  BY <1>1, <1>2 DEF Boundaries

\* The prefix p, from a to e, that the code computes on the line s, which begins x,
\* for a cursor u code units behind its beginning
IsPrefix(s, x, b, u, e, a, p) ==
    /\ s \in Seq(Bytes) /\ \A i \in 0 .. Len(s) - 1 : ByteAt(x, i) = ByteAt(s, i)
    /\ b \in Boundaries(s)
    /\ u = Utf16FromByte(s, Len(s), b)
    /\ e = ByteFromUtf16(s, Len(s), u)
    /\ a = PrefixStart(x, e)
    /\ p = SubSeq(s, a + 1, e)

LEMMA EditOfLine ==
  ASSUME NEW s, NEW x, NEW b, NEW u, NEW e, NEW a, NEW p, IsPrefix(s, x, b, u, e, a, p)
  PROVE  /\ a \in 0 .. Len(s)
         /\ \A k \in DOMAIN p : p[k] # "blank"
         /\ a > 0 => ByteAt(s, a - 1) = "blank"
         /\ u - Utf16FromByte(s, Len(s), a) = Utf16FromByte(p, Len(p), Len(p))
<1> USE DEF IsPrefix
<1>1. /\ e \in Boundaries(s) /\ e <= b
      /\ Utf16FromByte(s, Len(s), e) = u
  BY ExactOf
<1>2. PICK n \in Nat : n = Len(s) /\ e \in 0 .. n /\ e \in Nat
  BY <1>1, BoundariesAre
<1>3. /\ a \in 0 .. e
      /\ \A k \in a .. e - 1 : ByteAt(x, k) # "blank"
      /\ a > 0 => ByteAt(x, a - 1) = "blank"
  BY <1>2, PrefixIs
<1>4. a \in 0 .. n
  BY <1>2, <1>3
<1>5. a > 0 => ByteAt(s, a - 1) = "blank"
  <2>1. a > 0 => a - 1 \in 0 .. Len(s) - 1
    BY <1>2, <1>4
  <2> QED
    BY <1>3, <2>1
<1>6. a \in Boundaries(s)
  BY <1>2, <1>4, <1>5, BehindBlank
<1>7. \A k \in DOMAIN p : p[k] # "blank"
  <2> SUFFICES ASSUME NEW k \in DOMAIN p PROVE p[k] # "blank"
    OBVIOUS
  <2>1. a \in Nat /\ Len(s) = n /\ a <= e
    BY <1>2, <1>3
  <2>2. k \in 1 .. e - a /\ p[k] = s[a + k]
    <3>1. p = SubSeq(s, a + 1, e) /\ s \in Seq(Bytes)
      OBVIOUS
    <3> HIDE DEF IsPrefix
    <3>2. DOMAIN p = 1 .. e - a
      BY <1>2, <2>1, <3>1
    <3> QED
      BY <1>2, <2>1, <3>1, <3>2
  <2> HIDE DEF IsPrefix
  <2>3. a + k - 1 \in a .. e - 1 /\ a + k - 1 \in 0 .. Len(s) - 1 /\ a + k - 1 + 1 = a + k
    BY <1>2, <2>1, <2>2
  <2>4. ByteAt(s, a + k - 1) # "blank"
    BY <1>3, <2>3 DEF IsPrefix
  <2> QED
    BY <2>2, <2>3, <2>4 DEF ByteAt
<1>8. Utf16FromByte(p, Len(p), Len(p)) = u - Utf16FromByte(s, Len(s), a)
  <2>1. a <= e /\ s \in Seq(Bytes) /\ p = SubSeq(s, a + 1, e)
    BY <1>3
  <2> HIDE DEF IsPrefix
  <2>2. Utf16FromByte(p, Len(p), Len(p)) =
           Utf16FromByte(s, Len(s), e) - Utf16FromByte(s, Len(s), a)
    BY <1>1, <1>6, <2>1, UnitsBetween
  <2> QED
    BY <1>1, <2>2
<1> QED
  BY <1>2, <1>4, <1>5, <1>7, <1>8

\* The edit of a completion replaces the prefix it was computed from and no
\* more, on any line of any content without CR LF, valid UTF-8 or not.
THEOREM AlwaysEditsPrefix == Spec => []EditIsPrefix
<1>1. TypeOK => EditIsPrefix
  <2> SUFFICES ASSUME TypeOK, NEW f \in Files, CrLfs(content[f]) = {},
                      NEW begin \in LineStarts(content[f]),
                      NEW b \in Boundaries(Within(content[f], LineFrom(content[f], begin))),
                      NEW c \in CompletionPrefix(content[f], LineNumber(content[f], begin),
                                  Utf16FromByte(Within(content[f], LineFrom(content[f], begin)),
                                                Len(Within(content[f], LineFrom(content[f], begin))), b))
               PROVE  LET t == content[f]
                          s == Within(t, LineFrom(t, begin))
                          p == SubSeq(s, c.start + 1, c.end)
                      IN  /\ \A k \in DOMAIN p : p[k] # "blank"
                          /\ c.start > 0 => ByteAt(s, c.start - 1) = "blank"
                          /\ c.to - c.from = Utf16FromByte(p, Len(p), Len(p))
    BY DEF EditIsPrefix
  <2>1. PICK t \in Contents : t = content[f]
    BY DEF TypeOK
  <2>2. begin \in LineStarts(t) /\ CrLfs(t) = {}
    BY <2>1
  <2>3. PICK l : l = LineFrom(t, begin)
    OBVIOUS
  <2>4. PICK s, x : s = Within(t, l) /\ x = BytesFrom(t, l)
    OBVIOUS
  <2>5. /\ s \in Seq(Bytes) /\ Len(s) \in Nat /\ Signed(l.len) = Len(s)
        /\ x \in Seq(Bytes) /\ Len(s) <= Len(x)
        /\ \A i \in 0 .. Len(s) - 1 : ByteAt(x, i) = ByteAt(s, i)
        /\ \A i \in 0 .. Len(s) : Utf16FromByte(x, Len(s), i) = Utf16FromByte(s, Len(s), i)
        /\ \A u \in Nat : ByteFromUtf16(x, Len(s), u) = ByteFromUtf16(s, Len(s), u)
    BY <2>2, <2>3, <2>4, SeesLine
  <2>6. PICK k : k = LineNumber(t, begin)
    OBVIOUS
  <2>7. SplitFile(t)[k + 1] = l
    BY <2>2, <2>3, <2>6, LineAt
  <2>8. b \in Boundaries(s)
    BY <2>1, <2>3, <2>4
  <2>9. PICK u \in Nat : u = Utf16FromByte(s, Len(s), b)
    <3>1. b \in Nat /\ Len(s) \in Int /\ Len(s) <= Len(s) /\ Len(s) >= -1
      BY <2>5, <2>8, BoundariesAre
    <3>2. Utf16FromByte(s, Len(s), b) \in 0 .. Len(s)
      BY <2>5, <3>1, ConversionsWithin
    <3> QED
      BY <3>2
  <2>10. PICK e, a, p : /\ e = ByteFromUtf16(s, Len(s), u)
                        /\ a = PrefixStart(x, e)
                        /\ p = SubSeq(s, a + 1, e)
    OBVIOUS
  <2>11. /\ a \in 0 .. Len(s)
         /\ \A i \in DOMAIN p : p[i] # "blank"
         /\ a > 0 => ByteAt(s, a - 1) = "blank"
         /\ u - Utf16FromByte(s, Len(s), a) = Utf16FromByte(p, Len(p), Len(p))
    <3>1. IsPrefix(s, x, b, u, e, a, p)
      BY <2>5, <2>8, <2>9, <2>10 DEF IsPrefix
    <3> QED
      BY <3>1, EditOfLine
  <2>12. c = [start |-> a, end |-> e, from |-> Utf16FromByte(x, Len(s), a), to |-> u]
    <3>1. c \in CompletionPrefix(t, k, u)
      BY <2>1, <2>3, <2>4, <2>6, <2>9
    <3>2. ByteFromUtf16(x, Len(s), u) = e
      BY <2>5, <2>10
    <3> QED
      BY <2>4, <2>5, <2>7, <2>10, <3>1, <3>2 DEF CompletionPrefix
  <2>13. c.start = a /\ c.end = e /\ c.to = u /\ c.from = Utf16FromByte(s, Len(s), a)
    BY <2>5, <2>11, <2>12
  <2> QED
    BY <2>1, <2>3, <2>4, <2>10, <2>11, <2>13
<1> QED
  BY <1>1, TypeCorrect, PTL
=============================================================================
