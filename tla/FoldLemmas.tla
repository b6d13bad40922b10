----------------------------- MODULE FoldLemmas ------------------------------
(****************************************************************************)
(* Induction, and what the folds of the models compute.  Induction over the  *)
(* naturals is stated with a set of the values that have the property, from  *)
(* the well-foundedness of < on Nat.  A fold is a function that is chosen to *)
(* satisfy a recursive equation: the lemmas show that such a function exists *)
(* and what it yields.  The operator that is folded is given as a function.  *)
(****************************************************************************)
EXTENDS Integers, Lists, WellFoundedInduction, TLAPS

\* Every non-empty set of naturals has a least element.
LEMMA LeastElement ==
  ASSUME NEW S, S \subseteq Nat, S # {}
  PROVE  \E n \in S : \A m \in S : n <= m
<1> DEFINE R == OpToRel(<, Nat)
<1>1. IsWellFoundedOn(R, Nat)
  BY NatLessThanWellFounded, Zenon
<1>2. \E n \in S : \A m \in S : <<m, n>> \notin R
  <2> HIDE DEF R
  <2> QED
    BY <1>1, WFMin, Zenon
<1>3. ASSUME NEW n \in S, NEW m \in S, <<m, n>> \notin R PROVE n <= m
  BY <1>3 DEF OpToRel
<1> QED
  BY <1>2, <1>3, Zenon

\* Induction over the naturals.
LEMMA Induction ==
  ASSUME NEW S, 0 \in S, \A n \in Nat : n \in S => n + 1 \in S
  PROVE  Nat \subseteq S
<1> SUFFICES ASSUME Nat \ S # {} PROVE FALSE
  OBVIOUS
<1>1. PICK n \in Nat \ S : \A m \in Nat \ S : n <= m
  BY LeastElement, Zenon
<1>2. n # 0 /\ n - 1 \in Nat
  OBVIOUS
<1>3. n - 1 \in S
  BY <1>1, <1>2
<1> QED
  BY <1>2, <1>3

\* Induction up to a bound.
LEMMA BoundedInduction ==
  ASSUME NEW n \in Nat, NEW S, 0 \in S, \A i \in 1 .. n : i - 1 \in S => i \in S
  PROVE  0 .. n \subseteq S
<1> DEFINE P == {i \in Nat : i <= n => i \in S}
<1>1. 0 \in P
  OBVIOUS
<1>2. \A i \in Nat : i \in P => i + 1 \in P
  OBVIOUS
<1>3. Nat \subseteq P
  <2> HIDE DEF P
  <2> QED
    BY <1>1, <1>2, Induction
<1> QED
  BY <1>3

-----------------------------------------------------------------------------
(* Folds along a sequence *)

\* The maximum of a non-empty set of indices.
LEMMA MaxOf ==
  ASSUME NEW n \in Nat
  PROVE  \A s \in SUBSET (1 .. n) :
            s # {} => Max(s) \in s /\ Max(s) \in 1 .. n /\ \A x \in s : x <= Max(s)
<1> SUFFICES ASSUME NEW s \in SUBSET (1 .. n), s # {}
             PROVE  Max(s) \in s /\ Max(s) \in 1 .. n /\ \A x \in s : x <= Max(s)
  OBVIOUS
<1> DEFINE R == {n - x : x \in s}
<1>1. R \subseteq Nat /\ R # {}
  <2>1. \A x \in s : n - x \in Nat
    OBVIOUS
  <2>2. PICK x \in s : TRUE
    BY Zenon
  <2>3. n - x \in R
    OBVIOUS
  <2> QED
    BY <2>1, <2>3
<1>2. PICK r \in R : \A q \in R : r <= q
  <2> HIDE DEF R
  <2> QED
    BY <1>1, LeastElement, Zenon
<1>3. PICK m \in s : r = n - m
  BY <1>2
<1>4. \A x \in s : m >= x
  <2> TAKE x \in s
  <2>1. n - x \in R
    OBVIOUS
  <2>2. r <= n - x
    BY <1>2, <2>1
  <2> QED
    BY <1>3, <2>2
<1>5. \A x \in s : Max(s) >= x /\ Max(s) \in s
  BY <1>4, Zenon DEF Max
<1> QED
  BY <1>3, <1>4, <1>5, Zenon

\* What a fold meets on its way along 1 .. n: each prefix ends in its maximum.
LEMMA PrefixFacts ==
  ASSUME NEW n \in Nat
  PROVE  \A k \in 1 .. n : /\ 1 .. k \in SUBSET (1 .. n) /\ 1 .. k # {}
                           /\ Max(1 .. k) = k /\ (1 .. k) \ {k} = 1 .. (k - 1)
<1> TAKE k \in 1 .. n
<1>1. 1 .. k \in SUBSET (1 .. n) /\ 1 .. k # {} /\ k \in 1 .. k
  OBVIOUS
<1>2. Max(1 .. k) \in 1 .. k /\ k <= Max(1 .. k)
  BY <1>1, MaxOf, Zenon
<1> QED
  BY <1>1, <1>2

\* A step g on T, from b, for n elements.
FoldStep(g, b, T, n) == b \in T /\ n \in Nat /\ g \in [T \X (1 .. n) -> T]

\* it folds g from b along every subset of 1 .. n, the greatest index last.
Folds1(it, g, b, n) ==
  \A s \in SUBSET (1 .. n) :
     it[s] = IF s = {} THEN b ELSE g[<<it[s \ {Max(s)}], Max(s)>>]

\* Folds exist for a step that stays in T.
LEMMA FoldExists ==
  ASSUME NEW T, NEW b, NEW n, NEW g, FoldStep(g, b, T, n)
  PROVE  \E it \in [SUBSET (1 .. n) -> T] : Folds1(it, g, b, n)
<1>0. b \in T /\ n \in Nat /\ g \in [T \X (1 .. n) -> T]
  BY DEF FoldStep
<1> DEFINE P == {m \in 0 .. n : \E it \in [SUBSET (1 .. m) -> T] : Folds1(it, g, b, m)}
<1>1. 0 \in P
  <2> DEFINE it == [s \in SUBSET (1 .. 0) |-> b]
  <2>1. it \in [SUBSET (1 .. 0) -> T]
    BY <1>0
  <2>2. Folds1(it, g, b, 0)
    BY DEF Folds1
  <2> QED
    BY <1>0, <2>1, <2>2
<1>2. ASSUME NEW m \in 1 .. n, m - 1 \in P PROVE m \in P
  <2>1. PICK f \in [SUBSET (1 .. (m - 1)) -> T] : Folds1(f, g, b, m - 1)
    BY <1>2, Zenon
  <2> DEFINE it == [s \in SUBSET (1 .. m) |-> IF m \in s THEN g[<<f[s \ {m}], m>>] ELSE f[s]]
  <2>2. ASSUME NEW s \in SUBSET (1 .. m)
        PROVE  s \ {m} \in SUBSET (1 .. (m - 1)) /\ (m \notin s => s \in SUBSET (1 .. (m - 1)))
    BY <1>0
  <2>3. \A s \in SUBSET (1 .. m) : f[s \ {m}] \in T /\ (m \notin s => f[s] \in T)
    BY <2>2
  <2>4. it \in [SUBSET (1 .. m) -> T]
    <3>1. \A s \in SUBSET (1 .. m) : g[<<f[s \ {m}], m>>] \in T
      BY <1>0, <2>3
    <3> QED
      BY <2>3, <3>1
  <2>5. \A s \in SUBSET (1 .. m) : it[s] = IF m \in s THEN g[<<f[s \ {m}], m>>] ELSE f[s]
    OBVIOUS
  <2> HIDE DEF it
  <2>6. ASSUME NEW s \in SUBSET (1 .. m)
        PROVE  it[s] = IF s = {} THEN b ELSE g[<<it[s \ {Max(s)}], Max(s)>>]
    <3>1. CASE m \in s
      <4>1. Max(s) = m
        <5>1. Max(s) \in 1 .. m /\ m <= Max(s)
          <6>1. m \in Nat /\ s # {}
            BY <1>0, <3>1
          <6> QED
            BY <3>1, <6>1, MaxOf
        <5> QED
          BY <5>1
      <4>2. it[s \ {m}] = f[s \ {m}]
        BY <2>2, <2>5, Zenon
      <4> QED
        BY <3>1, <4>1, <4>2, <2>5
    <3>2. CASE m \notin s /\ s # {}
      <4>1. Max(s) \in s /\ s \in SUBSET (1 .. (m - 1)) /\ m \notin s \ {Max(s)}
        <5>1. m \in Nat
          BY <1>0
        <5> QED
          BY <2>2, <3>2, <5>1, MaxOf
      <4>2. it[s] = f[s] /\ it[s \ {Max(s)}] = f[s \ {Max(s)}]
        BY <2>5, <3>2, <4>1, Zenon
      <4>3. f[s] = g[<<f[s \ {Max(s)}], Max(s)>>]
        BY <2>1, <3>2, <4>1, Zenon DEF Folds1
      <4> QED
        BY <3>2, <4>2, <4>3, Zenon
    <3>3. CASE s = {}
      <4>1. f[{}] = b
        BY <2>1, Zenon DEF Folds1
      <4> QED
        BY <2>5, <3>3, <4>1, Zenon
    <3> QED
      BY <3>1, <3>2, <3>3
  <2>7. Folds1(it, g, b, m)
    BY <2>6, Zenon DEF Folds1
  <2> QED
    BY <2>4, <2>7
<1>3. 0 .. n \subseteq P
  <2> HIDE DEF P
  <2> QED
    BY <1>0, <1>1, <1>2, BoundedInduction
<1>4. n \in P
  <2> HIDE DEF P
  <2> QED
    BY <1>0, <1>3
<1> QED
  BY <1>4, Zenon
\* r is the run of the step g from b: what a loop holds after each element.
RunOf(r, g, b, T, n) ==
  /\ r \in [0 .. n -> T]
  /\ r[0] = b
  /\ \A k \in 1 .. n : r[k] = g[<<r[k - 1], k>>]

\* c goes on by g as long as it stays in T.
GoesOn(c, g, b, T, n) ==
  /\ c[{}] = b
  /\ \A k \in 1 .. n : c[1 .. (k - 1)] \in T => c[1 .. k] = g[<<c[1 .. (k - 1)], k>>]

\* A fold along a sequence is the end of a run.
LEMMA FoldRun ==
  ASSUME NEW T, NEW b, NEW n, NEW g, FoldStep(g, b, T, n), NEW c, GoesOn(c, g, b, T, n)
  PROVE  \E r : RunOf(r, g, b, T, n) /\ c[1 .. n] = r[n]
<1> DEFINE r == [k \in 0 .. n |-> c[1 .. k]]
           P == {k \in 0 .. n : c[1 .. k] \in T}
<1>0. b \in T /\ n \in Nat /\ g \in [T \X (1 .. n) -> T]
  BY DEF FoldStep
<1>1. 0 \in P /\ c[1 .. 0] = b
  <2>1. 1 .. 0 = {}
    OBVIOUS
  <2> QED
    BY <1>0, <2>1 DEF GoesOn
<1>2. ASSUME NEW k \in 1 .. n, k - 1 \in P PROVE k \in P
  <2>1. c[1 .. (k - 1)] \in T /\ k \in 0 .. n
    BY <1>0, <1>2
  <2>2. c[1 .. k] = g[<<c[1 .. (k - 1)], k>>]
    BY <2>1 DEF GoesOn
  <2>3. <<c[1 .. (k - 1)], k>> \in T \X (1 .. n)
    BY <2>1
  <2>4. c[1 .. k] \in T
    BY <1>0, <2>2, <2>3
  <2> QED
    BY <2>1, <2>4
<1>3. 0 .. n \subseteq P
  <2> HIDE DEF P
  <2> QED
    BY <1>0, <1>1, <1>2, BoundedInduction
<1>4. \A k \in 0 .. n : c[1 .. k] \in T
  BY <1>3
<1>5. r \in [0 .. n -> T] /\ r[0] = b /\ c[1 .. n] = r[n]
  BY <1>0, <1>1, <1>4
<1>6. ASSUME NEW k \in 1 .. n PROVE r[k] = g[<<r[k - 1], k>>]
  <2>1. k \in 0 .. n /\ k - 1 \in 0 .. n
    BY <1>0
  <2>2. r[k] = c[1 .. k] /\ r[k - 1] = c[1 .. (k - 1)]
    BY <2>1
  <2> HIDE DEF r
  <2> QED
    BY <1>4, <2>1, <2>2 DEF GoesOn
<1>7. RunOf(r, g, b, T, n)
  <2> HIDE DEF r
  <2> QED
    BY <1>5, <1>6 DEF RunOf
<1> QED
  BY <1>5, <1>7, Zenon

-----------------------------------------------------------------------------
(* Keep *)

KeepStep(s, S, T) ==
  [q \in T \X (1 .. Len(s)) |-> IF s[q[2]] \in S THEN Append(q[1], s[q[2]]) ELSE q[1]]

\* Keep is a run that takes the elements of S.
LEMMA KeepRun ==
  ASSUME NEW E, NEW s \in Seq(E), NEW S
  PROVE  \E r : /\ RunOf(r, KeepStep(s, S, Seq(E)), << >>, Seq(E), Len(s))
                /\ Keep(s, S) = r[Len(s)]
<1> DEFINE n == Len(s)
           T == Seq(E)
           g == KeepStep(s, S, T)
           o(a, i) == IF s[i] \in S THEN Append(a, s[i]) ELSE a
           eq(it) == it = [u \in SUBSET DOMAIN s |->
                             IF u = {} THEN << >> ELSE o(it[u \ {Max(u)}], Max(u))]
           c == CHOOSE it : eq(it)
<1>1. Keep(s, S) = c[DOMAIN s]
  BY Zenon DEF Keep, FoldList, MapThenFoldSet
<1>2. n \in Nat /\ DOMAIN s = 1 .. n
  OBVIOUS
<1>3. \A a \in T : \A i \in 1 .. n : g[<<a, i>>] = o(a, i) /\ o(a, i) \in T
  BY DEF KeepStep
<1>4. FoldStep(g, << >>, T, n)
  <2>1. g \in [T \X (1 .. n) -> T]
    BY DEF KeepStep
  <2> HIDE DEF g
  <2> QED
    BY <1>2, <2>1 DEF FoldStep
<1> HIDE DEF g, o
<1>5. \E it : eq(it)
  <2>1. PICK it \in [SUBSET (1 .. n) -> T] : Folds1(it, g, << >>, n)
    <3> HIDE DEF T, n
    <3> QED
      BY <1>4, FoldExists, Zenon
  <2>2. ASSUME NEW u \in SUBSET (1 .. n)
        PROVE  it[u] = IF u = {} THEN << >> ELSE o(it[u \ {Max(u)}], Max(u))
    <3>1. CASE u = {}
      BY <2>1, <3>1, Zenon DEF Folds1
    <3>2. CASE u # {}
      <4>1. Max(u) \in 1 .. n /\ u \ {Max(u)} \in SUBSET (1 .. n)
        BY <1>2, <3>2, MaxOf, Zenon
      <4>2. it[u] = g[<<it[u \ {Max(u)}], Max(u)>>] /\ it[u \ {Max(u)}] \in T
        BY <2>1, <3>2, <4>1, Zenon DEF Folds1
      <4> QED
        BY <1>3, <3>2, <4>1, <4>2, Zenon
    <3> QED
      BY <3>1, <3>2
  <2>3. eq(it)
    BY <1>2, <2>2
  <2> QED
    BY <2>3, Zenon
<1>6. eq(c)
  <2> HIDE DEF eq
  <2> QED
    BY <1>5
<1> HIDE DEF c
<1>7. GoesOn(c, g, << >>, T, n)
  <2>1. c[{}] = << >>
    BY <1>6
  <2>2. ASSUME NEW k \in 1 .. n, c[1 .. (k - 1)] \in T
        PROVE  c[1 .. k] = g[<<c[1 .. (k - 1)], k>>]
    <3>1. /\ 1 .. k \in SUBSET (1 .. n) /\ 1 .. k # {}
          /\ Max(1 .. k) = k /\ (1 .. k) \ {k} = 1 .. (k - 1)
      BY <1>2, PrefixFacts
    <3>2. c[1 .. k] = o(c[1 .. (k - 1)], k)
      BY <1>2, <1>6, <3>1, Zenon
    <3> QED
      BY <1>3, <2>2, <3>2
  <2> QED
    BY <2>1, <2>2 DEF GoesOn
<1>8. PICK r : RunOf(r, g, << >>, T, n) /\ c[1 .. n] = r[n]
  <2> HIDE DEF T, n
  <2> QED
    BY <1>4, <1>7, FoldRun
<1> QED
  BY <1>1, <1>2, <1>8 DEF g

\* kept is the elements of S among the first k of s, in order: h says where each was.
Picks(h, kept, s, S, k) ==
  /\ h \in [1 .. Len(kept) -> 1 .. k]
  /\ \A j \in 1 .. Len(kept) : kept[j] = s[h[j]] /\ s[h[j]] \in S
  /\ \A i, j \in 1 .. Len(kept) : i < j => h[i] < h[j]
  /\ \A i \in 1 .. k : s[i] \in S => \E j \in 1 .. Len(kept) : h[j] = i

\* Keep drops what is not in S and keeps the order of the rest.
LEMMA KeepPicks ==
  ASSUME NEW E, NEW s \in Seq(E), NEW S
  PROVE  Keep(s, S) \in Seq(E) /\ \E h : Picks(h, Keep(s, S), s, S, Len(s))
<1> DEFINE n == Len(s)
           T == Seq(E)
           g == KeepStep(s, S, T)
<1>0. n \in Nat
  OBVIOUS
<1>1. PICK r : RunOf(r, g, << >>, T, n) /\ Keep(s, S) = r[n]
  BY KeepRun
<1>2. /\ \A k \in 0 .. n : r[k] \in Seq(E)
      /\ r[0] = << >>
      /\ \A k \in 1 .. n : r[k] = IF s[k] \in S THEN Append(r[k - 1], s[k]) ELSE r[k - 1]
  <2>1. r \in [0 .. n -> T] /\ r[0] = << >> /\ \A k \in 1 .. n : r[k] = g[<<r[k - 1], k>>]
    <3> HIDE DEF g, T, n
    <3> QED
      BY <1>1 DEF RunOf
  <2>2. \A k \in 0 .. n : r[k] \in Seq(E)
    BY <2>1
  <2>3. ASSUME NEW k \in 1 .. n
        PROVE  r[k] = IF s[k] \in S THEN Append(r[k - 1], s[k]) ELSE r[k - 1]
    <3>1. r[k - 1] \in T /\ r[k] = g[<<r[k - 1], k>>]
      BY <1>0, <2>1
    <3> QED
      BY <3>1 DEF KeepStep
  <2> QED
    BY <2>1, <2>2, <2>3
<1> DEFINE P == {k \in 0 .. n : \E h : Picks(h, r[k], s, S, k)}
<1>3. 0 \in P
  <2>1. Picks([j \in 1 .. 0 |-> 0], r[0], s, S, 0)
    BY <1>2 DEF Picks
  <2> QED
    BY <1>0, <2>1
<1>4. ASSUME NEW k \in 1 .. n, k - 1 \in P PROVE k \in P
  <2>1. PICK h : Picks(h, r[k - 1], s, S, k - 1)
    BY <1>4
  <2>2. k \in 0 .. n /\ k - 1 \in 0 .. n
    BY <1>0
  <2> DEFINE a == r[k - 1]
  <2>3. a \in Seq(E) /\ Len(a) \in Nat /\ s[k] \in E
    BY <1>2, <2>2
  <2>4. CASE s[k] \notin S
    <3>1. r[k] = a
      BY <1>2, <2>4
    <3>2. Picks(h, a, s, S, k)
      <4>1. h \in [1 .. Len(a) -> 1 .. k]
        BY <2>1, <2>2, <2>3 DEF Picks
      <4>2. \A i \in 1 .. k : s[i] \in S => \E j \in 1 .. Len(a) : h[j] = i
        BY <2>1, <2>2, <2>4 DEF Picks
      <4> QED
        BY <2>1, <4>1, <4>2 DEF Picks
    <3> QED
      BY <2>2, <3>1, <3>2
  <2>5. CASE s[k] \in S
    <3> DEFINE b == Append(a, s[k])
               m == Len(a)
               f == [j \in 1 .. (m + 1) |-> IF j <= m THEN h[j] ELSE k]
    <3>1. r[k] = b
      BY <1>2, <2>5, Zenon
    <3>2. /\ Len(b) = m + 1 /\ b[m + 1] = s[k] /\ m \in Nat
          /\ \A j \in 1 .. m : b[j] = a[j]
      BY <2>3
    <3>3. /\ \A j \in 1 .. m : h[j] \in 1 .. (k - 1) /\ a[j] = s[h[j]] /\ s[h[j]] \in S
          /\ \A i, j \in 1 .. m : i < j => h[i] < h[j]
          /\ \A i \in 1 .. (k - 1) : s[i] \in S => \E j \in 1 .. m : h[j] = i
      BY <2>1 DEF Picks
    <3> HIDE DEF b, m
    <3>4. /\ f \in [1 .. (m + 1) -> 1 .. k]
          /\ f[m + 1] = k /\ \A j \in 1 .. m : f[j] = h[j]
      BY <2>2, <3>2, <3>3
    <3> HIDE DEF f
    <3>5. \A j \in 1 .. (m + 1) : b[j] = s[f[j]] /\ s[f[j]] \in S
      <4> TAKE j \in 1 .. (m + 1)
      <4>1. CASE j = m + 1
        BY <2>5, <3>2, <3>4, <4>1
      <4>2. CASE j \in 1 .. m
        BY <3>2, <3>3, <3>4, <4>2
      <4> QED
        BY <3>2, <4>1, <4>2
    <3>6. \A i, j \in 1 .. (m + 1) : i < j => f[i] < f[j]
      <4> TAKE i, j \in 1 .. (m + 1)
      <4> HAVE i < j
      <4>1. i \in 1 .. m
        BY <3>2
      <4>2. CASE j = m + 1
        BY <2>2, <3>3, <3>4, <4>1, <4>2
      <4>3. CASE j \in 1 .. m
        BY <3>3, <3>4, <4>1, <4>3
      <4> QED
        BY <3>2, <4>2, <4>3
    <3>7. \A i \in 1 .. k : s[i] \in S => \E j \in 1 .. (m + 1) : f[j] = i
      <4> TAKE i \in 1 .. k
      <4> HAVE s[i] \in S
      <4>1. CASE i = k
        BY <3>2, <3>4, <4>1
      <4>2. CASE i # k
        <5>1. PICK j \in 1 .. m : h[j] = i
          BY <2>2, <3>3, <4>2
        <5> QED
          BY <3>2, <3>4, <5>1
      <4> QED
        BY <4>1, <4>2
    <3>8. Picks(f, b, s, S, k)
      BY <3>2, <3>4, <3>5, <3>6, <3>7 DEF Picks
    <3> QED
      BY <2>2, <3>1, <3>8
  <2> QED
    BY <2>4, <2>5
<1>5. 0 .. n \subseteq P
  <2> HIDE DEF P
  <2> QED
    BY <1>0, <1>3, <1>4, BoundedInduction, Zenon
<1>6. n \in P /\ n \in 0 .. n
  <2> HIDE DEF P
  <2> QED
    BY <1>0, <1>5
<1> QED
  BY <1>1, <1>2, <1>6

\* The elements that Keep keeps.
LEMMA KeepSet ==
  ASSUME NEW E, NEW s \in Seq(E), NEW S
  PROVE  Keep(s, S) \in Seq(E) /\ Range(Keep(s, S)) = Range(s) \cap S
<1> DEFINE kept == Keep(s, S)
<1>1. kept \in Seq(E) /\ DOMAIN s = 1 .. Len(s)
  BY KeepPicks
<1>2. PICK h : Picks(h, kept, s, S, Len(s))
  BY KeepPicks
<1> HIDE DEF kept
<1>3. DOMAIN kept = 1 .. Len(kept)
  BY <1>1
<1>4. Range(kept) \subseteq Range(s) \cap S
  BY <1>1, <1>2, <1>3 DEF Picks, Range
<1>5. Range(s) \cap S \subseteq Range(kept)
  <2> SUFFICES ASSUME NEW i \in 1 .. Len(s), s[i] \in S PROVE s[i] \in Range(kept)
    BY <1>1 DEF Range
  <2>1. PICK j \in 1 .. Len(kept) : h[j] = i
    BY <1>2 DEF Picks
  <2> QED
    BY <1>2, <1>3, <2>1, Zenon DEF Picks, Range
<1> QED
  BY <1>1, <1>4, <1>5 DEF kept

\* The minimum of a non-empty set of naturals.
LEMMA MinOf ==
  ASSUME NEW S, S \subseteq Nat, S # {}
  PROVE  Min(S) \in S /\ \A x \in S : Min(S) <= x
<1>1. PICK m \in S : \A x \in S : m <= x
  BY LeastElement, Zenon
<1>2. \A x \in S : Min(S) <= x /\ Min(S) \in S
  BY <1>1, Zenon DEF Min
<1> QED
  BY <1>1, <1>2
==============================================================================
