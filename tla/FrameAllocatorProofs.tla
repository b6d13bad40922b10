------------------------- MODULE FrameAllocatorProofs -------------------------
(****************************************************************************)
(* The frame allocator gives every frame to one owner, hands out only usable *)
(* frames above the floor, keeps its counters exact and is a pool of frames: *)
(* for every memory map, frame size, floor and capacity.  Sorting and        *)
(* merging run over the whole list on every call, so the proofs rest on what *)
(* they do to the set of frames the list covers.                             *)
(****************************************************************************)
EXTENDS FrameAllocator, FoldLemmas, FiniteSetTheorems

RunRec == [start : Nat, count : Nat]
RegionRec == [start : Nat, end : Nat, kind : STRING]

\* The frames of the first k runs, and of all of them.
Upto(s, k) == UNION {FramesOf(s[i]) : i \in 1 .. k}
Covered(s) == Upto(s, Len(s))

\* No frame is in two runs.
Apart(s) == \A i, j \in 1 .. Len(s) : i # j => FramesOf(s[i]) \cap FramesOf(s[j]) = {}

\* One step of the merge keeps the frames, and keeps the runs apart.
LEMMA ExtendFacts ==
  ASSUME NEW m \in Seq(RunRec), NEW r \in RunRec
  PROVE  /\ Extend(m, r) \in Seq(RunRec)
         /\ Len(Extend(m, r)) <= Len(m) + 1
         /\ Covered(Extend(m, r)) = Covered(m) \cup FramesOf(r)
         /\ Apart(m) /\ FramesOf(r) \cap Covered(m) = {} => Apart(Extend(m, r))
<1> DEFINE n == Len(m)
           e == Extend(m, r)
<1>0. n \in Nat /\ DOMAIN m = 1 .. n /\ \A i \in 1 .. n : m[i] \in RunRec
  OBVIOUS
<1>1. CASE m # << >> /\ m[n].start + m[n].count = r.start
  <2>1. n \in 1 .. n
    BY <1>0, <1>1
  <2> DEFINE l == m[n]
             b == [l EXCEPT !.count = @ + r.count]
  <2>2. e = [m EXCEPT ![n] = b]
    BY <1>1 DEF Extend
  <2>3. l \in RunRec /\ l.start + l.count = r.start
    BY <1>0, <1>1, <2>1
  <2>4. b \in RunRec /\ b.start = l.start /\ b.count = l.count + r.count
    <3>1. l.start \in Nat /\ l.count \in Nat /\ r.count \in Nat
      <4> HIDE DEF l
      <4> QED
        BY <2>3 DEF RunRec
    <3>2. b = [start |-> l.start, count |-> l.count + r.count]
      <4> HIDE DEF l
      <4> QED
        BY <2>3, <3>1 DEF RunRec
    <3> HIDE DEF b, l
    <3> QED
      BY <3>1, <3>2 DEF RunRec
  <2>5. FramesOf(b) = FramesOf(l) \cup FramesOf(r)
    <3> HIDE DEF l, b
    <3> QED
      BY <2>3, <2>4, SMTT(30) DEF FramesOf, RunRec
  <2> HIDE DEF b
  <2>6. e \in Seq(RunRec) /\ Len(e) = n /\ e[n] = b /\ \A i \in 1 .. n : i # n => e[i] = m[i]
    BY <1>0, <2>1, <2>2, <2>4
  <2> HIDE DEF e, n
  <2>7. Covered(e) = Covered(m) \cup FramesOf(r)
    <3>1. Covered(e) = UNION {FramesOf(e[i]) : i \in 1 .. n}
      BY <2>6 DEF Covered, Upto
    <3>2. Covered(m) = UNION {FramesOf(m[i]) : i \in 1 .. n}
      BY DEF Covered, Upto, n
    <3>3. /\ FramesOf(e[n]) = FramesOf(m[n]) \cup FramesOf(r)
          /\ \A i \in 1 .. n : i # n => FramesOf(e[i]) = FramesOf(m[i])
      BY <2>1, <2>5, <2>6
    <3>4. Covered(e) \subseteq Covered(m) \cup FramesOf(r)
      BY <2>1, <3>1, <3>2, <3>3
    <3>5. FramesOf(r) \subseteq Covered(e)
      BY <2>1, <3>1, <3>3
    <3>6. Covered(m) \subseteq Covered(e)
      <4> SUFFICES ASSUME NEW f \in Covered(m) PROVE f \in Covered(e)
        OBVIOUS
      <4>1. PICK i \in 1 .. n : f \in FramesOf(m[i])
        BY <3>2
      <4>2. f \in FramesOf(e[i])
        BY <3>3, <4>1
      <4> QED
        BY <3>1, <4>2
    <3> QED
      BY <3>4, <3>5, <3>6
  <2>8. ASSUME Apart(m), FramesOf(r) \cap Covered(m) = {} PROVE Apart(e)
    <3>1. \A i \in 1 .. n : FramesOf(m[i]) \cap FramesOf(r) = {}
      BY <2>8 DEF Covered, Upto, n
    <3>2. \A i, j \in 1 .. n : i # j => FramesOf(m[i]) \cap FramesOf(m[j]) = {}
      BY <2>8, Zenon DEF Apart, n
    <3>3. \A i \in 1 .. n : FramesOf(e[i]) = IF i = n THEN FramesOf(m[i]) \cup FramesOf(r) ELSE FramesOf(m[i])
      BY <2>1, <2>5, <2>6
    <3>4. \A i, j \in 1 .. n : i # j => FramesOf(e[i]) \cap FramesOf(e[j]) = {}
      BY <3>1, <3>2, <3>3, Zenon
    <3> QED
      BY <2>6, <3>4 DEF Apart
  <2>9. n <= n + 1
    BY <1>0
  <2> QED
    BY <2>6, <2>7, <2>8, <2>9 DEF e, n
<1>2. CASE ~(m # << >> /\ m[n].start + m[n].count = r.start)
  <2>1. e = Append(m, r)
    BY <1>2 DEF Extend
  <2>2. /\ e \in Seq(RunRec) /\ Len(e) = n + 1 /\ e[n + 1] = r
        /\ \A i \in 1 .. n : e[i] = m[i]
    BY <1>0, <2>1
  <2>3. 1 .. (n + 1) = (1 .. n) \cup {n + 1} /\ n + 1 \notin 1 .. n
    BY <1>0
  <2> HIDE DEF e, n
  <2>4. Covered(e) = Covered(m) \cup FramesOf(r)
    <3>1. Covered(e) = UNION {FramesOf(e[i]) : i \in (1 .. n) \cup {n + 1}}
      BY <2>2, <2>3 DEF Covered, Upto
    <3>2. Covered(m) = UNION {FramesOf(m[i]) : i \in 1 .. n}
      BY DEF Covered, Upto, n
    <3> QED
      BY <2>2, <3>1, <3>2
  <2>5. ASSUME Apart(m), FramesOf(r) \cap Covered(m) = {} PROVE Apart(e)
    <3>1. \A i \in 1 .. n : FramesOf(m[i]) \cap FramesOf(r) = {}
      BY <2>5 DEF Covered, Upto, n
    <3>2. \A i, j \in 1 .. n : i # j => FramesOf(m[i]) \cap FramesOf(m[j]) = {}
      BY <2>5, Zenon DEF Apart, n
    <3>3. \A i, j \in (1 .. n) \cup {n + 1} : i # j => FramesOf(e[i]) \cap FramesOf(e[j]) = {}
      BY <2>2, <2>3, <3>1, <3>2, Zenon
    <3> QED
      BY <2>2, <2>3, <3>3, Zenon DEF Apart
  <2>6. n + 1 <= n + 1
    BY <1>0
  <2> QED
    BY <2>2, <2>4, <2>5, <2>6 DEF e, n
<1> QED
  BY <1>1, <1>2

-----------------------------------------------------------------------------
(* Merging and counting are folds *)

MergeStep(s, T) ==
  [q \in T \X (1 .. Len(s)) |-> Extend(q[1], s[q[2]])]

\* MergeAdjacent is a run of Extend.
LEMMA MergeRun ==
  ASSUME NEW s \in Seq(RunRec)
  PROVE  \E r : /\ RunOf(r, MergeStep(s, Seq(RunRec)), << >>, Seq(RunRec), Len(s))
                /\ MergeAdjacent(s) = r[Len(s)]
<1> DEFINE n == Len(s)
           T == Seq(RunRec)
           g == MergeStep(s, T)
           o(a, i) == Extend(a, s[i])
           eq(it) == it = [u \in SUBSET DOMAIN s |->
                             IF u = {} THEN << >> ELSE o(it[u \ {Max(u)}], Max(u))]
           c == CHOOSE it : eq(it)
<1>1. MergeAdjacent(s) = c[DOMAIN s]
  BY Zenon DEF MergeAdjacent, FoldList, MapThenFoldSet
<1>2. n \in Nat /\ DOMAIN s = 1 .. n
  OBVIOUS
<1>3. \A a \in T : \A i \in 1 .. n : g[<<a, i>>] = o(a, i) /\ o(a, i) \in T
  <2> SUFFICES ASSUME NEW a \in T, NEW i \in 1 .. n PROVE g[<<a, i>>] = o(a, i) /\ o(a, i) \in T
    BY Zenon
  <2>1. s[i] \in RunRec
    OBVIOUS
  <2>2. o(a, i) \in T
    BY <2>1, ExtendFacts, Zenon
  <2>3. g[<<a, i>>] = o(a, i)
    BY DEF MergeStep
  <2> QED
    BY <2>2, <2>3
<1>4. FoldStep(g, << >>, T, n)
  <2>1. g \in [T \X (1 .. n) -> T]
    <3>1. g = [q \in T \X (1 .. n) |-> o(q[1], q[2])]
      BY DEF MergeStep
    <3>2. \A q \in T \X (1 .. n) : o(q[1], q[2]) \in T
      BY <1>3
    <3> HIDE DEF o, g, T, n
    <3> QED
      BY <3>1, <3>2
  <2> HIDE DEF g
  <2> QED
    BY <1>2, <2>1 DEF FoldStep
<1> HIDE DEF g, o
<1>5. \E it : eq(it)
  <2>1. PICK it \in [SUBSET (1 .. n) -> T] : Folds1(it, g, << >>, n)
    <3> HIDE DEF T, n
    <3> QED
      BY <1>4, FoldExists, Zenon
  <2>2. ASSUME NEW u \in SUBSET (1 .. n)
        PROVE  it[u] = IF u = {} THEN << >> ELSE o(it[u \ {Max(u)}], Max(u))
    <3>1. CASE u = {}
      BY <2>1, <3>1, Zenon DEF Folds1
    <3>2. CASE u # {}
      <4>1. Max(u) \in 1 .. n /\ u \ {Max(u)} \in SUBSET (1 .. n)
        BY <1>2, <3>2, MaxOf, Zenon
      <4>2. it[u] = g[<<it[u \ {Max(u)}], Max(u)>>] /\ it[u \ {Max(u)}] \in T
        BY <2>1, <3>2, <4>1, Zenon DEF Folds1
      <4> QED
        BY <1>3, <3>2, <4>1, <4>2, SMTT(30)
    <3> QED
      BY <3>1, <3>2
  <2>3. eq(it)
    BY <1>2, <2>2
  <2> QED
    BY <2>3, Zenon
<1>6. eq(c)
  <2> HIDE DEF eq
  <2> QED
    BY <1>5
<1> HIDE DEF c
<1>7. GoesOn(c, g, << >>, T, n)
  <2>1. c[{}] = << >>
    BY <1>6
  <2>2. ASSUME NEW k \in 1 .. n, c[1 .. (k - 1)] \in T
        PROVE  c[1 .. k] = g[<<c[1 .. (k - 1)], k>>]
    <3>1. /\ 1 .. k \in SUBSET (1 .. n) /\ 1 .. k # {}
          /\ Max(1 .. k) = k /\ (1 .. k) \ {k} = 1 .. (k - 1)
      BY <1>2, PrefixFacts
    <3>2. c[1 .. k] = o(c[1 .. (k - 1)], k)
      BY <1>2, <1>6, <3>1, Zenon
    <3> QED
      BY <1>3, <2>2, <3>2
  <2> QED
    BY <2>1, <2>2 DEF GoesOn
<1>8. PICK r : RunOf(r, g, << >>, T, n) /\ c[1 .. n] = r[n]
  <2> HIDE DEF T, n
  <2> QED
    BY <1>4, <1>7, FoldRun
<1> QED
  BY <1>1, <1>2, <1>8 DEF g

CountStep(s, T) ==
  [q \in T \X (1 .. Len(s)) |-> q[1] + s[q[2]].count]

\* free_frames is a run of additions.
LEMMA CountRun ==
  ASSUME NEW s \in Seq(RunRec)
  PROVE  \E r : /\ RunOf(r, CountStep(s, Nat), 0, Nat, Len(s))
                /\ free_frames(s) = r[Len(s)]
<1> DEFINE n == Len(s)
           T == Nat
           g == CountStep(s, T)
           o(a, i) == a + s[i].count
           eq(it) == it = [u \in SUBSET DOMAIN s |->
                             IF u = {} THEN 0 ELSE o(it[u \ {Max(u)}], Max(u))]
           c == CHOOSE it : eq(it)
<1>1. free_frames(s) = c[DOMAIN s]
  BY Zenon DEF free_frames, FoldList, MapThenFoldSet
<1>2. n \in Nat /\ DOMAIN s = 1 .. n
  OBVIOUS
<1>3. \A a \in T : \A i \in 1 .. n : g[<<a, i>>] = o(a, i) /\ o(a, i) \in T
  <2> SUFFICES ASSUME NEW a \in T, NEW i \in 1 .. n PROVE g[<<a, i>>] = o(a, i) /\ o(a, i) \in T
    BY Zenon
  <2>1. s[i] \in RunRec
    OBVIOUS
  <2>2. o(a, i) \in T
    BY <2>1 DEF RunRec
  <2>3. g[<<a, i>>] = o(a, i)
    BY DEF CountStep
  <2> QED
    BY <2>2, <2>3
<1>4. FoldStep(g, 0, T, n)
  <2>1. g \in [T \X (1 .. n) -> T]
    <3>1. g = [q \in T \X (1 .. n) |-> o(q[1], q[2])]
      BY DEF CountStep
    <3>2. \A q \in T \X (1 .. n) : o(q[1], q[2]) \in T
      BY <1>3
    <3> HIDE DEF o, g, T, n
    <3> QED
      BY <3>1, <3>2
  <2> HIDE DEF g
  <2> QED
    BY <1>2, <2>1 DEF FoldStep
<1> HIDE DEF g, o
<1>5. \E it : eq(it)
  <2>1. PICK it \in [SUBSET (1 .. n) -> T] : Folds1(it, g, 0, n)
    <3> HIDE DEF T, n
    <3> QED
      BY <1>4, FoldExists, Zenon
  <2>2. ASSUME NEW u \in SUBSET (1 .. n)
        PROVE  it[u] = IF u = {} THEN 0 ELSE o(it[u \ {Max(u)}], Max(u))
    <3>1. CASE u = {}
      BY <2>1, <3>1, Zenon DEF Folds1
    <3>2. CASE u # {}
      <4>1. Max(u) \in 1 .. n /\ u \ {Max(u)} \in SUBSET (1 .. n)
        BY <1>2, <3>2, MaxOf, Zenon
      <4>2. it[u] = g[<<it[u \ {Max(u)}], Max(u)>>] /\ it[u \ {Max(u)}] \in T
        BY <2>1, <3>2, <4>1, SMTT(30) DEF Folds1
      <4> QED
        BY <1>3, <3>2, <4>1, <4>2, Zenon
    <3> QED
      BY <3>1, <3>2
  <2>3. eq(it)
    BY <1>2, <2>2
  <2> QED
    BY <2>3, Zenon
<1>6. eq(c)
  <2> HIDE DEF eq
  <2> QED
    BY <1>5
<1> HIDE DEF c
<1>7. GoesOn(c, g, 0, T, n)
  <2>1. c[{}] = 0
    BY <1>6
  <2>2. ASSUME NEW k \in 1 .. n, c[1 .. (k - 1)] \in T
        PROVE  c[1 .. k] = g[<<c[1 .. (k - 1)], k>>]
    <3>1. /\ 1 .. k \in SUBSET (1 .. n) /\ 1 .. k # {}
          /\ Max(1 .. k) = k /\ (1 .. k) \ {k} = 1 .. (k - 1)
      BY <1>2, PrefixFacts
    <3>2. c[1 .. k] = o(c[1 .. (k - 1)], k)
      BY <1>2, <1>6, <3>1, Zenon
    <3> QED
      BY <1>3, <2>2, <3>2
  <2> QED
    BY <2>1, <2>2 DEF GoesOn
<1>8. PICK r : RunOf(r, g, 0, T, n) /\ c[1 .. n] = r[n]
  <2> HIDE DEF T, n
  <2> QED
    BY <1>4, <1>7, FoldRun
<1> QED
  BY <1>1, <1>2, <1>8 DEF g

-----------------------------------------------------------------------------
(* What they do to the frames *)

\* One more run covers the frames of that run more.
LEMMA UptoStep ==
  ASSUME NEW s, NEW n \in Nat, NEW k \in 1 .. n
  PROVE  /\ Upto(s, 0) = {}
         /\ Upto(s, k) = Upto(s, k - 1) \cup FramesOf(s[k])
<1>1. 1 .. k = (1 .. (k - 1)) \cup {k} /\ 1 .. 0 = {}
  OBVIOUS
<1> QED
  BY <1>1 DEF Upto

\* A run that is apart from the others is apart from the ones before it.
LEMMA ApartBefore ==
  ASSUME NEW s \in Seq(RunRec), Apart(s), NEW k \in 1 .. Len(s)
  PROVE  FramesOf(s[k]) \cap Upto(s, k - 1) = {}
<1>1. \A i \in 1 .. (k - 1) : i \in 1 .. Len(s) /\ i # k
  OBVIOUS
<1>2. \A i \in 1 .. (k - 1) : FramesOf(s[i]) \cap FramesOf(s[k]) = {}
  BY <1>1, Zenon DEF Apart
<1> QED
  BY <1>2 DEF Upto

\* Merging keeps the frames, keeps the runs apart and never lengthens the list,
\* whatever the order of the list is.
LEMMA MergeFacts ==
  ASSUME NEW s \in Seq(RunRec)
  PROVE  /\ MergeAdjacent(s) \in Seq(RunRec)
         /\ Len(MergeAdjacent(s)) <= Len(s)
         /\ Covered(MergeAdjacent(s)) = Covered(s)
         /\ Apart(s) => Apart(MergeAdjacent(s))
<1> DEFINE n == Len(s)
           T == Seq(RunRec)
<1>1. PICK r : RunOf(r, MergeStep(s, T), << >>, T, n) /\ MergeAdjacent(s) = r[n]
  BY MergeRun
<1>2. n \in Nat /\ r \in [0 .. n -> T] /\ r[0] = << >>
  BY <1>1 DEF RunOf
<1>3. \A k \in 1 .. n : k - 1 \in 0 .. n /\ r[k - 1] \in T /\ r[k] = Extend(r[k - 1], s[k]) /\ s[k] \in RunRec
  <2> TAKE k \in 1 .. n
  <2>0. k - 1 \in 0 .. n /\ s[k] \in RunRec
    BY <1>2
  <2>1. k - 1 \in 0 .. n /\ r[k - 1] \in T /\ s[k] \in RunRec
    <3> HIDE DEF T, n
    <3> QED
      BY <1>2, <2>0
  <2>2. r[k] = MergeStep(s, T)[<<r[k - 1], k>>]
    BY <1>1 DEF RunOf
  <2> QED
    BY <2>1, <2>2 DEF MergeStep
<1> DEFINE Good(m, k) == /\ Len(m) <= k /\ Covered(m) = Upto(s, k)
                         /\ Apart(s) => Apart(m)
           P == {k \in 0 .. n : Good(r[k], k)}
<1>4. 0 \in P
  <2>1. Len(r[0]) = 0 /\ 0 \in 0 .. n /\ 1 .. 0 = {}
    BY <1>2
  <2>2. Apart(r[0])
    BY <2>1 DEF Apart
  <2>3. Covered(r[0]) = Upto(s, 0)
    BY <2>1 DEF Covered, Upto
  <2>4. Good(r[0], 0)
    BY <2>1, <2>2, <2>3
  <2> QED
    BY <2>1, <2>4
<1>5. \A k \in 1 .. n : k - 1 \in P => k \in P
  <2> TAKE k \in 1 .. n
  <2> HAVE k - 1 \in P
  <2> DEFINE m == r[k - 1]
             x == s[k]
  <2>1. Good(m, k - 1)
    OBVIOUS
  <2>2. m \in Seq(RunRec) /\ x \in RunRec /\ r[k] = Extend(m, x)
    BY <1>3
  <2> HIDE DEF m, x
  <2>3. /\ Len(r[k]) <= Len(m) + 1
        /\ Covered(r[k]) = Covered(m) \cup FramesOf(x)
        /\ Apart(m) /\ FramesOf(x) \cap Covered(m) = {} => Apart(r[k])
    BY <2>2, ExtendFacts, Zenon
  <2>4. Covered(r[k]) = Upto(s, k)
    BY <1>2, <2>1, <2>3, UptoStep, Zenon DEF x
  <2>5. Apart(s) => FramesOf(x) \cap Covered(m) = {}
    BY <2>1, ApartBefore DEF x
  <2>6. Apart(s) => Apart(r[k])
    BY <2>1, <2>3, <2>5
  <2>7. Len(m) \in Nat /\ Len(r[k]) \in Nat
    <3>1. r[k] \in Seq(RunRec)
      BY <2>2, ExtendFacts, Zenon
    <3> QED
      BY <2>2, <3>1
  <2>8. Len(r[k]) <= k
    BY <2>1, <2>3, <2>7, <1>2
  <2>9. k \in 0 .. n
    BY <1>2
  <2> QED
    BY <2>4, <2>6, <2>8, <2>9
<1>6. n \in P
  <2> HIDE DEF P
  <2>1. 0 .. n \subseteq P
    BY <1>2, <1>4, <1>5, BoundedInduction, Zenon
  <2> QED
    BY <1>2, <2>1
<1>7. r[n] \in T
  BY <1>2
<1> QED
  BY <1>1, <1>6, <1>7 DEF Covered

\* Counting runs that are apart counts frames.
LEMMA CountFacts ==
  ASSUME NEW s \in Seq(RunRec), Apart(s)
  PROVE  /\ IsFiniteSet(Covered(s)) /\ Covered(s) \subseteq Nat
         /\ free_frames(s) = Cardinality(Covered(s))
<1> DEFINE n == Len(s)
<1>1. PICK r : RunOf(r, CountStep(s, Nat), 0, Nat, n) /\ free_frames(s) = r[n]
  BY CountRun
<1>2. n \in Nat /\ r \in [0 .. n -> Nat] /\ r[0] = 0
  BY <1>1 DEF RunOf
<1>3. \A k \in 1 .. n : k - 1 \in 0 .. n /\ r[k - 1] \in Nat /\ r[k] = r[k - 1] + s[k].count /\ s[k] \in RunRec
  <2> TAKE k \in 1 .. n
  <2>1. k - 1 \in 0 .. n /\ r[k - 1] \in Nat /\ s[k] \in RunRec
    BY <1>2
  <2>2. r[k] = CountStep(s, Nat)[<<r[k - 1], k>>]
    BY <1>1 DEF RunOf
  <2> QED
    BY <2>1, <2>2 DEF CountStep
<1> DEFINE Good(a, U) == IsFiniteSet(U) /\ U \subseteq Nat /\ a = Cardinality(U)
           P == {k \in 0 .. n : Good(r[k], Upto(s, k))}
<1>4. 0 \in P
  <2>1. 0 \in 0 .. n /\ Upto(s, 0) = {}
    <3>1. 1 .. 0 = {}
      OBVIOUS
    <3> QED
      BY <1>2, <3>1 DEF Upto
  <2> QED
    BY <1>2, <2>1, FS_EmptySet
<1>5. \A k \in 1 .. n : k - 1 \in P => k \in P
  <2> TAKE k \in 1 .. n
  <2> HAVE k - 1 \in P
  <2> DEFINE U == Upto(s, k - 1)
             V == FramesOf(s[k])
  <2>1. Good(r[k - 1], U)
    OBVIOUS
  <2>2. Upto(s, k) = U \cup V /\ U \cap V = {}
    BY <1>2, UptoStep, ApartBefore
  <2>3. IsFiniteSet(V) /\ V \subseteq Nat /\ Cardinality(V) = s[k].count
    <3>1. s[k].start \in Nat /\ s[k].count \in Nat
      BY <1>3 DEF RunRec
    <3> DEFINE a == s[k].start
               c == s[k].count
    <3>2. V = a .. (a + c - 1)
      BY DEF FramesOf
    <3> HIDE DEF a, c, V
    <3>3. a \in Int /\ a + c - 1 \in Int
      BY <3>1 DEF a, c
    <3>4. IsFiniteSet(V) /\ Cardinality(V) = IF a > a + c - 1 THEN 0 ELSE (a + c - 1) - a + 1
      BY <3>2, <3>3, FS_Interval, Zenon
    <3>5. a \in Nat /\ c \in Nat
      BY <3>1 DEF a, c
    <3>6. V \subseteq Nat
      BY <3>2, <3>5
    <3> QED
      BY <3>4, <3>5, <3>6 DEF c
  <2> HIDE DEF U, V
  <2>4. IsFiniteSet(U \cup V) /\ Cardinality(U \cup V) = Cardinality(U) + Cardinality(V) - Cardinality(U \cap V)
    BY <2>1, <2>3, FS_Union
  <2>5. Cardinality(U \cap V) = 0
    BY <2>2, FS_EmptySet, Zenon
  <2>6. Cardinality(U) \in Nat /\ Cardinality(V) \in Nat
    BY <2>1, <2>3, FS_CardinalityType
  <2>7. r[k] = Cardinality(U \cup V)
    BY <1>3, <2>1, <2>3, <2>4, <2>5, <2>6
  <2>8. k \in 0 .. n /\ U \cup V \subseteq Nat
    BY <1>2, <2>1, <2>3
  <2> QED
    BY <2>2, <2>4, <2>7, <2>8, Zenon
<1>6. n \in P
  <2> HIDE DEF P
  <2>1. 0 .. n \subseteq P
    BY <1>2, <1>4, <1>5, BoundedInduction, Zenon
  <2> QED
    BY <1>2, <2>1
<1> QED
  BY <1>1, <1>6 DEF Covered

\* Sorting rearranges.
LEMMA SortFacts ==
  ASSUME NEW E, NEW s \in Seq(E), NEW t \in SortedByStart(s)
  PROVE  /\ t \in Seq(E) /\ Len(t) = Len(s)
         /\ \E p \in Bijection(1 .. Len(s), 1 .. Len(s)) : \A i \in 1 .. Len(s) : t[i] = s[p[i]]
<1> DEFINE n == Len(s)
<1>1. PICK p \in Bijection(1 .. n, 1 .. n) : t = [i \in 1 .. n |-> s[p[i]]]
  BY DEF SortedByStart
<1>2. n \in Nat /\ \A i \in 1 .. n : s[i] \in E
  OBVIOUS
<1>3. p \in [1 .. n -> 1 .. n]
  BY <1>1 DEF Bijection, Injection
<1>4. \A i \in 1 .. n : s[p[i]] \in E
  BY <1>2, <1>3
<1>5. t \in [1 .. n -> E]
  BY <1>1, <1>4
<1>6. t \in Seq(E) /\ Len(t) = n
  BY <1>2, <1>5
<1> QED
  BY <1>1, <1>6

\* Sorting keeps the frames and keeps the runs apart.
LEMMA SortedRuns ==
  ASSUME NEW s \in Seq(RunRec), NEW t \in SortedByStart(s)
  PROVE  /\ t \in Seq(RunRec) /\ Len(t) = Len(s) /\ Covered(t) = Covered(s)
         /\ Apart(s) => Apart(t)
<1> DEFINE n == Len(s)
<1>1. t \in Seq(RunRec) /\ Len(t) = n
  BY SortFacts
<1>2. PICK p \in Bijection(1 .. n, 1 .. n) : \A i \in 1 .. n : t[i] = s[p[i]]
  BY SortFacts
<1>3. /\ \A i \in 1 .. n : p[i] \in 1 .. n
      /\ \A i, j \in 1 .. n : p[i] = p[j] => i = j
      /\ \A j \in 1 .. n : \E i \in 1 .. n : p[i] = j
  BY <1>2, Zenon DEF Bijection, Injection, Surjection, IsInjective
<1> HIDE DEF n
<1>4. Covered(t) = UNION {FramesOf(t[i]) : i \in 1 .. n} /\ Covered(s) = UNION {FramesOf(s[i]) : i \in 1 .. n}
  BY <1>1 DEF Covered, Upto, n
<1>5. Covered(t) \subseteq Covered(s)
  <2> SUFFICES ASSUME NEW f \in Covered(t) PROVE f \in Covered(s)
    BY Zenon
  <2>1. PICK i \in 1 .. n : f \in FramesOf(t[i])
    BY <1>4, Zenon
  <2>2. p[i] \in 1 .. n /\ f \in FramesOf(s[p[i]])
    BY <1>2, <1>3, <2>1, Zenon
  <2> QED
    BY <1>4, <2>2, Zenon
<1>6. Covered(s) \subseteq Covered(t)
  <2> SUFFICES ASSUME NEW f \in Covered(s) PROVE f \in Covered(t)
    OBVIOUS
  <2>1. PICK j \in 1 .. n : f \in FramesOf(s[j])
    BY <1>4
  <2>2. PICK i \in 1 .. n : p[i] = j
    BY <1>3
  <2>3. f \in FramesOf(t[i])
    BY <1>2, <2>1, <2>2
  <2> QED
    BY <1>4, <2>3
<1>7. ASSUME Apart(s) PROVE Apart(t)
  <2>1. \A i, j \in 1 .. n : i # j => FramesOf(s[i]) \cap FramesOf(s[j]) = {}
    BY <1>7, Zenon DEF Apart, n
  <2>2. \A i, j \in 1 .. n : i # j => FramesOf(t[i]) \cap FramesOf(t[j]) = {}
    <3> SUFFICES ASSUME NEW i \in 1 .. n, NEW j \in 1 .. n, i # j
                 PROVE  FramesOf(t[i]) \cap FramesOf(t[j]) = {}
      BY Zenon
    <3>1. p[i] \in 1 .. n /\ p[j] \in 1 .. n /\ p[i] # p[j] /\ t[i] = s[p[i]] /\ t[j] = s[p[j]]
      BY <1>2, <1>3
    <3> QED
      BY <2>1, <3>1, Zenon
  <2> QED
    BY <1>1, <2>2 DEF Apart
<1> QED
  BY <1>1, <1>5, <1>6, <1>7, Zenon DEF n

-----------------------------------------------------------------------------
(* The invariant *)

\* Frame f lies in a usable region of m, above the floor.
Whole(m, f) ==
  /\ f * FRAME_SIZE >= floor
  /\ \E i \in 1 .. Len(m) :
       /\ m[i].kind = "Usable"
       /\ m[i].start <= f * FRAME_SIZE
       /\ (f + 1) * FRAME_SIZE <= m[i].end

FType ==
  /\ map \in Maps /\ runs \in Seq(RunRec)
  /\ total \in Nat /\ allocated \in Nat
  /\ held \subseteq Nat /\ IsFiniteSet(held)
  /\ lost \subseteq Nat /\ IsFiniteSet(lost)

\* Nothing is there before the allocator is filled.
Unfilled ==
  phase = "boot" => /\ runs = << >> /\ held = {} /\ lost = {}
                    /\ total = 0 /\ allocated = 0

\* Every frame has one place.
Placed ==
  /\ Apart(runs)
  /\ held \cap Covered(runs) = {}
  /\ lost \cap Covered(runs) = {} /\ lost \cap held = {}

Counted ==
  /\ Len(runs) <= MAX_RUNS
  /\ total = Cardinality(Covered(runs)) + allocated
  /\ allocated = Cardinality(held) + Cardinality(lost)

Sound == \A f \in Covered(runs) \cup held : Whole(map, f)

FrameInv == FType /\ Unfilled /\ Placed /\ Counted /\ Sound

-----------------------------------------------------------------------------
(* Boot *)

\* A larger factor gives a larger product.
LEMMA TimesMono ==
  ASSUME NEW a \in Nat, NEW b \in Nat, a <= b
  PROVE  a * FRAME_SIZE <= b * FRAME_SIZE /\ a * FRAME_SIZE \in Nat /\ b * FRAME_SIZE \in Nat
<1>1. FRAME_SIZE \in Nat
  BY FramesAssumption
<1> QED
  BY <1>1

\* The frames of a region's run lie wholly inside the region, above the floor.
LEMMA RunFrames ==
  ASSUME NEW r \in RegionRec, NEW f \in FramesOf(Run(r))
  PROVE  /\ f \in Nat
         /\ f * FRAME_SIZE \in Nat /\ (f + 1) * FRAME_SIZE \in Nat
         /\ floor <= f * FRAME_SIZE
         /\ r.start <= f * FRAME_SIZE
         /\ (f + 1) * FRAME_SIZE <= r.end
<1> DEFINE c == Clip(r)
           q == RoundUp(c)
           d == r.end \div FRAME_SIZE
           e == r.end
<1>1. FRAME_SIZE \in Nat \ {0} /\ floor \in Nat /\ r.start \in Nat /\ r.end \in Nat
  BY FramesAssumption DEF RegionRec
<1>2. c \in Nat /\ c >= floor /\ c >= r.start
  BY <1>1 DEF Clip
<1>3. f \in q .. (q + (d - q) - 1)
  BY DEF FramesOf, Run
<1> HIDE DEF c
<1>4. q \in Nat /\ c <= q * FRAME_SIZE
  BY <1>1, <1>2 DEF RoundUp
<1>5. d \in Nat /\ d * FRAME_SIZE <= e /\ e \in Nat
  BY <1>1
<1> HIDE DEF q, d, e
<1>6. f \in Nat /\ q <= f /\ f + 1 <= d
  BY <1>3, <1>4, <1>5
<1>7. q * FRAME_SIZE <= f * FRAME_SIZE /\ q * FRAME_SIZE \in Nat /\ f * FRAME_SIZE \in Nat
  BY <1>4, <1>6, TimesMono
<1>8. (f + 1) * FRAME_SIZE <= d * FRAME_SIZE /\ (f + 1) * FRAME_SIZE \in Nat /\ d * FRAME_SIZE \in Nat
  BY <1>5, <1>6, TimesMono
<1>9. floor <= f * FRAME_SIZE /\ r.start <= f * FRAME_SIZE
  BY <1>1, <1>2, <1>4, <1>7
<1>10. (f + 1) * FRAME_SIZE <= e
  BY <1>5, <1>8
<1> QED
  BY <1>6, <1>7, <1>8, <1>9, <1>10 DEF e

\* A step forward of one frame.
LEMMA NextFrame ==
  ASSUME NEW f \in Nat
  PROVE  f * FRAME_SIZE < (f + 1) * FRAME_SIZE
<1>1. FRAME_SIZE \in Nat \ {0}
  BY FramesAssumption
<1> QED
  BY <1>1

\* The runs that init collects from an accepted map are apart, and made of
\* whole usable frames above the floor.
LEMMA CollectedFacts ==
  ASSUME NEW m \in Seq(RegionRec), NEW rs \in SortedByStart(m), ~Overlap(rs)
  PROVE  LET runs1 == Collected(Usable(rs))
         IN  /\ runs1 \in Seq(RunRec) /\ Apart(runs1)
             /\ \A f \in Covered(runs1) : Whole(m, f)
<1> DEFINE u == Usable(rs)
           K == {r \in Range(u) : r.end > floor /\ Run(r).count > 0}
           kept == Keep(u, K)
           n == Len(kept)
           c == Collected(u)
<1>1. rs \in Seq(RegionRec) /\ Len(rs) = Len(m)
  BY SortFacts
<1>2. PICK p \in Bijection(1 .. Len(m), 1 .. Len(m)) : \A i \in 1 .. Len(m) : rs[i] = m[p[i]]
  BY SortFacts
<1>3. u \in Seq(RegionRec) /\ \E h : Picks(h, u, rs, {r \in Range(rs) : r.kind = "Usable"}, Len(rs))
  BY <1>1, KeepPicks, Zenon DEF Usable
<1>4. PICK h : Picks(h, u, rs, {r \in Range(rs) : r.kind = "Usable"}, Len(rs))
  BY <1>3, Zenon
<1>5. kept \in Seq(RegionRec) /\ \E k : Picks(k, kept, u, K, Len(u))
  BY <1>3, KeepPicks, Zenon
<1>6. PICK k : Picks(k, kept, u, K, Len(u))
  BY <1>5, Zenon
<1>7. c = [i \in 1 .. n |-> Run(kept[i])]
  BY DEF Collected
<1> HIDE DEF u, K, kept, c
<1> DEFINE g(i) == h[k[i]]
<1>8. \A i \in 1 .. n : /\ kept[i] \in RegionRec /\ kept[i] \in K
                        /\ g(i) \in 1 .. Len(rs) /\ kept[i] = rs[g(i)]
                        /\ rs[g(i)].kind = "Usable"
  <2> TAKE i \in 1 .. n
  <2>1. k[i] \in 1 .. Len(u) /\ kept[i] = u[k[i]] /\ kept[i] \in K
    BY <1>6 DEF Picks
  <2>2. h[k[i]] \in 1 .. Len(rs) /\ u[k[i]] = rs[h[k[i]]] /\ rs[h[k[i]]].kind = "Usable"
    BY <1>4, <2>1 DEF Picks
  <2>3. kept[i] \in RegionRec
    BY <1>5
  <2> QED
    BY <2>1, <2>2, <2>3
<1>9. \A i, j \in 1 .. n : i < j => g(i) < g(j)
  <2> SUFFICES ASSUME NEW i \in 1 .. n, NEW j \in 1 .. n, i < j PROVE g(i) < g(j)
    OBVIOUS
  <2>1. k[i] \in 1 .. Len(u) /\ k[j] \in 1 .. Len(u) /\ k[i] < k[j]
    BY <1>6, SMTT(30) DEF Picks
  <2> QED
    BY <1>4, <2>1 DEF Picks
<1>10. n \in Nat
  BY <1>5
<1>11. \A i \in 1 .. n : c[i] = Run(kept[i]) /\ c[i] \in RunRec
  <2> TAKE i \in 1 .. n
  <2> DEFINE r == kept[i]
  <2>1. r \in RegionRec /\ Run(r).count > 0 /\ c[i] = Run(r)
    BY <1>7, <1>8 DEF K
  <2> HIDE DEF r
  <2>2. Run(r) \in RunRec
    <3> DEFINE x == Clip(r)
               q == RoundUp(x)
               d == r.end \div FRAME_SIZE
    <3>1. FRAME_SIZE \in Nat \ {0} /\ floor \in Nat /\ r.start \in Nat /\ r.end \in Nat
      BY <2>1, FramesAssumption DEF RegionRec
    <3>2. x \in Nat
      BY <3>1 DEF Clip
    <3>3. Run(r) = [start |-> q, count |-> d - q]
      BY DEF Run
    <3> HIDE DEF x
    <3>4. q \in Nat /\ d \in Nat
      BY <3>1, <3>2 DEF RoundUp
    <3> HIDE DEF q, d
    <3>5. d - q > 0
      BY <2>1, <3>3
    <3>6. d - q \in Nat
      BY <3>4, <3>5
    <3> QED
      BY <3>3, <3>4, <3>6 DEF RunRec
  <2> QED
    BY <2>1, <2>2 DEF r
<1>12. c \in Seq(RunRec) /\ Len(c) = n
  <2>1. c \in [1 .. n -> RunRec]
    BY <1>7, <1>11
  <2> QED
    BY <1>10, <2>1
<1> HIDE DEF n, g
<1>13. \A i \in 1 .. n : \A f \in FramesOf(c[i]) :
          /\ f \in Nat /\ f * FRAME_SIZE \in Nat /\ (f + 1) * FRAME_SIZE \in Nat
          /\ floor <= f * FRAME_SIZE
          /\ kept[i].start <= f * FRAME_SIZE /\ (f + 1) * FRAME_SIZE <= kept[i].end
  BY <1>8, <1>11, RunFrames
<1>14. \A i, j \in 1 .. n : i < j => FramesOf(c[i]) \cap FramesOf(c[j]) = {}
  <2> SUFFICES ASSUME NEW i \in 1 .. n, NEW j \in 1 .. n, i < j,
                      NEW f \in FramesOf(c[i]), f \in FramesOf(c[j])
               PROVE  FALSE
    OBVIOUS
  <2>1. ~(kept[j].start < kept[i].end)
    <3>1. /\ g(i) \in 1 .. Len(rs) /\ g(j) \in 1 .. Len(rs) /\ g(i) < g(j)
          /\ rs[g(i)].kind = "Usable" /\ rs[g(j)].kind = "Usable"
          /\ kept[i] = rs[g(i)] /\ kept[j] = rs[g(j)]
      BY <1>8, <1>9
    <3> QED
      BY <3>1 DEF Overlap
  <2>2. kept[i].end \in Nat /\ kept[j].start \in Nat
    BY <1>8 DEF RegionRec
  <2>3. /\ f \in Nat /\ f * FRAME_SIZE \in Nat /\ (f + 1) * FRAME_SIZE \in Nat
        /\ kept[j].start <= f * FRAME_SIZE /\ (f + 1) * FRAME_SIZE <= kept[i].end
    BY <1>13
  <2>4. f * FRAME_SIZE < (f + 1) * FRAME_SIZE
    BY <2>3, NextFrame
  <2> DEFINE a == f * FRAME_SIZE
             b == (f + 1) * FRAME_SIZE
             x == kept[j].start
             y == kept[i].end
  <2>5. a < b /\ a \in Nat /\ b \in Nat /\ x \in Nat /\ y \in Nat /\ ~(x < y) /\ x <= a /\ b <= y
    BY <2>1, <2>2, <2>3, <2>4
  <2> HIDE DEF a, b, x, y
  <2> QED
    BY <2>5
<1>15. Apart(c)
  <2>1. \A i, j \in 1 .. n : i # j => i < j \/ j < i
    BY <1>10
  <2>2. \A i, j \in 1 .. n : i # j => FramesOf(c[i]) \cap FramesOf(c[j]) = {}
    <3> SUFFICES ASSUME NEW i \in 1 .. n, NEW j \in 1 .. n, i # j
                 PROVE  FramesOf(c[i]) \cap FramesOf(c[j]) = {}
      BY Zenon
    <3>1. CASE i < j
      BY <1>14, <3>1, Zenon
    <3>2. CASE j < i
      BY <1>14, <3>2, Zenon
    <3> QED
      BY <2>1, <3>1, <3>2
  <2> QED
    BY <1>12, <2>2 DEF Apart
<1>16. \A f \in Covered(c) : Whole(m, f)
  <2> TAKE f \in Covered(c)
  <2>1. PICK i \in 1 .. n : f \in FramesOf(c[i])
    BY <1>12 DEF Covered, Upto
  <2>2. /\ f \in Nat /\ f * FRAME_SIZE \in Nat
        /\ floor <= f * FRAME_SIZE
        /\ kept[i].start <= f * FRAME_SIZE /\ (f + 1) * FRAME_SIZE <= kept[i].end
    BY <1>13, <2>1
  <2>3. PICK j \in 1 .. Len(m) : kept[i] = m[j] /\ m[j].kind = "Usable"
    <3>1. g(i) \in 1 .. Len(m) /\ kept[i] = rs[g(i)] /\ rs[g(i)].kind = "Usable"
      BY <1>1, <1>8
    <3>2. p \in [1 .. Len(m) -> 1 .. Len(m)]
      BY <1>2 DEF Bijection, Injection
    <3>3. rs[g(i)] = m[p[g(i)]] /\ p[g(i)] \in 1 .. Len(m)
      BY <1>2, <3>1, <3>2
    <3> QED
      BY <3>1, <3>3
  <2>4. f * FRAME_SIZE >= floor
    BY <2>2, FramesAssumption
  <2> QED
    BY <2>2, <2>3, <2>4 DEF Whole
<1> QED
  BY <1>12, <1>15, <1>16 DEF c, u

-----------------------------------------------------------------------------
(* Taking a frame and giving one back *)

\* A run that loses its first frame.
Shorter(s, i) == [s EXCEPT ![i] = [start |-> @.start + 1, count |-> @.count - 1]]

\* Taking the first frame of a run takes that frame only.
LEMMA TakeFrame ==
  ASSUME NEW s \in Seq(RunRec), Apart(s), NEW i \in 1 .. Len(s), s[i].count > 0
  PROVE  /\ Shorter(s, i) \in Seq(RunRec) /\ Len(Shorter(s, i)) = Len(s)
         /\ Apart(Shorter(s, i))
         /\ Covered(Shorter(s, i)) = Covered(s) \ {s[i].start}
         /\ s[i].start \in Covered(s)
<1> DEFINE n == Len(s)
           b == [start |-> s[i].start + 1, count |-> s[i].count - 1]
           t == Shorter(s, i)
           a == s[i].start
<1>0. n \in Nat /\ s[i] \in RunRec
  OBVIOUS
<1>1. n \in Nat /\ s[i] \in RunRec /\ s[i].start \in Nat /\ s[i].count \in Nat
  BY <1>0 DEF RunRec
<1>2. b \in RunRec
  BY <1>1 DEF RunRec
<1>3. FramesOf(b) = FramesOf(s[i]) \ {a} /\ a \in FramesOf(s[i])
  BY <1>1, SMTT(30) DEF FramesOf
<1>4. t = [s EXCEPT ![i] = b]
  BY DEF Shorter
<1> HIDE DEF b, a
<1>5. t \in Seq(RunRec) /\ Len(t) = n /\ t[i] = b /\ \A j \in 1 .. n : j # i => t[j] = s[j]
  BY <1>2, <1>4
<1> HIDE DEF t
<1>6. \A j, k \in 1 .. n : j # k => FramesOf(s[j]) \cap FramesOf(s[k]) = {}
  BY Zenon DEF Apart
<1>7. \A j \in 1 .. n : j # i => a \notin FramesOf(s[j])
  BY <1>3, <1>6, Zenon
<1>8. \A j \in 1 .. n : FramesOf(t[j]) = FramesOf(s[j]) \ {a}
  <2> TAKE j \in 1 .. n
  <2>1. CASE j = i
    BY <1>3, <1>5, <2>1
  <2>2. CASE j # i
    BY <1>5, <1>7, <2>2
  <2> QED
    BY <2>1, <2>2
<1>9. Apart(t)
  <2>1. \A j, k \in 1 .. n : j # k => FramesOf(t[j]) \cap FramesOf(t[k]) = {}
    BY <1>6, <1>8, Zenon
  <2> QED
    BY <1>5, <2>1, Zenon DEF Apart
<1>10. Covered(t) = UNION {FramesOf(t[j]) : j \in 1 .. n} /\ Covered(s) = UNION {FramesOf(s[j]) : j \in 1 .. n}
  BY <1>5 DEF Covered, Upto
<1> HIDE DEF n
<1>11. Covered(t) \subseteq Covered(s) \ {a}
  BY <1>8, <1>10
<1>12. Covered(s) \ {a} \subseteq Covered(t)
  <2> SUFFICES ASSUME NEW f \in Covered(s) \ {a} PROVE f \in Covered(t)
    OBVIOUS
  <2>1. PICK j \in 1 .. n : f \in FramesOf(s[j])
    BY <1>10
  <2>2. f \in FramesOf(t[j])
    BY <1>8, <2>1
  <2> QED
    BY <1>10, <2>2
<1>13. a \in Covered(s)
  BY <1>3, <1>10 DEF n
<1> QED
  BY <1>5, <1>9, <1>11, <1>12, <1>13 DEF t, a, n

\* A free frame sorted in and merged.
LEMMA GiveFrame ==
  ASSUME NEW s \in Seq(RunRec), Apart(s), NEW f \in Nat, f \notin Covered(s),
         NEW t \in SortedByStart(Append(s, [start |-> f, count |-> 1]))
  PROVE  /\ MergeAdjacent(t) \in Seq(RunRec) /\ Len(MergeAdjacent(t)) <= Len(s) + 1
         /\ Apart(MergeAdjacent(t))
         /\ Covered(MergeAdjacent(t)) = Covered(s) \cup {f}
<1> DEFINE n == Len(s)
           b == [start |-> f, count |-> 1]
           a == Append(s, b)
<1>1. n \in Nat /\ b \in RunRec
  BY DEF RunRec
<1>2. FramesOf(b) = {f}
  BY DEF FramesOf
<1> HIDE DEF b
<1>3. /\ a \in Seq(RunRec) /\ Len(a) = n + 1 /\ a[n + 1] = b
      /\ \A i \in 1 .. n : a[i] = s[i]
  BY <1>1
<1>4. 1 .. (n + 1) = (1 .. n) \cup {n + 1} /\ n + 1 \notin 1 .. n
  BY <1>1
<1> HIDE DEF a
<1>5. Covered(s) = UNION {FramesOf(s[i]) : i \in 1 .. n}
  BY DEF Covered, Upto
<1>6. Covered(a) = UNION {FramesOf(a[i]) : i \in (1 .. n) \cup {n + 1}}
  BY <1>3, <1>4 DEF Covered, Upto
<1>7. \A i, j \in 1 .. n : i # j => FramesOf(s[i]) \cap FramesOf(s[j]) = {}
  BY DEF Apart
<1> HIDE DEF n
<1>8. Covered(a) = Covered(s) \cup {f}
  BY <1>2, <1>3, <1>5, <1>6, Zenon
<1>9. Apart(a)
  <2>1. \A i \in 1 .. n : f \notin FramesOf(s[i])
    BY <1>5
  <2>2. \A i, j \in (1 .. n) \cup {n + 1} : i # j => FramesOf(a[i]) \cap FramesOf(a[j]) = {}
    <3> SUFFICES ASSUME NEW i \in (1 .. n) \cup {n + 1}, NEW j \in (1 .. n) \cup {n + 1}, i # j
                 PROVE  FramesOf(a[i]) \cap FramesOf(a[j]) = {}
      OBVIOUS
    <3>1. CASE i \in 1 .. n /\ j \in 1 .. n
      BY <1>3, <1>7, <3>1, Zenon
    <3>2. CASE i = n + 1 /\ j \in 1 .. n
      BY <1>2, <1>3, <2>1, <3>2
    <3>3. CASE i \in 1 .. n /\ j = n + 1
      BY <1>2, <1>3, <2>1, <3>3
    <3> QED
      BY <3>1, <3>2, <3>3
  <2> QED
    BY <1>3, <1>4, <2>2, Zenon DEF Apart
<1>10. t \in Seq(RunRec) /\ Len(t) = n + 1 /\ Covered(t) = Covered(a) /\ Apart(t)
  BY <1>3, <1>9, SortedRuns, Zenon DEF a, b
<1>11. /\ MergeAdjacent(t) \in Seq(RunRec) /\ Len(MergeAdjacent(t)) <= n + 1
       /\ Covered(MergeAdjacent(t)) = Covered(t) /\ Apart(MergeAdjacent(t))
  BY <1>10, MergeFacts
<1> QED
  BY <1>8, <1>10, <1>11 DEF n

-----------------------------------------------------------------------------
(* The invariant is inductive *)

\* Nothing is free, held or lost before boot.
LEMMA FrameInvInit == Init => FrameInv
<1> SUFFICES ASSUME Init PROVE FrameInv
  OBVIOUS
<1>1. Covered(<< >>) = {} /\ Apart(<< >>)
  <2>1. Len(<< >>) = 0 /\ 1 .. 0 = {}
    OBVIOUS
  <2> QED
    BY <2>1 DEF Covered, Upto, Apart
<1>2. << >> \in Seq(RunRec) /\ Len(<< >>) = 0 /\ MAX_RUNS \in Nat
  BY FramesAssumption
<1>3. IsFiniteSet({}) /\ Cardinality({}) = 0
  BY FS_EmptySet
<1>4. FType /\ Unfilled
  BY <1>2, <1>3, Zenon DEF Init, FType, Unfilled
<1>5. Placed /\ Sound
  BY <1>1 DEF Init, Placed, Sound
<1>6. Counted
  <2>1. Covered(runs) = {} /\ Len(runs) = 0 /\ held = {} /\ lost = {} /\ total = 0 /\ allocated = 0
    BY <1>1, <1>2, Zenon DEF Init
  <2>2. 0 <= MAX_RUNS
    BY <1>2
  <2> QED
    BY <1>3, <2>1, <2>2 DEF Counted
<1> QED
  BY <1>4, <1>5, <1>6 DEF FrameInv

\* Filling the allocator from an accepted map.
LEMMA FillFrames ==
  ASSUME FrameInv, MapAccepted
  PROVE  FrameInv'
<1>1. runs = << >> /\ held = {} /\ lost = {} /\ total = 0 /\ allocated = 0 /\ phase' = "ready"
  BY DEF FrameInv, Unfilled, MapAccepted
<1>2. PICK rs \in SortedByStart(map) : validate_regions_bytes(rs) = "Ok" /\ InitFrames(Usable(rs))
  BY DEF MapAccepted
<1>3. map \in Seq(RegionRec)
  BY FramesAssumption DEF FrameInv, FType, RegionRec
<1>4. ~Overlap(rs)
  BY <1>2 DEF validate_regions_bytes
<1> DEFINE c == Collected(Usable(rs))
<1>5. c \in Seq(RunRec) /\ Apart(c) /\ \A f \in Covered(c) : Whole(map, f)
  BY <1>3, <1>4, CollectedFacts
<1>6. map' = map /\ held' = {} /\ lost' = {}
  BY <1>1 DEF MapAccepted
<1>7. IsFiniteSet({}) /\ Cardinality({}) = 0
  BY FS_EmptySet
<1> HIDE DEF c
<1>8. CASE UNCHANGED <<runs, total, allocated>>
  BY <1>1, <1>6, <1>8 DEF FrameInv, FType, Unfilled, Placed, Counted, Sound
<1>9. CASE Len(c) <= MAX_RUNS /\ \E t \in SortedByStart(c) :
             runs' = MergeAdjacent(t) /\ total' = free_frames(runs') /\ allocated' = 0
  <2>1. PICK t \in SortedByStart(c) :
             runs' = MergeAdjacent(t) /\ total' = free_frames(runs') /\ allocated' = 0
    BY <1>9
  <2>2. t \in Seq(RunRec) /\ Len(t) = Len(c) /\ Covered(t) = Covered(c) /\ Apart(t)
    BY <1>5, SortedRuns
  <2>3. runs' \in Seq(RunRec) /\ Len(runs') <= Len(t) /\ Covered(runs') = Covered(c) /\ Apart(runs')
    BY <2>1, <2>2, MergeFacts
  <2>4. IsFiniteSet(Covered(runs')) /\ total' = Cardinality(Covered(runs'))
    BY <2>1, <2>3, CountFacts
  <2>5. total' \in Nat
    BY <2>4, FS_CardinalityType
  <2>6. Len(runs') <= MAX_RUNS
    <3>1. Len(runs') \in Nat /\ Len(c) \in Nat /\ MAX_RUNS \in Nat
      BY <1>5, <2>3, FramesAssumption
    <3> QED
      BY <1>9, <2>2, <2>3, <3>1
  <2>7. FType'
    BY <1>6, <1>7, <2>1, <2>3, <2>5 DEF FrameInv, FType
  <2>8. Unfilled'
    BY <1>1 DEF Unfilled
  <2>9. Placed'
    BY <1>6, <2>3 DEF Placed
  <2>10. Counted'
    BY <1>6, <1>7, <2>1, <2>4, <2>5, <2>6 DEF Counted
  <2>11. Sound'
    BY <1>5, <1>6, <2>3 DEF Sound
  <2> QED
    BY <2>7, <2>8, <2>9, <2>10, <2>11 DEF FrameInv
<1>10. Len(c) \in Nat /\ MAX_RUNS \in Nat
  BY <1>5, FramesAssumption
<1>11. Len(c) > MAX_RUNS \/ Len(c) <= MAX_RUNS
  BY <1>10
<1> QED
  BY <1>2, <1>8, <1>9, <1>11 DEF InitFrames, c

\* Taking a frame moves it from the runs to its owner.
LEMMA AllocateFrames ==
  ASSUME FrameInv, Allocate
  PROVE  FrameInv'
<1>1. PICK i \in 1 .. Len(runs) :
         /\ FirstNonEmpty(i) /\ runs' = Shorter(runs, i)
         /\ held' = held \cup {runs[i].start} /\ answer' = runs[i].start
  BY Zenon DEF Allocate, Shorter
<1>2. /\ allocated' = allocated + 1 /\ map' = map /\ phase' = "ready" /\ total' = total /\ lost' = lost
  BY DEF Allocate
<1> DEFINE f == runs[i].start
           free == Covered(runs)
<1>3. runs \in Seq(RunRec) /\ Apart(runs) /\ runs[i].count > 0
  BY <1>1 DEF FrameInv, FType, Placed, FirstNonEmpty
<1>4. /\ runs' \in Seq(RunRec) /\ Len(runs') = Len(runs) /\ Apart(runs')
      /\ Covered(runs') = free \ {f} /\ f \in free
  BY <1>1, <1>3, TakeFrame
<1>5. IsFiniteSet(free) /\ free \subseteq Nat
  BY <1>3, CountFacts
<1>6. /\ held \subseteq Nat /\ IsFiniteSet(held) /\ lost \subseteq Nat /\ IsFiniteSet(lost)
      /\ total \in Nat /\ allocated \in Nat /\ map \in Maps
  BY DEF FrameInv, FType
<1>7. held \cap free = {} /\ lost \cap free = {} /\ lost \cap held = {}
  BY DEF FrameInv, Placed
<1>8. held' = held \cup {f}
  BY <1>1
<1>9. \A g \in free \cup held : Whole(map, g)
  BY DEF FrameInv, Sound
<1>10. /\ Len(runs) <= MAX_RUNS /\ total = Cardinality(free) + allocated
       /\ allocated = Cardinality(held) + Cardinality(lost)
  BY DEF FrameInv, Counted
<1> HIDE DEF f, free
<1>11. IsFiniteSet(held') /\ Cardinality(held') = Cardinality(held) + 1
  BY <1>4, <1>6, <1>7, <1>8, FS_AddElement
<1>12. Cardinality(free \ {f}) = Cardinality(free) - 1
  BY <1>4, <1>5, FS_RemoveElement, Zenon
<1>13. Cardinality(free) \in Nat /\ Cardinality(held) \in Nat /\ Cardinality(lost) \in Nat
  BY <1>5, <1>6, FS_CardinalityType
<1>14. FType'
  <2>1. held' \subseteq Nat /\ allocated' \in Nat
    BY <1>2, <1>4, <1>5, <1>6, <1>8
  <2> QED
    BY <1>2, <1>4, <1>6, <1>11, <2>1 DEF FType
<1>15. Unfilled'
  BY <1>2 DEF Unfilled
<1>16. Placed'
  BY <1>2, <1>4, <1>7, <1>8 DEF Placed
<1>17. Counted'
  <2>1. total = Cardinality(free \ {f}) + (allocated + 1)
    BY <1>6, <1>10, <1>12, <1>13
  <2>2. allocated + 1 = Cardinality(held') + Cardinality(lost)
    BY <1>10, <1>11, <1>13
  <2> QED
    BY <1>2, <1>4, <1>10, <2>1, <2>2 DEF Counted
<1>18. Sound'
  BY <1>2, <1>4, <1>8, <1>9 DEF Sound
<1> QED
  BY <1>14, <1>15, <1>16, <1>17, <1>18 DEF FrameInv

\* A frame that is held is nowhere else, and it is counted.
LEMMA HeldFacts ==
  ASSUME FrameInv, NEW f \in held
  PROVE  /\ f \in Nat /\ f \notin Covered(runs) /\ f \notin lost
         /\ IsFiniteSet(held \ {f}) /\ Cardinality(held \ {f}) = Cardinality(held) - 1
         /\ Cardinality(held) \in Nat /\ Cardinality(held) >= 1
         /\ Cardinality(lost) \in Nat
         /\ allocated = Cardinality(held) + Cardinality(lost) /\ allocated > 0
<1>1. held \subseteq Nat /\ IsFiniteSet(held) /\ IsFiniteSet(lost)
  BY DEF FrameInv, FType
<1>2. f \in Nat /\ f \notin Covered(runs) /\ f \notin lost
  BY <1>1 DEF FrameInv, Placed
<1>3. IsFiniteSet(held \ {f}) /\ Cardinality(held \ {f}) = Cardinality(held) - 1
  BY <1>1, FS_RemoveElement
<1>4. Cardinality(held) \in Nat /\ Cardinality(held \ {f}) \in Nat /\ Cardinality(lost) \in Nat
  BY <1>1, <1>3, FS_CardinalityType
<1>5. allocated = Cardinality(held) + Cardinality(lost)
  BY DEF FrameInv, Counted
<1> QED
  BY <1>2, <1>3, <1>4, <1>5

\* Giving a frame back moves it to the runs.
LEMMA DeallocateFrames ==
  ASSUME FrameInv, NEW f \in held, Deallocate(f)
  PROVE  FrameInv' /\ Covered(runs') = Covered(runs) \cup {f}
<1> DEFINE free == Covered(runs)
<1>1. PICK t \in SortedByStart(Append(runs, [start |-> f, count |-> 1])) : runs' = MergeAdjacent(t)
  BY DEF Deallocate
<1>2. /\ map' = map /\ phase' = "ready" /\ total' = total /\ lost' = lost
      /\ held' = held \ {f} /\ Len(runs) < MAX_RUNS /\ allocated' = SaturatingDec(allocated)
  BY DEF Deallocate
<1>3. runs \in Seq(RunRec) /\ Apart(runs) /\ f \in Nat /\ f \notin free
  BY HeldFacts DEF FrameInv, FType, Placed
<1>4. /\ runs' \in Seq(RunRec) /\ Len(runs') <= Len(runs) + 1 /\ Apart(runs')
      /\ Covered(runs') = free \cup {f}
  BY <1>1, <1>3, GiveFrame
<1>5. IsFiniteSet(free) /\ free \subseteq Nat
  BY <1>3, CountFacts
<1>6. /\ held \subseteq Nat /\ lost \subseteq Nat /\ IsFiniteSet(lost)
      /\ total \in Nat /\ allocated \in Nat /\ map \in Maps
  BY DEF FrameInv, FType
<1>7. held \cap free = {} /\ lost \cap free = {} /\ lost \cap held = {} /\ f \notin lost
  BY HeldFacts DEF FrameInv, Placed
<1>8. \A g \in free \cup held : Whole(map, g)
  BY DEF FrameInv, Sound
<1>9. total = Cardinality(free) + allocated
  BY DEF FrameInv, Counted
<1> HIDE DEF free
<1>10. Cardinality(free \cup {f}) = Cardinality(free) + 1
  BY <1>3, <1>5, FS_AddElement, Zenon
<1>11. Cardinality(free) \in Nat
  BY <1>5, FS_CardinalityType
<1>12. /\ allocated' = allocated - 1 /\ allocated' \in Nat
       /\ allocated' = Cardinality(held') + Cardinality(lost)
  <2>1. /\ Cardinality(held \ {f}) = Cardinality(held) - 1
        /\ Cardinality(held) \in Nat /\ Cardinality(lost) \in Nat
        /\ allocated = Cardinality(held) + Cardinality(lost) /\ allocated > 0
    BY HeldFacts, Zenon
  <2>2. allocated' = allocated - 1 /\ Cardinality(held') = Cardinality(held \ {f})
    BY <1>2, <2>1 DEF SaturatingDec
  <2>3. allocated - 1 \in Nat /\ allocated - 1 = Cardinality(held \ {f}) + Cardinality(lost)
    BY <1>6, <2>1
  <2> QED
    BY <2>2, <2>3
<1>13. FType'
  <2>1. held' \subseteq Nat /\ IsFiniteSet(held')
    BY <1>2, <1>6, HeldFacts
  <2> QED
    BY <1>2, <1>4, <1>6, <1>12, <2>1 DEF FType
<1>14. Unfilled'
  BY <1>2 DEF Unfilled
<1>15. Placed'
  BY <1>2, <1>4, <1>7 DEF Placed
<1>16. Counted'
  <2>1. total = Cardinality(free \cup {f}) + allocated'
    BY <1>6, <1>9, <1>10, <1>11, <1>12
  <2>2. Len(runs') <= MAX_RUNS
    <3>1. Len(runs) \in Nat /\ Len(runs') \in Nat /\ MAX_RUNS \in Nat
      BY <1>3, <1>4, FramesAssumption
    <3> QED
      BY <1>2, <1>4, <3>1
  <2> QED
    BY <1>2, <1>4, <1>12, <2>1, <2>2 DEF Counted
<1>17. Sound'
  BY <1>2, <1>4, <1>8 DEF Sound
<1> QED
  BY <1>4, <1>13, <1>14, <1>15, <1>16, <1>17 DEF FrameInv, free

\* A frame the full list has no room for is lost, and stays counted.
LEMMA DropFrames ==
  ASSUME FrameInv, NEW f \in held, DeallocateDrops(f)
  PROVE  FrameInv'
<1>1. /\ map' = map /\ phase' = "ready" /\ total' = total /\ lost' = lost \cup {f}
      /\ held' = held \ {f} /\ runs' = runs /\ allocated' = allocated
  BY DEF DeallocateDrops
<1>2. /\ held \subseteq Nat /\ lost \subseteq Nat /\ IsFiniteSet(lost)
  BY DEF FrameInv, FType
<1>3. IsFiniteSet(lost') /\ Cardinality(lost') = Cardinality(lost) + 1
  BY <1>1, <1>2, HeldFacts, FS_AddElement, Zenon
<1>4. FType'
  <2>1. held' \subseteq Nat /\ IsFiniteSet(held') /\ lost' \subseteq Nat
    BY <1>1, <1>2, HeldFacts
  <2> QED
    BY <1>1, <1>3, <2>1 DEF FType, FrameInv
<1>5. Unfilled'
  BY <1>1 DEF Unfilled
<1>6. Placed'
  BY <1>1, HeldFacts DEF Placed, FrameInv
<1>7. Counted'
  <2>1. allocated = Cardinality(held') + Cardinality(lost')
    BY <1>1, <1>3, HeldFacts
  <2> QED
    BY <1>1, <2>1 DEF Counted, FrameInv
<1>8. Sound'
  BY <1>1 DEF Sound, FrameInv
<1> QED
  BY <1>4, <1>5, <1>6, <1>7, <1>8 DEF FrameInv

\* Steps that leave the frames alone.
LEMMA QuietFrames ==
  ASSUME FrameInv, UNCHANGED <<map, runs, total, allocated, held, lost>>, phase' # "boot" \/ phase' = phase
  PROVE  FrameInv'
BY DEF FrameInv, FType, Unfilled, Placed, Counted, Sound

\* Every step keeps the invariant.
LEMMA FrameInvStep ==
  ASSUME FrameInv, [Next]_vars
  PROVE  FrameInv'
<1>1. CASE CopyPanics
  BY <1>1, QuietFrames DEF CopyPanics
<1>2. CASE MapRejected
  BY <1>2, QuietFrames DEF MapRejected
<1>3. CASE MapAccepted
  BY <1>3, FillFrames
<1>4. CASE Allocate
  BY <1>4, AllocateFrames
<1>5. CASE Exhausted
  BY <1>5, QuietFrames DEF Exhausted
<1>6. CASE \E f \in held : Deallocate(f)
  BY <1>6, DeallocateFrames
<1>7. CASE \E f \in held : DeallocateDrops(f)
  BY <1>7, DropFrames
<1>8. CASE UNCHANGED vars
  BY <1>8, QuietFrames DEF vars
<1> QED
  BY <1>1, <1>2, <1>3, <1>4, <1>5, <1>6, <1>7, <1>8 DEF Next

\* The invariant holds in every state.
LEMMA FrameInvHolds == Spec => []FrameInv
<1>1. FrameInv /\ [Next]_vars => FrameInv'
  BY FrameInvStep
<1> QED
  BY <1>1, FrameInvInit, PTL DEF Spec

-----------------------------------------------------------------------------
(* The results *)

\* Every frame has one owner: allocate never returns a frame that is in use or
\* lost, and no frame is in two runs, for every map kernel_main accepts.
THEOREM OneOwner == Spec => []NoDoubleHandout
<1>1. FrameInv => NoDoubleHandout
  BY DEF FrameInv, Placed, NoDoubleHandout, Apart, FreeSet, Covered, Upto
<1> QED
  BY <1>1, FrameInvHolds, PTL

\* Every frame that is free or in use lies inside a usable region of the map
\* and above the floor.
THEOREM OnlyUsableFrames == Spec => []FramesAreUsable
<1>1. FrameInv => FramesAreUsable
  BY DEF FrameInv, Sound, Whole, FramesAreUsable, FreeSet, Covered, Upto
<1> QED
  BY <1>1, FrameInvHolds, PTL

\* The counters are exact and the list fits its array.
THEOREM CountersExact == Spec => []Accounting
<1>1. FrameInv => Accounting
  <2> SUFFICES ASSUME FrameInv PROVE Accounting
    OBVIOUS
  <2>1. free_frames(runs) = Cardinality(Covered(runs))
    BY CountFacts DEF FrameInv, FType, Placed
  <2> QED
    BY <2>1 DEF FrameInv, Counted, Accounting
<1> QED
  BY <1>1, FrameInvHolds, PTL

\* When no run comes first, none has a frame.
LEMMA NoneLeft ==
  ASSUME runs \in Seq(RunRec), ~\E i \in 1 .. Len(runs) : FirstNonEmpty(i)
  PROVE  Covered(runs) = {}
<1> DEFINE n == Len(runs)
           S == {i \in 1 .. n : runs[i].count # 0}
<1>1. n \in Nat /\ \A i \in 1 .. n : runs[i] \in RunRec
  OBVIOUS
<1>2. \A i \in 1 .. n : runs[i].start \in Nat /\ runs[i].count \in Nat
  BY <1>1, SMTT(30) DEF RunRec
<1>3. S = {}
  <2> SUFFICES ASSUME S # {} PROVE FALSE
    OBVIOUS
  <2>1. S \subseteq Nat
    BY <1>1
  <2>2. PICK i \in S : \A j \in S : i <= j
    <3> HIDE DEF S
    <3> QED
      BY <2>1, LeastElement, Zenon
  <2>3. runs[i].count > 0
    BY <1>2, <2>2
  <2>4. \A j \in 1 .. (i - 1) : runs[j].count = 0
    BY <1>1, <2>2
  <2> QED
    BY <2>2, <2>3, <2>4 DEF FirstNonEmpty
<1>4. \A i \in 1 .. n : FramesOf(runs[i]) = {}
  <2> TAKE i \in 1 .. n
  <2>1. runs[i].count = 0 /\ runs[i].start \in Nat
    BY <1>2, <1>3
  <2> QED
    BY <2>1 DEF FramesOf
<1> QED
  BY <1>4 DEF Covered, Upto

\* The allocator is a pool of frames: every step fills it, hands out a free
\* frame, takes one back, drops one, or refuses because none is left.
THEOREM AllocatorIsPool == Spec => ImplementsPool
<1>0. FreeSet = Covered(runs) /\ FreeSet' = Covered(runs')
  BY DEF FreeSet, Covered, Upto
<1>1. Init => Pool!PInit
  <2> SUFFICES ASSUME Init PROVE Pool!PInit
    OBVIOUS
  <2>1. Len(<< >>) = 0 /\ 1 .. 0 = {}
    OBVIOUS
  <2>2. Covered(runs) = {}
    BY <2>1 DEF Init, Covered, Upto
  <2> QED
    BY <1>0, <2>2 DEF Init, Pool!PInit
<1>2. FrameInv /\ [Next]_vars => [Pool!PNext]_<<FreeSet, held, answer>>
  <2> SUFFICES ASSUME FrameInv, [Next]_vars
               PROVE  Pool!PNext \/ UNCHANGED <<FreeSet, held, answer>>
    OBVIOUS
  <2>1. CASE CopyPanics \/ MapRejected \/ UNCHANGED vars
    BY <2>1 DEF CopyPanics, MapRejected, vars, FreeSet
  <2>2. CASE MapAccepted
    <3>1. FrameInv'
      BY <2>2, FillFrames
    <3>2. FreeSet' \subseteq Nat
      BY <1>0, <3>1, CountFacts DEF FrameInv, FType, Placed
    <3>3. phase = "boot" /\ held = {} /\ runs = << >>
      BY <2>2 DEF MapAccepted, FrameInv, Unfilled
    <3>4. Len(<< >>) = 0 /\ 1 .. 0 = {}
      OBVIOUS
    <3>5. Covered(runs) = {}
      BY <3>3, <3>4 DEF Covered, Upto
    <3> QED
      BY <1>0, <2>2, <3>2, <3>3, <3>5 DEF MapAccepted, Pool!PNext, Pool!PFill
  <2>3. CASE Allocate
    <3>1. PICK i \in 1 .. Len(runs) :
             /\ FirstNonEmpty(i) /\ runs' = Shorter(runs, i)
             /\ held' = held \cup {runs[i].start} /\ answer' = runs[i].start
      BY <2>3, Zenon DEF Allocate, Shorter
    <3>2. runs \in Seq(RunRec) /\ Apart(runs) /\ runs[i].count > 0
      BY <3>1, Zenon DEF FrameInv, FType, Placed, FirstNonEmpty
    <3>3. Covered(runs') = Covered(runs) \ {runs[i].start} /\ runs[i].start \in Covered(runs)
      BY <3>1, <3>2, TakeFrame
    <3> QED
      BY <1>0, <3>1, <3>3 DEF Pool!PNext, Pool!PAllocate
  <2>4. CASE Exhausted
    <3>1. Covered(runs) = {}
      BY <2>4, NoneLeft DEF Exhausted, FrameInv, FType
    <3> QED
      BY <1>0, <2>4, <3>1 DEF Exhausted, Pool!PNext, Pool!PRefuse
  <2>5. CASE \E f \in held : Deallocate(f)
    <3>1. PICK f \in held : Deallocate(f)
      BY <2>5
    <3>2. Covered(runs') = Covered(runs) \cup {f}
      BY <3>1, DeallocateFrames
    <3> QED
      BY <1>0, <3>1, <3>2 DEF Deallocate, Pool!PNext, Pool!PFree
  <2>6. CASE \E f \in held : DeallocateDrops(f)
    BY <1>0, <2>6 DEF DeallocateDrops, Pool!PNext, Pool!PDrop
  <2> QED
    BY <2>1, <2>2, <2>3, <2>4, <2>5, <2>6 DEF Next
<1> QED
  BY <1>1, <1>2, FrameInvHolds, PTL DEF Spec, ImplementsPool, Pool!PSpec
==============================================================================
