----------------------------- MODULE HeapProofs ------------------------------
(****************************************************************************)
(* No two blocks of the kernel heap ever overlap, for every arena, every set *)
(* of layouts and every sequence of allocations and frees; hence the heap    *)
(* implements the abstract Allocator.  The byte counter is the sum over the  *)
(* live blocks, and live and free bytes add up to the arena.                 *)
(****************************************************************************)
EXTENDS Heap, FoldLemmas, FiniteSetTheorems

-----------------------------------------------------------------------------
(* Sums over finite sets *)

\* Induction over the subsets of a finite set, by size.
LEMMA FiniteInduction ==
  ASSUME NEW S, IsFiniteSet(S), NEW G, {} \in G,
         \A T \in SUBSET S : \A x \in S \ T : T \in G => T \cup {x} \in G
  PROVE  SUBSET S \subseteq G
<1> DEFINE P == {n \in Nat : \A T \in SUBSET S : Cardinality(T) = n => T \in G}
<1>1. \A T \in SUBSET S : IsFiniteSet(T) /\ Cardinality(T) \in Nat
  BY FS_Subset, FS_CardinalityType
<1>2. 0 \in P
  BY <1>1, FS_EmptySet, Zenon
<1>3. ASSUME NEW n \in Nat, n \in P PROVE n + 1 \in P
  <2> SUFFICES ASSUME NEW T \in SUBSET S, Cardinality(T) = n + 1 PROVE T \in G
    OBVIOUS
  <2>1. IsFiniteSet(T) /\ T # {}
    BY <1>1, FS_EmptySet
  <2>2. PICK x \in T : TRUE
    BY <2>1
  <2>3. Cardinality(T \ {x}) = n
    <3>1. Cardinality(T \ {x}) = (IF x \in T THEN Cardinality(T) - 1 ELSE Cardinality(T))
      BY <2>1, FS_RemoveElement, Zenon
    <3> QED
      BY <3>1
  <2>4. T \ {x} \in G
    BY <2>3, <1>3
  <2> QED
    BY <2>2, <2>4
<1>4. Nat \subseteq P
  <2> HIDE DEF P
  <2> QED
    BY <1>2, <1>3, Induction
<1> QED
  BY <1>1, <1>4

-----------------------------------------------------------------------------
(* Sums over a finite set *)

\* f gives every subset of S the sum of the weights of its elements.
Adds(f, w, S) ==
  /\ f \in [SUBSET S -> Nat]
  /\ f[{}] = 0
  /\ \A U \in SUBSET S : \A x \in S \ U : f[U \cup {x}] = f[U] + w[x]

Additive(f, w, S) == IsFiniteSet(S) /\ w \in [S -> Nat] /\ Adds(f, w, S)

\* Sums exist.
LEMMA AdditiveExists ==
  ASSUME NEW S, IsFiniteSet(S), NEW w \in [S -> Nat]
  PROVE  \E f : Additive(f, w, S)
<1> DEFINE G == {T \in SUBSET S : \E f : Adds(f, w, T)}
<1>1. {} \in G
  <2>1. Adds([U \in SUBSET {} |-> 0], w, {})
    BY DEF Adds
  <2> QED
    BY <2>1
<1>2. ASSUME NEW T \in SUBSET S, NEW x \in S \ T, T \in G PROVE T \cup {x} \in G
  <2>1. PICK f : Adds(f, w, T)
    BY <1>2
  <2> DEFINE k(U) == IF x \in U THEN w[x] ELSE 0
             g == [U \in SUBSET (T \cup {x}) |-> f[U \ {x}] + k(U)]
  <2>2. ASSUME NEW U \in SUBSET (T \cup {x})
        PROVE  /\ U \ {x} \in SUBSET T /\ f[U \ {x}] \in Nat /\ k(U) \in Nat
               /\ g[U] = f[U \ {x}] + k(U) /\ g[U] \in Nat
    <3>1. U \ {x} \in SUBSET T /\ k(U) \in Nat
      OBVIOUS
    <3>2. f[U \ {x}] \in Nat
      BY <2>1, <3>1 DEF Adds
    <3>3. g[U] = f[U \ {x}] + k(U)
      OBVIOUS
    <3> HIDE DEF k, g
    <3> QED
      BY <3>1, <3>2, <3>3
  <2>3. g \in [SUBSET (T \cup {x}) -> Nat]
    <3>1. \A U \in SUBSET (T \cup {x}) : f[U \ {x}] + k(U) \in Nat
      BY <2>2, Zenon
    <3> HIDE DEF k
    <3> QED
      BY <3>1
  <2>4. g[{}] = 0
    BY <2>1 DEF Adds
  <2>5. ASSUME NEW U \in SUBSET (T \cup {x}), NEW y \in (T \cup {x}) \ U
        PROVE  g[U \cup {y}] = g[U] + w[y]
    <3>1. /\ g[U \cup {y}] = f[(U \cup {y}) \ {x}] + k(U \cup {y}) /\ g[U] = f[U \ {x}] + k(U)
          /\ f[U \ {x}] \in Nat /\ k(U) \in Nat /\ w[y] \in Nat
      BY <2>2, Zenon
    <3>2. CASE y = x
      <4>1. (U \cup {y}) \ {x} = U \ {x} /\ k(U \cup {y}) = w[y] /\ k(U) = 0
        BY <3>2
      <4> HIDE DEF k, g
      <4> QED
        BY <3>1, <4>1
    <3>3. CASE y # x
      <4>1. /\ (U \cup {y}) \ {x} = (U \ {x}) \cup {y} /\ k(U \cup {y}) = k(U)
            /\ U \ {x} \in SUBSET T /\ y \in T \ (U \ {x})
        BY <3>3
      <4>2. f[(U \ {x}) \cup {y}] = f[U \ {x}] + w[y]
        BY <2>1, <4>1 DEF Adds
      <4> HIDE DEF k, g
      <4> QED
        BY <3>1, <4>1, <4>2, SMTT(30)
    <3> QED
      BY <3>2, <3>3
  <2>6. Adds(g, w, T \cup {x})
    BY <2>3, <2>4, <2>5, Zenon DEF Adds
  <2> QED
    BY <2>6
<1>3. S \in G
  <2> HIDE DEF G
  <2> QED
    BY <1>1, <1>2, FiniteInduction, Zenon
<1> QED
  BY <1>3 DEF Additive

\* The values of an additive function.
LEMMA AdditiveFacts ==
  ASSUME NEW S, NEW w, NEW f, Additive(f, w, S)
  PROVE  /\ f[{}] = 0
         /\ \A U \in SUBSET S : f[U] \in Nat
         /\ \A U \in SUBSET S : \A x \in S \ U : f[U \cup {x}] = f[U] + w[x]
BY DEF Additive, Adds

\* The recursive equation that defines a sum over T.
SumEquation(it, w, T) ==
  it = [s \in SUBSET T |-> IF s = {} THEN 0
                           ELSE w[CHOOSE x \in s : TRUE] + it[s \ {CHOOSE x \in s : TRUE}]]

\* Taking an element off takes its weight off.
LEMMA AdditiveRemove ==
  ASSUME NEW S, NEW w, NEW f, Additive(f, w, S)
  PROVE  \A s \in SUBSET S : \A x \in s :
           /\ f[s] = w[x] + f[s \ {x}]
           /\ w[x] \in Nat /\ f[s \ {x}] \in Nat
<1> SUFFICES ASSUME NEW s \in SUBSET S, NEW x \in s
             PROVE  /\ f[s] = w[x] + f[s \ {x}]
                    /\ w[x] \in Nat /\ f[s \ {x}] \in Nat
  BY Zenon
<1>1. s \ {x} \in SUBSET S /\ x \in S \ (s \ {x}) /\ (s \ {x}) \cup {x} = s
  OBVIOUS
<1>2. /\ f[(s \ {x}) \cup {x}] = f[s \ {x}] + w[x]
      /\ f[s \ {x}] \in Nat /\ w[x] \in Nat
  BY <1>1, Zenon DEF Additive, Adds
<1>3. \A a, b \in Nat : a + b = b + a
  OBVIOUS
<1> QED
  BY <1>1, <1>2, <1>3, Zenon

\* Restricted to the subsets of T, an additive function solves the equation.
LEMMA SumSolvable ==
  ASSUME NEW S, NEW w, NEW f, Additive(f, w, S), NEW T \in SUBSET S
  PROVE  \E it : SumEquation(it, w, T)
<1> DEFINE ch(s) == CHOOSE x \in s : TRUE
           it == [s \in SUBSET T |-> f[s]]
<1>0. \A s \in SUBSET S : \A x \in s :
        /\ f[s] = w[x] + f[s \ {x}]
        /\ w[x] \in Nat /\ f[s \ {x}] \in Nat
  BY AdditiveRemove, Zenon
<1>1. ASSUME NEW s \in SUBSET T
      PROVE  f[s] = (IF s = {} THEN 0 ELSE w[ch(s)] + it[s \ {ch(s)}])
  <2>1. CASE s = {}
    BY <2>1 DEF Additive, Adds
  <2>2. CASE s # {}
    <3>1. ch(s) \in s
      BY <2>2
    <3> HIDE DEF ch
    <3>2. it[s \ {ch(s)}] = f[s \ {ch(s)}] /\ s \in SUBSET S
      OBVIOUS
    <3> HIDE DEF it
    <3>3. f[s] = w[ch(s)] + f[s \ {ch(s)}]
      BY <1>0, <3>1, <3>2
    <3> QED
      BY <2>2, <3>2, <3>3
  <2> QED
    BY <2>1, <2>2
<1>2. it = [s \in SUBSET T |-> IF s = {} THEN 0 ELSE w[ch(s)] + it[s \ {ch(s)}]]
  <2> HIDE DEF ch
  <2> QED
    BY <1>1, Zenon
<1>3. SumEquation(it, w, T)
  BY <1>2, Zenon DEF SumEquation
<1> QED
  BY <1>3

\* Every solution yields the value of the additive function.
LEMMA SumValue ==
  ASSUME NEW S, NEW w, NEW f, Additive(f, w, S),
         NEW T \in SUBSET S, NEW it, SumEquation(it, w, T)
  PROVE  it[T] = f[T]
<1> DEFINE ch(s) == CHOOSE x \in s : TRUE
           P == {n \in Nat : \A s \in SUBSET T : Cardinality(s) = n => it[s] = f[s]}
<1>0. \A s \in SUBSET S : \A x \in s :
        /\ f[s] = w[x] + f[s \ {x}]
        /\ w[x] \in Nat /\ f[s \ {x}] \in Nat
  BY AdditiveRemove, Zenon
<1>1. \A s \in SUBSET T : s # {} => ch(s) \in s
  OBVIOUS
<1>2. \A s \in SUBSET T : it[s] = (IF s = {} THEN 0 ELSE w[ch(s)] + it[s \ {ch(s)}])
  BY DEF SumEquation
<1> HIDE DEF ch
<1>3. \A s \in SUBSET T : IsFiniteSet(s) /\ Cardinality(s) \in Nat
  BY FS_Subset, FS_CardinalityType DEF Additive
<1>4. 0 \in P
  BY <1>2, <1>3, FS_EmptySet, Zenon DEF Additive, Adds
<1>5. ASSUME NEW n \in Nat, n \in P PROVE n + 1 \in P
  <2> SUFFICES ASSUME NEW s \in SUBSET T, Cardinality(s) = n + 1 PROVE it[s] = f[s]
    OBVIOUS
  <2>1. s # {} /\ ch(s) \in s
    <3>1. s # {}
      BY FS_EmptySet
    <3> QED
      BY <1>1, <3>1
  <2>2. Cardinality(s \ {ch(s)}) = n
    <3>1. Cardinality(s \ {ch(s)}) = (IF ch(s) \in s THEN Cardinality(s) - 1 ELSE Cardinality(s))
      BY <1>3, FS_RemoveElement, Zenon
    <3> QED
      BY <2>1, <3>1
  <2>3. it[s \ {ch(s)}] = f[s \ {ch(s)}]
    BY <1>5, <2>2
  <2>4. f[s] = w[ch(s)] + f[s \ {ch(s)}]
    <3>1. s \in SUBSET S
      OBVIOUS
    <3> QED
      BY <1>0, <2>1, <3>1, Zenon
  <2> QED
    BY <1>2, <2>1, <2>3, <2>4
<1>6. Nat \subseteq P
  <2> HIDE DEF P
  <2> QED
    BY <1>4, <1>5, Induction
<1> QED
  BY <1>3, <1>6

\* The sum of the weights of the elements of T.
LEMMA SumOf ==
  ASSUME NEW S, NEW w, NEW f, Additive(f, w, S),
         NEW T \in SUBSET S
  PROVE  MapThenSumSet(LAMBDA x : w[x], T) = f[T]
<1> DEFINE sum == CHOOSE it : SumEquation(it, w, T)
<1>1. MapThenSumSet(LAMBDA x : w[x], T) = sum[T]
  BY Zenon DEF MapThenSumSet, MapThenFoldSet, SumEquation
<1>2. SumEquation(sum, w, T)
  BY SumSolvable, Zenon
<1> HIDE DEF sum
<1>3. sum[T] = f[T]
  BY <1>2, SumValue
<1> QED
  BY <1>1, <1>3

\* Where h sends the elements of A.
ImageOf(h, A) == {h[a] : a \in A}

\* h renames the elements of A to elements of B of the same weight.
Renames(h, A, v, B, w) ==
  /\ h \in [A -> B]
  /\ \A a, b \in A : h[a] = h[b] => a = b
  /\ \A a \in A : v[a] = w[h[a]]

\* Renaming the elements does not change a sum.
LEMMA SumReindexed ==
  ASSUME NEW A, NEW v, NEW g, Additive(g, v, A), NEW B, NEW w, NEW f, Additive(f, w, B),
         NEW h, Renames(h, A, v, B, w)
  PROVE  g[A] = f[ImageOf(h, A)]
<1> DEFINE Image(U) == ImageOf(h, U)
           G == {U \in SUBSET A : g[U] = f[Image(U)]}
<1>1. {} \in G
  <2>1. Image({}) = {}
    BY DEF ImageOf
  <2> QED
    BY <2>1, Zenon DEF Additive, Adds
<1>2. ASSUME NEW U \in SUBSET A, NEW x \in A \ U, U \in G PROVE U \cup {x} \in G
  <2>1. /\ Image(U \cup {x}) = Image(U) \cup {h[x]}
        /\ Image(U) \in SUBSET B /\ h[x] \in B \ Image(U)
    BY DEF ImageOf, Renames
  <2>2. g[U \cup {x}] = g[U] + v[x] /\ v[x] = w[h[x]]
    BY DEF Additive, Adds, Renames
  <2> HIDE DEF Image
  <2>3. f[Image(U) \cup {h[x]}] = f[Image(U)] + w[h[x]]
    BY <2>1 DEF Additive, Adds
  <2> QED
    BY <1>2, <2>1, <2>2, <2>3
<1>3. A \in G
  <2> HIDE DEF G
  <2> QED
    BY <1>1, <1>2, FiniteInduction, Zenon DEF Additive
<1> QED
  BY <1>3

-----------------------------------------------------------------------------

Inv == TypeOK /\ BlocksDisjoint

Live == [addr : Nat, bytes : Nat \ {0}]

\* The parts of BlocksDisjoint, of any free list f and any set L of live blocks.
Sound(b) == Inside(b.addr, b.size) /\ b.size >= NodeSize /\ b.addr % ALIGN = 0

Clear(b, c) == Disjoint(b.addr, b.size, c.addr, c.size)

ClearOfLive(b, L) == \A c \in L : Disjoint(b.addr, b.size, c.addr, Need(c.bytes))

LiveOK(L) ==
  \A b \in L :
    /\ Inside(b.addr, Need(b.bytes))
    /\ b.addr % ALIGN = 0
    /\ \A c \in L : b # c => Disjoint(b.addr, Need(b.bytes), c.addr, Need(c.bytes))

FreeOK(f, L) ==
  \A i \in 1 .. Len(f) :
    /\ Sound(f[i])
    /\ ClearOfLive(f[i], L)
    /\ \A j \in 1 .. Len(f) : i # j => Clear(f[i], f[j])

-----------------------------------------------------------------------------
\* A request is rounded up to a multiple of ALIGN, and takes a header more.
LEMMA NeedFacts ==
  ASSUME NEW n \in Nat \ {0}
  PROVE  /\ align_up(n) \in Nat
         /\ Need(n) \in Nat
         /\ Need(n) >= n + NodeSize
         /\ Need(n) % ALIGN = 0
BY DEF align_up, Need, ALIGN, NodeSize

\* Alignment survives addition.
LEMMA AlignedSum ==
  ASSUME NEW x \in Nat, NEW y \in Nat, x % ALIGN = 0, y % ALIGN = 0
  PROVE  (x + y) % ALIGN = 0
BY DEF ALIGN

\* A function on 1..n is a sequence of length n.
LEMMA FunctionIsSeq ==
  ASSUME NEW S, NEW n \in Nat, NEW f \in [1 .. n -> S]
  PROVE  f \in Seq(S) /\ Len(f) = n
OBVIOUS

\* What the list is after a node was unlinked.
LEMMA UnlinkFacts ==
  ASSUME TypeOK, NEW i \in 1 .. Len(free)
  PROVE  /\ Unlink(i) \in Seq(Blocks)
         /\ Len(Unlink(i)) = Len(free) - 1
         /\ \A k \in 1 .. (Len(free) - 1) :
              Unlink(i)[k] = free[IF k < i THEN k ELSE k + 1]
<1>1. Len(free) - 1 \in Nat /\ Unlink(i) \in [1 .. (Len(free) - 1) -> Blocks]
  BY DEF TypeOK, Unlink
<1>2. Unlink(i) \in Seq(Blocks) /\ Len(Unlink(i)) = Len(free) - 1
  BY <1>1, FunctionIsSeq
<1> QED
  BY <1>1, <1>2 DEF Unlink

\* What the list is after a node was unlinked and its tail became the head.
LEMMA RelinkFacts ==
  ASSUME TypeOK, NEW i \in 1 .. Len(free), NEW b \in Blocks
  PROVE  /\ Relink(i, b) \in Seq(Blocks)
         /\ Len(Relink(i, b)) = Len(free)
         /\ Relink(i, b)[1] = b
         /\ \A k \in 2 .. Len(free) :
              Relink(i, b)[k] = free[IF k <= i THEN k - 1 ELSE k]
<1>1. Len(free) \in Nat /\ Relink(i, b) \in [1 .. Len(free) -> Blocks]
  BY DEF TypeOK, Relink
<1>2. Relink(i, b) \in Seq(Blocks) /\ Len(Relink(i, b)) = Len(free)
  BY <1>1, FunctionIsSeq
<1> QED
  BY <1>1, <1>2 DEF Relink

\* What the list is after a block took the place of the nodes lo..hi.
LEMMA ReplaceFacts ==
  ASSUME TypeOK, NEW lo \in 1 .. (Len(free) + 1), NEW hi \in 0 .. Len(free),
         hi >= lo - 1, NEW b \in Blocks
  PROVE  /\ Replace(lo, hi, b) \in Seq(Blocks)
         /\ Len(Replace(lo, hi, b)) = Len(free) - hi + lo
         /\ Replace(lo, hi, b)[lo] = b
         /\ \A k \in 1 .. (Len(free) - hi + lo) :
              k # lo => Replace(lo, hi, b)[k] = free[IF k < lo THEN k ELSE k + hi - lo]
<1>1. Len(free) - hi + lo \in Nat /\ lo \in 1 .. (Len(free) - hi + lo)
  BY DEF TypeOK
<1>2. Replace(lo, hi, b) \in [1 .. (Len(free) - hi + lo) -> Blocks]
  BY DEF TypeOK, Replace
<1>3. Replace(lo, hi, b) \in Seq(Blocks) /\ Len(Replace(lo, hi, b)) = Len(free) - hi + lo
  BY <1>1, <1>2, FunctionIsSeq
<1>4. Replace(lo, hi, b)[lo] = b
  BY <1>1 DEF Replace
<1>5. ASSUME NEW k \in 1 .. (Len(free) - hi + lo), k # lo
      PROVE  Replace(lo, hi, b)[k] = free[IF k < lo THEN k ELSE k + hi - lo]
  BY <1>1, <1>5 DEF Replace
<1> QED
  BY <1>3, <1>4, <1>5

\* BlocksDisjoint is made of these parts, before and after a step.
LEMMA Parts ==
  /\ BlocksDisjoint <=> FreeOK(free, live) /\ LiveOK(live)
  /\ BlocksDisjoint' <=> FreeOK(free', live') /\ LiveOK(live')
BY DEF BlocksDisjoint, FreeOK, LiveOK, Sound, Clear, ClearOfLive

\* Every operation rearranges the list: the new list f consists of old nodes,
\* each at most once (org[k] is where f[k] was), and of at most one new node t.
Rearranges(f, L, t, org) ==
  /\ Len(f) \in Nat /\ Len(free) \in Nat
  /\ org \in [1 .. Len(f) -> 0 .. Len(free)]
  /\ \A k, m \in 1 .. Len(f) : org[k] = org[m] => k = m
  /\ \A k \in 1 .. Len(f) :
       /\ org[k] = 0 => f[k] = t /\ Sound(t) /\ ClearOfLive(t, L)
       /\ org[k] # 0 => f[k] = free[org[k]] /\ ClearOfLive(f[k], L)
  /\ \A k, m \in 1 .. Len(f) :
       org[k] = 0 /\ org[m] # 0 => Clear(t, free[org[m]]) /\ Clear(free[org[m]], t)

\* A rearranged list is as disjoint as the old one.
LEMMA Rearranged ==
  ASSUME NEW f, NEW L, NEW t, NEW org, Rearranges(f, L, t, org), FreeOK(free, live)
  PROVE  FreeOK(f, L)
<1> USE DEF Rearranges
<1> SUFFICES ASSUME NEW k \in 1 .. Len(f)
             PROVE  /\ Sound(f[k])
                    /\ ClearOfLive(f[k], L)
                    /\ \A m \in 1 .. Len(f) : k # m => Clear(f[k], f[m])
  BY DEF FreeOK
<1>1. Sound(f[k]) /\ ClearOfLive(f[k], L)
  BY DEF FreeOK
<1>2. ASSUME NEW m \in 1 .. Len(f), k # m
      PROVE  Clear(f[k], f[m])
  <2>1. CASE org[k] = 0
    BY <2>1, <1>2
  <2>2. CASE org[m] = 0
    BY <2>2, <1>2
  <2>3. CASE org[k] # 0 /\ org[m] # 0
    BY <2>3, <1>2 DEF FreeOK
  <2> QED
    BY <2>1, <2>2, <2>3
<1> QED
  BY <1>1, <1>2

\* What is clear of an interval is clear of its parts.
LEMMA Part ==
  ASSUME NEW a \in Nat, NEW m \in Nat, NEW t \in Nat, NEW k \in Nat,
         NEW c \in Nat, NEW n \in Nat, a <= t, t + k <= a + m, Disjoint(a, m, c, n)
  PROVE  Disjoint(t, k, c, n) /\ Disjoint(c, n, t, k)
BY DEF Disjoint

-----------------------------------------------------------------------------
\* A request takes the front of one free block; the rest of it stays free or
\* becomes slack.
LEMMA AllocStep ==
  ASSUME Inv, NEW layout \in Layouts, AllocLayout(layout)
  PROVE  Inv'
<1> DEFINE n == layout.bytes
<1>0. n \in Nat \ {0}
  BY LayoutsAssumption
<1>1. PICK i \in 1 .. Len(free) :
        /\ FirstFit(i, n)
        /\ \/ /\ TailNode(free[i], n).size >= NodeSize
              /\ free' = Relink(i, TailNode(free[i], n)) /\ slack' = slack
           \/ /\ TailNode(free[i], n).size < NodeSize
              /\ free' = Unlink(i) /\ slack' = slack + TailNode(free[i], n).size
        /\ live' = live \cup {[addr |-> free[i].addr, bytes |-> n]}
  BY DEF AllocLayout
<1> DEFINE a == free[i].addr
           tail == TailNode(free[i], n)
           b == [addr |-> a, bytes |-> n]
<1>2. /\ a \in Nat /\ free[i].size \in Nat /\ free[i].size >= Need(n)
      /\ Need(n) \in Nat /\ Need(n) % ALIGN = 0
      /\ align_up(n) \in Nat
  <2>1. free[i] \in Blocks
    BY DEF Inv, TypeOK
  <2>2. a \in Nat /\ free[i].size \in Nat
    BY <2>1 DEF Blocks
  <2>3. Need(n) \in Nat /\ Need(n) % ALIGN = 0 /\ align_up(n) \in Nat
    BY <1>0, NeedFacts
  <2> QED
    BY <1>1, <2>2, <2>3 DEF FirstFit
<1>3. /\ tail \in Blocks /\ tail.size \in Nat /\ tail.addr = a + Need(n)
      /\ tail.addr + tail.size = a + free[i].size
  BY <1>2 DEF TailNode, Blocks
<1>4. b \in Live /\ b.addr = a /\ b.bytes = n
  BY <1>0, <1>2 DEF Live
<1>5. used' \in Nat
  BY <1>2 DEF AllocLayout, Inv, TypeOK
<1>6. live' \subseteq Live
  BY <1>1, <1>4 DEF Inv, TypeOK, Live
<1>7. TypeOK'
  <2>1. CASE free' = Relink(i, tail) /\ slack' = slack
    BY <2>1, <1>3, <1>5, <1>6, RelinkFacts DEF Inv, TypeOK, Live
  <2>2. CASE free' = Unlink(i) /\ slack' = slack + tail.size
    <3>1. slack' \in Nat
      BY <2>2, <1>3 DEF Inv, TypeOK
    <3>2. free' \in Seq(Blocks)
      BY <2>2, UnlinkFacts DEF Inv
    <3> QED
      BY <3>1, <3>2, <1>5, <1>6 DEF TypeOK, Live
  <2> QED
    BY <2>1, <2>2, <1>1
<1>8. BlocksDisjoint'
  <2>1. FreeOK(free, live) /\ LiveOK(live)
    BY Parts DEF Inv
  <2>2. live \subseteq Live /\ Len(free) \in Nat
    BY DEF Inv, TypeOK, Live
  <2>3. /\ Inside(a, free[i].size) /\ a % ALIGN = 0
        /\ \A c \in live : Disjoint(a, free[i].size, c.addr, Need(c.bytes))
        /\ \A j \in 1 .. Len(free) : j # i =>
             Disjoint(a, free[i].size, free[j].addr, free[j].size)
    BY <2>1 DEF FreeOK, Sound, Clear, ClearOfLive
  <2>4. \A c \in live : c.addr \in Nat /\ c.bytes \in Nat \ {0} /\ Need(c.bytes) \in Nat
    BY <2>2, NeedFacts DEF Live
  <2>5. \A j \in 1 .. Len(free) : free[j].addr \in Nat /\ free[j].size \in Nat
    <3>1. \A j \in 1 .. Len(free) : free[j] \in Blocks
      BY DEF Inv, TypeOK
    <3> QED
      BY <3>1 DEF Blocks
  <2>6. LiveOK(live')
    <3>1. Inside(a, Need(n))
      BY <1>2, <2>3, ArenaAssumption DEF Inside
    <3>2. \A c \in live : /\ Disjoint(a, Need(n), c.addr, Need(c.bytes))
                          /\ Disjoint(c.addr, Need(c.bytes), a, Need(n))
      BY <1>2, <2>3, <2>4, SMTT(30) DEF Disjoint
    <3> QED
      BY <1>1, <1>4, <2>1, <2>3, <3>1, <3>2 DEF LiveOK
  <2>7. \A j \in 1 .. Len(free) : j # i => ClearOfLive(free[j], live')
    <3> SUFFICES ASSUME NEW j \in 1 .. Len(free), j # i
                 PROVE  ClearOfLive(free[j], live')
      OBVIOUS
    <3>1. Disjoint(free[j].addr, free[j].size, a, Need(n))
      BY <1>2, <2>3, <2>5, SMTT(30) DEF Disjoint
    <3>2. ClearOfLive(free[j], live)
      BY <2>1 DEF FreeOK
    <3> QED
      BY <1>1, <1>4, <3>1, <3>2 DEF ClearOfLive
  <2>8. CASE free' = Unlink(i)
    <3> DEFINE org == [k \in 1 .. (Len(free) - 1) |-> IF k < i THEN k ELSE k + 1]
    <3>1. /\ Len(free') = Len(free) - 1
          /\ \A k \in 1 .. Len(free') : free'[k] = free[org[k]]
      BY <2>8, UnlinkFacts, Zenon DEF Inv
    <3>2. Len(free') \in Nat
      BY <3>1, <2>2
    <3>3. org \in [1 .. Len(free') -> 0 .. Len(free)]
      BY <3>1, <2>2
    <3>4. \A k \in 1 .. Len(free') : org[k] # 0 /\ org[k] # i /\ org[k] \in 1 .. Len(free)
      BY <3>1, <2>2
    <3>5. \A k, m \in 1 .. Len(free') : org[k] = org[m] => k = m
      BY <3>1, <2>2
    <3> HIDE DEF org
    <3>6. \A k \in 1 .. Len(free') : ClearOfLive(free'[k], live')
      BY <3>1, <3>4, <2>7
    <3>7. \A k \in 1 .. Len(free') :
            /\ org[k] = 0 => free'[k] = tail /\ Sound(tail) /\ ClearOfLive(tail, live')
            /\ org[k] # 0 => free'[k] = free[org[k]] /\ ClearOfLive(free'[k], live')
      BY <3>1, <3>4, <3>6
    <3>8. \A k, m \in 1 .. Len(free') :
            org[k] = 0 /\ org[m] # 0 =>
              Clear(tail, free[org[m]]) /\ Clear(free[org[m]], tail)
      BY <3>4
    <3>9. Rearranges(free', live', tail, org)
      BY <3>2, <3>3, <3>5, <3>7, <3>8, <2>2, Zenon DEF Rearranges
    <3> QED
      BY <3>9, <2>1, <2>6, Parts, Rearranged
  <2>9. CASE free' = Relink(i, tail) /\ tail.size >= NodeSize
    <3> DEFINE org == [k \in 1 .. Len(free) |->
                         IF k = 1 THEN 0 ELSE IF k <= i THEN k - 1 ELSE k]
    <3>1. /\ Len(free') = Len(free)
          /\ free'[1] = tail
          /\ \A k \in 1 .. Len(free') : k # 1 => free'[k] = free[org[k]]
      <4> HIDE DEF tail
      <4>1. /\ Len(free') = Len(free)
            /\ free'[1] = tail
            /\ \A k \in 2 .. Len(free) : free'[k] = free[IF k <= i THEN k - 1 ELSE k]
        BY <2>9, <1>3, RelinkFacts, Zenon DEF Inv
      <4>2. ASSUME NEW k \in 1 .. Len(free'), k # 1
            PROVE  free'[k] = free[org[k]]
        <5>1. k \in 2 .. Len(free) /\ org[k] = IF k <= i THEN k - 1 ELSE k
          BY <4>1, <4>2, <2>2
        <5> QED
          BY <4>1, <5>1
      <4> QED
        BY <4>1, <4>2
    <3>2. org \in [1 .. Len(free') -> 0 .. Len(free)]
      BY <3>1, <2>2
    <3>3. \A k \in 1 .. Len(free') :
            /\ org[k] = 0 <=> k = 1
            /\ org[k] # 0 => org[k] # i /\ org[k] \in 1 .. Len(free)
      BY <3>1, <2>2
    <3>4. \A k, m \in 1 .. Len(free') : org[k] = org[m] => k = m
      BY <3>1, <2>2
    <3> HIDE DEF org
    <3>5. Sound(tail)
      <4> HIDE DEF tail, a
      <4>1. tail.addr % ALIGN = 0
        BY <1>2, <1>3, <2>3, AlignedSum
      <4>2. Inside(tail.addr, tail.size)
        BY <1>2, <1>3, <2>3, ArenaAssumption DEF Inside
      <4> QED
        BY <4>1, <4>2, <2>9 DEF Sound
    <3>6. ClearOfLive(tail, live')
      <4>1. ClearOfLive(tail, live)
        BY <1>2, <1>3, <2>3, <2>4, SMTT(30) DEF ClearOfLive, Disjoint
      <4>2. Disjoint(tail.addr, tail.size, a, Need(n))
        BY <1>2, <1>3 DEF Disjoint
      <4> QED
        BY <4>1, <4>2, <1>1, <1>4, SMTT(30) DEF ClearOfLive
    <3>7. \A j \in 1 .. Len(free) : j # i => Clear(tail, free[j]) /\ Clear(free[j], tail)
      <4> SUFFICES ASSUME NEW j \in 1 .. Len(free), j # i
                   PROVE  Clear(tail, free[j]) /\ Clear(free[j], tail)
        OBVIOUS
      <4> HIDE DEF tail, a
      <4>1. free[j].addr \in Nat /\ free[j].size \in Nat /\ free[i].size \in Nat
        BY <2>5
      <4>2. Disjoint(a, free[i].size, free[j].addr, free[j].size)
        BY <2>3
      <4>3. /\ a \in Nat /\ tail.addr \in Nat /\ tail.size \in Nat
            /\ a <= tail.addr /\ tail.addr + tail.size <= a + free[i].size
        BY <1>2, <1>3, <4>1, SMTT(30)
      <4> QED
        <5>1. /\ Disjoint(tail.addr, tail.size, free[j].addr, free[j].size)
              /\ Disjoint(free[j].addr, free[j].size, tail.addr, tail.size)
          <6> DEFINE t == tail.addr
                     k == tail.size
                     m == free[i].size
                     c == free[j].addr
                     d == free[j].size
          <6>1. /\ a \in Nat /\ m \in Nat /\ t \in Nat /\ k \in Nat /\ c \in Nat /\ d \in Nat
                /\ a <= t /\ t + k <= a + m /\ Disjoint(a, m, c, d)
            BY <4>1, <4>2, <4>3
          <6> HIDE DEF t, k, m, c, d
          <6>2. Disjoint(t, k, c, d) /\ Disjoint(c, d, t, k)
            BY <6>1, Part, Zenon
          <6> QED
            BY <6>2 DEF t, k, m, c, d
        <5> QED
          BY <5>1 DEF Clear
    <3>8. \A k \in 1 .. Len(free') :
            /\ org[k] = 0 => free'[k] = tail /\ Sound(tail) /\ ClearOfLive(tail, live')
            /\ org[k] # 0 => free'[k] = free[org[k]] /\ ClearOfLive(free'[k], live')
      BY <3>1, <3>3, <3>5, <3>6, <2>7
    <3>9. \A k, m \in 1 .. Len(free') :
            org[k] = 0 /\ org[m] # 0 =>
              Clear(tail, free[org[m]]) /\ Clear(free[org[m]], tail)
      BY <3>3, <3>7, SMTT(30)
    <3>10. Rearranges(free', live', tail, org)
      BY <3>1, <3>2, <3>4, <3>8, <3>9, <2>2, Zenon DEF Rearranges
    <3> QED
      BY <3>10, <2>1, <2>6, Parts, Rearranged
  <2> QED
    BY <1>1, <2>8, <2>9
<1> QED
  BY <1>7, <1>8 DEF Inv

-----------------------------------------------------------------------------
\* What is clear of two adjacent intervals is clear of their union.
LEMMA Join ==
  ASSUME NEW x \in Nat, NEW n \in Nat \ {0}, NEW a \in Nat, NEW p \in Nat, NEW q \in Nat,
         Disjoint(x, n, a, p), Disjoint(x, n, a + p, q)
  PROVE  Disjoint(x, n, a, p + q) /\ Disjoint(a, p + q, x, n)
BY DEF Disjoint

\* A freed block and the list neighbours it touches become one free block.
LEMMA DeallocStep ==
  ASSUME Inv, NEW b \in live, DeallocLayout(b)
  PROVE  Inv'
<1>0. /\ free \in Seq(Blocks) /\ Len(free) \in Nat /\ live \subseteq Live
      /\ FreeOK(free, live) /\ LiveOK(live)
  BY Parts DEF Inv, TypeOK, Live
<1>1. PICK i \in 1 .. (Len(free) + 1) :
        free' = Replace(IF JoinsLeft(i, b) THEN i - 1 ELSE i,
                        IF JoinsRight(i, b) THEN i ELSE i - 1,
                        Merged(i, b))
  BY DEF DeallocLayout
<1> DEFINE left == JoinsLeft(i, b)
           right == JoinsRight(i, b)
           lo == IF left THEN i - 1 ELSE i
           hi == IF right THEN i ELSE i - 1
           t == Merged(i, b)
           size == Need(b.bytes)
<1>2. \A j \in 1 .. Len(free) : /\ free[j].addr \in Nat /\ free[j].size \in Nat \ {0}
                                /\ Sound(free[j]) /\ ClearOfLive(free[j], live)
  <2>1. \A j \in 1 .. Len(free) : free[j] \in Blocks
    BY <1>0
  <2>2. \A j \in 1 .. Len(free) : Sound(free[j]) /\ ClearOfLive(free[j], live)
    BY <1>0 DEF FreeOK
  <2> QED
    BY <2>1, <2>2 DEF Blocks, Sound, NodeSize
<1>3. \A c \in live : c.addr \in Nat /\ Need(c.bytes) \in Nat \ {0} /\ Need(c.bytes) >= NodeSize
  <2> SUFFICES ASSUME NEW c \in live
               PROVE  c.addr \in Nat /\ Need(c.bytes) \in Nat \ {0} /\ Need(c.bytes) >= NodeSize
    OBVIOUS
  <2>1. c.addr \in Nat /\ c.bytes \in Nat \ {0}
    BY <1>0 DEF Live
  <2>2. Need(c.bytes) \in Nat /\ Need(c.bytes) >= c.bytes + NodeSize
    BY <2>1, NeedFacts
  <2> QED
    BY <2>1, <2>2 DEF NodeSize
<1>4. /\ left => i - 1 \in 1 .. Len(free) /\ free[i - 1].addr + free[i - 1].size = b.addr
      /\ right => i \in 1 .. Len(free) /\ b.addr + size = free[i].addr
  BY <1>0 DEF JoinsLeft, JoinsRight
<1>5. /\ lo \in 1 .. (Len(free) + 1) /\ hi \in 0 .. Len(free) /\ hi >= lo - 1
      /\ left <=> lo = i - 1
      /\ right <=> hi = i
      /\ lo \in {i - 1, i} /\ hi \in {i - 1, i}
  BY <1>0, <1>4
<1>6. /\ t.addr = IF left THEN free[i - 1].addr ELSE b.addr
      /\ t.size = (IF left THEN free[i - 1].size ELSE 0) + size
                   + (IF right THEN free[i].size ELSE 0)
      /\ t = [addr |-> t.addr, size |-> t.size]
  BY DEF Merged
<1>7. t.addr \in Nat /\ t.size \in Nat /\ t \in Blocks
  BY <1>2, <1>3, <1>4, <1>6, SMTT(30) DEF Blocks
<1>8. free' = Replace(lo, hi, t)
  BY <1>1
<1>9. live' = live \ {b} /\ LiveOK(live') /\ live' \subseteq Live
  BY <1>0 DEF DeallocLayout, LiveOK
<1> HIDE DEF left, right, lo, hi, t, size
\* What is clear of the parts of the merged block is clear of it.
<1>10. ASSUME NEW x \in Nat, NEW n \in Nat \ {0},
              Disjoint(x, n, b.addr, size),
              left => Disjoint(x, n, free[i - 1].addr, free[i - 1].size),
              right => Disjoint(x, n, free[i].addr, free[i].size)
       PROVE  Disjoint(x, n, t.addr, t.size) /\ Disjoint(t.addr, t.size, x, n)
  <2> DEFINE p == (IF left THEN free[i - 1].size ELSE 0) + size
  <2>1. b.addr \in Nat /\ size \in Nat
    BY <1>3 DEF size
  <2>2. /\ Disjoint(x, n, t.addr, p) /\ Disjoint(t.addr, p, x, n)
        /\ p \in Nat /\ t.addr + p = b.addr + size
    <3>1. CASE left
      <4>1. /\ p = free[i - 1].size + size /\ t.addr = free[i - 1].addr
            /\ free[i - 1].addr \in Nat /\ free[i - 1].size \in Nat
            /\ free[i - 1].addr + free[i - 1].size = b.addr
        BY <3>1, <1>2, <1>4, <1>6
      <4>2. /\ Disjoint(x, n, t.addr, free[i - 1].size)
            /\ Disjoint(x, n, t.addr + free[i - 1].size, size)
        BY <3>1, <4>1, <1>10
      <4>3. Disjoint(x, n, t.addr, p) /\ Disjoint(t.addr, p, x, n)
        BY <4>1, <4>2, <2>1, <1>7, Join, Zenon
      <4> DEFINE f == free[i - 1].size
      <4>4. p \in Nat /\ t.addr + p = b.addr + size
        <5>1. p = f + size /\ f \in Nat /\ t.addr + f = b.addr
          BY <4>1
        <5> HIDE DEF p, f
        <5> QED
          BY <5>1, <2>1, <1>7
      <4> QED
        BY <4>3, <4>4
    <3>2. CASE ~left
      BY <3>2, <1>6, <1>10, <2>1 DEF Disjoint
    <3> QED
      BY <3>1, <3>2
  <2> HIDE DEF p
  <2>3. CASE right
    <3>1. t.size = p + free[i].size /\ free[i].addr = t.addr + p /\ free[i].size \in Nat
      BY <2>3, <1>2, <1>4, <1>6, <2>2 DEF p
    <3>2. Disjoint(x, n, t.addr + p, free[i].size)
      BY <2>3, <3>1, <1>10
    <3> DEFINE y == t.addr
               q == free[i].size
    <3>3. /\ y \in Nat /\ p \in Nat /\ q \in Nat
          /\ Disjoint(x, n, y, p) /\ Disjoint(x, n, y + p, q)
      BY <3>1, <3>2, <2>2, <1>7
    <3> HIDE DEF y, q
    <3>4. Disjoint(x, n, y, p + q) /\ Disjoint(y, p + q, x, n)
      BY <3>3, Join, Zenon
    <3> QED
      BY <3>1, <3>4 DEF y, q
  <2>4. CASE ~right
    <3>1. t.size = p
      BY <2>4, <1>6, <2>2 DEF p
    <3> QED
      BY <3>1, <2>2, Zenon
  <2> QED
    BY <2>3, <2>4
<1>11. Sound(t)
  <2>1. Inside(b.addr, size) /\ b.addr % ALIGN = 0
    BY <1>0 DEF LiveOK, size
  <2>2. t.addr % ALIGN = 0
    BY <2>1, <1>2, <1>4, <1>6 DEF Sound
  <2>3. size \in Nat /\ size >= NodeSize /\ b.addr \in Nat
    BY <1>3 DEF size
  <2>4. t.size >= NodeSize
    BY <2>3, <1>2, <1>4, <1>6 DEF NodeSize
  <2>5. Inside(t.addr, t.size)
    <3>1. Base <= t.addr
      BY <2>1, <1>2, <1>4, <1>6 DEF Sound, Inside
    <3>2. t.addr + t.size = b.addr + size + (IF right THEN free[i].size ELSE 0)
      <4>1. left => /\ free[i - 1].addr \in Nat /\ free[i - 1].size \in Nat
                    /\ free[i - 1].addr + free[i - 1].size = b.addr
        BY <1>2, <1>4
      <4> DEFINE before == IF left THEN free[i - 1].size ELSE 0
                 after == IF right THEN free[i].size ELSE 0
      <4>2. after \in Nat
        BY <1>2, <1>4
      <4>3. t.addr + before = b.addr
        BY <4>1, <1>6, <2>3
      <4>4. before \in Nat
        BY <4>1
      <4>5. t.size = before + size + after
        BY <1>6
      <4> HIDE DEF before, after
      <4>6. t.addr + t.size = b.addr + size + after
        BY <4>2, <4>3, <4>4, <4>5, <1>7, <2>3, SMTT(30)
      <4> QED
        BY <4>6 DEF after
    <3>3. right => free[i].addr + free[i].size <= Base + Size
      BY <1>2, <1>4 DEF Sound, Inside
    <3>4. t.addr + t.size <= Base + Size
      BY <2>1, <2>3, <3>2, <3>3, <1>2, <1>4, ArenaAssumption, SMTT(30) DEF Inside
    <3> QED
      BY <3>1, <3>4 DEF Inside
  <2> QED
    BY <2>2, <2>4, <2>5 DEF Sound
<1>12. ClearOfLive(t, live')
  <2> SUFFICES ASSUME NEW c \in live, c # b
               PROVE  Disjoint(t.addr, t.size, c.addr, Need(c.bytes))
    BY <1>9 DEF ClearOfLive
  <2>1. Disjoint(c.addr, Need(c.bytes), b.addr, size)
    BY <1>0, Zenon DEF LiveOK, size
  <2>2. \A j \in 1 .. Len(free) :
          Disjoint(c.addr, Need(c.bytes), free[j].addr, free[j].size)
    BY <1>2, <1>3, Zenon DEF ClearOfLive, Disjoint
  <2> QED
    BY <2>1, <2>2, <1>3, <1>4, <1>10
<1>13. \A j \in 1 .. Len(free) : j \notin lo .. hi => Clear(t, free[j]) /\ Clear(free[j], t)
  <2> SUFFICES ASSUME NEW j \in 1 .. Len(free), j \notin lo .. hi
               PROVE  Clear(t, free[j]) /\ Clear(free[j], t)
    OBVIOUS
  <2>1. Disjoint(free[j].addr, free[j].size, b.addr, size)
    BY <1>2 DEF ClearOfLive, size
  <2>2. left => j # i - 1
    BY <1>4, <1>5
  <2>3. right => j # i
    BY <1>4, <1>5
  <2>4. \A k \in 1 .. Len(free) :
          k # j => Disjoint(free[j].addr, free[j].size, free[k].addr, free[k].size)
    BY <1>0 DEF FreeOK, Clear
  <2> QED
    BY <2>1, <2>2, <2>3, <2>4, <1>2, <1>4, <1>10 DEF Clear
<1> DEFINE org == [k \in 1 .. (Len(free) - hi + lo) |->
                     IF k < lo THEN k ELSE IF k = lo THEN 0 ELSE k + hi - lo]
<1>14. /\ free' \in Seq(Blocks)
       /\ Len(free') = Len(free) - hi + lo
       /\ free'[lo] = t
       /\ \A k \in 1 .. Len(free') :
            k # lo => free'[k] = free[IF k < lo THEN k ELSE k + hi - lo]
  <2>1. /\ Replace(lo, hi, t) \in Seq(Blocks)
        /\ Len(Replace(lo, hi, t)) = Len(free) - hi + lo
        /\ Replace(lo, hi, t)[lo] = t
        /\ \A k \in 1 .. (Len(free) - hi + lo) :
             k # lo => Replace(lo, hi, t)[k] = free[IF k < lo THEN k ELSE k + hi - lo]
    <3>1. TypeOK
      BY DEF Inv
    <3>2. lo \in 1 .. (Len(free) + 1) /\ hi \in 0 .. Len(free) /\ hi >= lo - 1 /\ t \in Blocks
      BY <1>5, <1>7
    <3> QED
      BY <3>1, <3>2, ReplaceFacts, Zenon
  <2> QED
    BY <2>1, <1>8, Zenon
<1>15. Len(free') \in Nat /\ org \in [1 .. Len(free') -> 0 .. Len(free)]
  BY <1>0, <1>5, <1>14, SMTT(30)
<1>16. \A k \in 1 .. Len(free') :
         /\ org[k] = 0 <=> k = lo
         /\ k # lo => /\ org[k] \in 1 .. Len(free)
                      /\ org[k] \notin lo .. hi
                      /\ org[k] = IF k < lo THEN k ELSE k + hi - lo
  BY <1>0, <1>5, <1>14
<1>17. \A k, m \in 1 .. Len(free') : org[k] = org[m] => k = m
  BY <1>0, <1>5, <1>14
<1> HIDE DEF org
<1>18. \A k \in 1 .. Len(free') : org[k] # 0 => free'[k] = free[org[k]]
  BY <1>14, <1>16
<1>19. \A j \in 1 .. Len(free) : ClearOfLive(free[j], live')
  BY <1>2, <1>9 DEF ClearOfLive
<1>20. \A k \in 1 .. Len(free') :
         /\ org[k] = 0 => free'[k] = t /\ Sound(t) /\ ClearOfLive(t, live')
         /\ org[k] # 0 => free'[k] = free[org[k]] /\ ClearOfLive(free'[k], live')
  BY <1>11, <1>12, <1>14, <1>16, <1>18, <1>19
<1>21. \A k, m \in 1 .. Len(free') :
         org[k] = 0 /\ org[m] # 0 => Clear(t, free[org[m]]) /\ Clear(free[org[m]], t)
  BY <1>13, <1>16, SMTT(30)
<1>22. Rearranges(free', live', t, org)
  BY <1>0, <1>15, <1>17, <1>20, <1>21, Zenon DEF Rearranges
<1>23. BlocksDisjoint'
  BY <1>22, <1>0, <1>9, Parts, Rearranged
<1>24. used' \in Nat /\ slack' \in Nat
  <2>1. b.bytes \in Nat \ {0} /\ align_up(b.bytes) \in Nat
    BY <1>0, NeedFacts DEF Live
  <2> QED
    BY <2>1 DEF DeallocLayout, Deduct, Inv, TypeOK
<1> QED
  BY <1>9, <1>14, <1>23, <1>24 DEF Inv, TypeOK, Live

-----------------------------------------------------------------------------
\* The invariant holds of the fresh arena and is kept by every operation.
THEOREM Inductive == Spec => []Inv
<1>1. Init => Inv
  <2> SUFFICES ASSUME Init PROVE Inv
    OBVIOUS
  <2>1. [addr |-> Base, size |-> Size] \in Blocks
    BY ArenaAssumption DEF Blocks
  <2>2. free \in Seq(Blocks) /\ Len(free) = 1 /\ free[1] = [addr |-> Base, size |-> Size]
    BY <2>1 DEF Init
  <2>3. TypeOK
    BY <2>2 DEF Init, TypeOK
  <2>4. Inside(Base, Size) /\ Size >= NodeSize /\ Base % ALIGN = 0
    BY ArenaAssumption DEF Inside
  <2>5. BlocksDisjoint
    BY <2>2, <2>4 DEF Init, BlocksDisjoint
  <2> QED
    BY <2>3, <2>5 DEF Inv
<1>2. Inv /\ [Next]_vars => Inv'
  <2> SUFFICES ASSUME Inv, [Next]_vars PROVE Inv'
    OBVIOUS
  <2>1. CASE UNCHANGED vars
    BY <2>1 DEF vars, Inv, TypeOK, BlocksDisjoint
  <2>2. CASE \E layout \in Layouts : AllocLayout(layout)
    BY <2>2, AllocStep
  <2>3. CASE \E layout \in Layouts : AllocFails(layout)
    BY <2>1, <2>3 DEF AllocFails
  <2>4. CASE \E b \in live : DeallocLayout(b)
    BY <2>4, DeallocStep
  <2> QED
    BY <2>1, <2>2, <2>3, <2>4 DEF Next
<1> QED
  BY <1>1, <1>2, PTL DEF Spec

\* The heap's variables keep their types.
THEOREM TypeCorrect == Spec => []TypeOK
<1>1. Inv => TypeOK
  BY DEF Inv
<1> QED
  BY <1>1, Inductive, PTL

\* No byte of the arena belongs to two blocks, whatever is allocated and freed.
THEOREM NoOverlap == Spec => []BlocksDisjoint
<1>1. Inv => BlocksDisjoint
  BY DEF Inv
<1> QED
  BY <1>1, Inductive, PTL

-----------------------------------------------------------------------------
(* Refinement: the payloads form an abstract Allocator. *)

Payloads == {Payload(b) : b \in live}

\* Payload is injective on live blocks and shows where the client's bytes are.
LEMMA PayloadFacts ==
  ASSUME NEW b \in Live, NEW c \in Live
  PROVE  /\ Payload(b) = Payload(c) => b = c
         /\ Payload(b).ptr = b.addr + NodeSize
         /\ Payload(b).bytes = b.bytes
<1>1. /\ b = [addr |-> b.addr, bytes |-> b.bytes] /\ b.addr \in Nat
      /\ c = [addr |-> c.addr, bytes |-> c.bytes] /\ c.addr \in Nat
  BY DEF Live
<1>2. /\ Payload(b).ptr = b.addr + NodeSize /\ Payload(b).bytes = b.bytes
      /\ Payload(c).ptr = c.addr + NodeSize /\ Payload(c).bytes = c.bytes
  BY DEF Payload
<1>3. ASSUME Payload(b) = Payload(c) PROVE b = c
  <2>1. b.addr + NodeSize = c.addr + NodeSize /\ b.bytes = c.bytes
    BY <1>2, <1>3
  <2>2. b.addr = c.addr
    BY <2>1, <1>1 DEF NodeSize
  <2> QED
    BY <2>1, <2>2, <1>1
<1> QED
  BY <1>2, <1>3

\* The payloads of disjoint blocks are apart.
LEMMA PayloadsApart ==
  ASSUME NEW a \in Nat, NEW c \in Nat, NEW m \in Nat, NEW n \in Nat,
         NEW A \in Nat, NEW C \in Nat, A >= m + NodeSize, C >= n + NodeSize,
         Disjoint(a, A, c, C)
  PROVE  \/ a + NodeSize + m <= c + NodeSize
         \/ c + NodeSize + n <= a + NodeSize
BY DEF Disjoint, NodeSize

\* An allocation is an abstract one.
LEMMA AllocRefines ==
  ASSUME Inv, Inv', NEW layout \in Layouts, AllocLayout(layout)
  PROVE  Abs!AAlloc
<1>1. PICK i \in 1 .. Len(free) :
        /\ FirstFit(i, layout.bytes)
        /\ live' = live \cup {[addr |-> free[i].addr, bytes |-> layout.bytes]}
  BY DEF AllocLayout
<1> DEFINE b == [addr |-> free[i].addr, bytes |-> layout.bytes]
           p == Payload(b)
<1>2. /\ live \subseteq Live /\ live' \subseteq Live /\ b \in live'
      /\ LiveOK(live')
  BY <1>1, Parts DEF Inv, TypeOK, Live
<1>3. b \notin live
  <2>1. free[i].addr \in Nat /\ free[i].size \in Nat /\ free[i].size >= NodeSize
    <3>1. free[i] \in Blocks /\ FreeOK(free, live)
      BY Parts DEF Inv, TypeOK
    <3> QED
      BY <3>1 DEF Blocks, FreeOK, Sound
  <2>2. layout.bytes \in Nat \ {0}
    BY LayoutsAssumption
  <2>3. Need(layout.bytes) \in Nat /\ Need(layout.bytes) >= layout.bytes + NodeSize
    BY <2>2, NeedFacts
  <2>4. ~Disjoint(free[i].addr, free[i].size, free[i].addr, Need(layout.bytes))
    BY <2>1, <2>2, <2>3 DEF Disjoint, NodeSize
  <2>5. ClearOfLive(free[i], live)
    BY Parts DEF Inv, FreeOK
  <2>6. b.addr = free[i].addr /\ b.bytes = layout.bytes
    OBVIOUS
  <2> QED
    BY <2>4, <2>5, <2>6 DEF ClearOfLive
<1> HIDE DEF b
<1>4. \A c \in live' : /\ c.addr \in Nat /\ c.bytes \in Nat \ {0} /\ Need(c.bytes) \in Nat
                       /\ Need(c.bytes) >= c.bytes + NodeSize
  BY <1>2, NeedFacts DEF Live
<1>5. /\ p = [ptr |-> p.ptr, bytes |-> p.bytes]
      /\ p.ptr = b.addr + NodeSize /\ p.bytes = b.bytes
  BY DEF Payload
<1>6. p.bytes \in {l.bytes : l \in Layouts}
  BY <1>5 DEF b
<1>7. Inside(b.addr, Need(b.bytes))
  BY <1>2 DEF LiveOK
<1>8. p.ptr \in Base .. (Base + Size) /\ p.ptr + p.bytes <= Base + Size
  <2>1. /\ b.addr \in Nat /\ b.bytes \in Nat \ {0} /\ Need(b.bytes) \in Nat
        /\ Need(b.bytes) >= b.bytes + NodeSize
    BY <1>2, <1>4
  <2>2. b.addr >= Base /\ b.addr + Need(b.bytes) <= Base + Size
    BY <1>7 DEF Inside
  <2>3. Base \in Nat /\ Size \in Nat
    BY ArenaAssumption
  <2>4. b.addr + NodeSize \in Base .. (Base + Size)
        /\ b.addr + NodeSize + b.bytes <= Base + Size
    <3> DEFINE a == b.addr
               n == b.bytes
               m == Need(b.bytes)
    <3>1. /\ a \in Nat /\ n \in Nat /\ m \in Nat /\ m >= n + NodeSize
          /\ a >= Base /\ a + m <= Base + Size
      BY <2>1, <2>2
    <3> HIDE DEF a, n, m
    <3>2. a + NodeSize \in Base .. (Base + Size) /\ a + NodeSize + n <= Base + Size
      BY <3>1, <2>3 DEF NodeSize
    <3> QED
      BY <3>2 DEF a, n, m
  <2> HIDE DEF p
  <2> QED
    BY <2>4, <1>5
<1>9. \A q \in Payloads : Abs!Apart(p, q)
  <2> SUFFICES ASSUME NEW c \in live PROVE Abs!Apart(p, Payload(c))
    BY DEF Payloads
  <2>1. c \in live' /\ c # b
    BY <1>1, <1>3
  <2>2. Disjoint(b.addr, Need(b.bytes), c.addr, Need(c.bytes))
    BY <1>2, <2>1 DEF LiveOK
  <2>3. Payload(c).ptr = c.addr + NodeSize /\ Payload(c).bytes = c.bytes
    BY DEF Payload
  <2>4. p.ptr + p.bytes <= Payload(c).ptr \/ Payload(c).ptr + Payload(c).bytes <= p.ptr
    <3>1. /\ b.addr \in Nat /\ b.bytes \in Nat /\ Need(b.bytes) \in Nat
          /\ Need(b.bytes) >= b.bytes + NodeSize
      BY <1>2, <1>4
    <3>2. /\ c.addr \in Nat /\ c.bytes \in Nat /\ Need(c.bytes) \in Nat
          /\ Need(c.bytes) >= c.bytes + NodeSize
      BY <1>4, <2>1
    <3>3. \/ b.addr + NodeSize + b.bytes <= c.addr + NodeSize
          \/ c.addr + NodeSize + c.bytes <= b.addr + NodeSize
      BY <3>1, <3>2, <2>2, PayloadsApart, Zenon
    <3> QED
      BY <3>3, <1>5, <2>3
  <2> QED
    BY <2>4 DEF Abs!Apart
<1>10. Payloads' = Payloads \cup {p}
  BY <1>1 DEF Payloads, b
<1> HIDE DEF p
<1> QED
  BY <1>5, <1>6, <1>8, <1>9, <1>10, Zenon DEF Abs!AAlloc, Payloads, Abs!Apart

\* A free is an abstract one.
LEMMA DeallocRefines ==
  ASSUME Inv, NEW b \in live, DeallocLayout(b)
  PROVE  Abs!ADealloc
<1>1. live \subseteq Live /\ live' = live \ {b}
  BY DEF Inv, TypeOK, Live, DeallocLayout
<1>2. \A c \in live : Payload(c) = Payload(b) => c = b
  BY <1>1, PayloadFacts
<1>3. Payloads' = Payloads \ {Payload(b)} /\ Payload(b) \in Payloads
  BY <1>1, <1>2 DEF Payloads
<1> QED
  BY <1>3 DEF Abs!ADealloc, Payloads

\* The kernel heap implements the abstract Allocator: whatever is allocated and
\* freed, no payload overlaps another or leaves the arena.
THEOREM Refinement == Spec => ImplementsAllocator
<1>1. Init => Abs!AInit
  BY DEF Init, Abs!AInit
<1>2. Inv /\ Inv' /\ [Next]_vars => [Abs!ANext]_Payloads
  <2> SUFFICES ASSUME Inv, Inv', [Next]_vars PROVE [Abs!ANext]_Payloads
    OBVIOUS
  <2>1. CASE UNCHANGED vars
    BY <2>1 DEF vars, Payloads, Payload
  <2>2. CASE \E layout \in Layouts : AllocLayout(layout)
    BY <2>2, AllocRefines DEF Abs!ANext
  <2>3. CASE \E layout \in Layouts : AllocFails(layout)
    BY <2>1, <2>3 DEF AllocFails
  <2>4. CASE \E b \in live : DeallocLayout(b)
    BY <2>4, DeallocRefines DEF Abs!ANext
  <2> QED
    BY <2>1, <2>2, <2>3, <2>4 DEF Next
<1> QED
  BY <1>1, <1>2, Inductive, PTL DEF Spec, ImplementsAllocator, Abs!ASpec, Payloads

-----------------------------------------------------------------------------
(* Accounting: the counter `used` and the bytes of the arena. *)

UsedBy(L) == MapThenSumSet(LAMBDA b : align_up(b.bytes), L)
HeldBy(L) == MapThenSumSet(LAMBDA b : Need(b.bytes), L)
FreeIn(f) == MapThenSumSet(LAMBDA i : f[i].size, 1 .. Len(f))

\* The properties in these words, before and after a step.
LEMMA Accounts ==
  /\ UsedIsLive <=> used = UsedBy(live)
  /\ UsedIsLive' <=> used' = UsedBy(live')
  /\ Conservation <=> Size = slack + FreeIn(free) + HeldBy(live)
  /\ Conservation' <=> Size = slack' + FreeIn(free') + HeldBy(live')
<1>1. UsedIsLive <=> used = UsedBy(live)
  BY Zenon DEF UsedIsLive, UsedBy
<1>2. UsedIsLive' <=> used' = UsedBy(live')
  BY Zenon DEF UsedIsLive, UsedBy, MapThenSumSet, MapThenFoldSet
<1>3. Conservation <=> Size = slack + FreeIn(free) + HeldBy(live)
  BY Zenon DEF Conservation, HeldBy, FreeIn
<1>4. Conservation' <=> Size = slack' + FreeIn(free') + HeldBy(live')
  BY Zenon DEF Conservation, HeldBy, FreeIn, MapThenSumSet, MapThenFoldSet
<1> QED
  BY <1>1, <1>2, <1>3, <1>4

\* Sums of rounded payloads are sums of weights.
LEMMA UsedSum ==
  ASSUME NEW S \in SUBSET Live, IsFiniteSet(S), NEW f,
         Additive(f, [b \in S |-> align_up(b.bytes)], S), NEW L \in SUBSET S
  PROVE  UsedBy(L) = f[L]
<1> DEFINE w == [b \in S |-> align_up(b.bytes)]
           Eq(it) == it = [s \in SUBSET L |-> IF s = {} THEN 0
                             ELSE align_up((CHOOSE x \in s : TRUE).bytes) + it[s \ {CHOOSE x \in s : TRUE}]]
           sum == CHOOSE it : Eq(it)
<1>1. UsedBy(L) = sum[L]
  BY Zenon DEF UsedBy, MapThenSumSet, MapThenFoldSet
<1>2. ASSUME NEW it PROVE Eq(it) <=> SumEquation(it, w, L)
  <2>1. ASSUME NEW s \in SUBSET L, s # {}
        PROVE  w[CHOOSE x \in s : TRUE] = align_up((CHOOSE x \in s : TRUE).bytes)
    BY <2>1
  <2> HIDE DEF w
  <2> QED
    BY <2>1 DEF SumEquation
<1>3. w \in [S -> Nat]
  BY NeedFacts DEF Live
<1>4. \E it : SumEquation(it, w, L)
  <2> HIDE DEF w
  <2> QED
    BY <1>3, SumSolvable DEF w
<1> HIDE DEF Eq
<1>5. Eq(sum)
  BY <1>2, <1>4, Zenon
<1> QED
  <2>1. SumEquation(sum, w, L)
    BY <1>2, <1>5
  <2> HIDE DEF sum
  <2>2. sum[L] = f[L]
    BY <1>3, <2>1, SumValue
  <2> QED
    BY <1>1, <2>2

\* The same with the header of every block included.
LEMMA HeldSum ==
  ASSUME NEW S \in SUBSET Live, IsFiniteSet(S), NEW f,
         Additive(f, [b \in S |-> Need(b.bytes)], S), NEW L \in SUBSET S
  PROVE  HeldBy(L) = f[L]
<1> DEFINE w == [b \in S |-> Need(b.bytes)]
           Eq(it) == it = [s \in SUBSET L |-> IF s = {} THEN 0
                             ELSE Need((CHOOSE x \in s : TRUE).bytes) + it[s \ {CHOOSE x \in s : TRUE}]]
           sum == CHOOSE it : Eq(it)
<1>1. HeldBy(L) = sum[L]
  BY Zenon DEF HeldBy, MapThenSumSet, MapThenFoldSet
<1>2. ASSUME NEW it PROVE Eq(it) <=> SumEquation(it, w, L)
  <2>1. ASSUME NEW s \in SUBSET L, s # {}
        PROVE  w[CHOOSE x \in s : TRUE] = Need((CHOOSE x \in s : TRUE).bytes)
    BY <2>1
  <2> HIDE DEF w
  <2> QED
    BY <2>1 DEF SumEquation
<1>3. w \in [S -> Nat]
  BY NeedFacts DEF Live
<1>4. \E it : SumEquation(it, w, L)
  <2> HIDE DEF w
  <2> QED
    BY <1>3, SumSolvable DEF w
<1> HIDE DEF Eq
<1>5. Eq(sum)
  BY <1>2, <1>4, Zenon
<1> QED
  <2>1. SumEquation(sum, w, L)
    BY <1>2, <1>5
  <2> HIDE DEF sum
  <2>2. sum[L] = f[L]
    BY <1>3, <2>1, SumValue
  <2> QED
    BY <1>1, <2>2

\* The size of a free list, as a sum of weights.
LEMMA FreeSum ==
  ASSUME NEW l \in Seq(Blocks), NEW f,
         Additive(f, [i \in 1 .. Len(l) |-> l[i].size], 1 .. Len(l))
  PROVE  FreeIn(l) = f[1 .. Len(l)]
<1> DEFINE D == 1 .. Len(l)
           w == [i \in D |-> l[i].size]
           Eq(it) == it = [s \in SUBSET D |-> IF s = {} THEN 0
                             ELSE l[CHOOSE x \in s : TRUE].size + it[s \ {CHOOSE x \in s : TRUE}]]
           sum == CHOOSE it : Eq(it)
<1>1. FreeIn(l) = sum[D]
  BY Zenon DEF FreeIn, MapThenSumSet, MapThenFoldSet
<1>2. ASSUME NEW it PROVE Eq(it) <=> SumEquation(it, w, D)
  <2>1. ASSUME NEW s \in SUBSET D, s # {}
        PROVE  w[CHOOSE x \in s : TRUE] = l[CHOOSE x \in s : TRUE].size
    BY <2>1, Zenon
  <2> HIDE DEF w, D
  <2> DEFINE p(s) == IF s = {} THEN 0
                     ELSE l[CHOOSE x \in s : TRUE].size + it[s \ {CHOOSE x \in s : TRUE}]
             q(s) == IF s = {} THEN 0
                     ELSE w[CHOOSE x \in s : TRUE] + it[s \ {CHOOSE x \in s : TRUE}]
  <2>2. ASSUME NEW s \in SUBSET D PROVE p(s) = q(s)
    <3>1. CASE s = {}
      BY <3>1
    <3>2. CASE s # {}
      BY <3>2, <2>1
    <3> QED
      BY <3>1, <3>2
  <2>3. [s \in SUBSET D |-> p(s)] = [s \in SUBSET D |-> q(s)]
    <3> HIDE DEF p, q
    <3> QED
      BY <2>2
  <2> QED
    BY <2>3, Zenon DEF SumEquation
<1>3. w \in [D -> Nat] /\ IsFiniteSet(D)
  <2>1. \A i \in D : l[i] \in Blocks
    OBVIOUS
  <2>2. w \in [D -> Nat]
    BY <2>1 DEF Blocks
  <2> QED
    BY <2>2, FS_Interval
<1>4. Additive(f, w, D) /\ D \in SUBSET D
  BY Zenon
<1> HIDE DEF w, D
<1>5. \E it : SumEquation(it, w, D)
  BY <1>3, <1>4, SumSolvable, Zenon
<1> HIDE DEF Eq
<1>6. Eq(sum)
  BY <1>2, <1>5, Zenon
<1>7. SumEquation(sum, w, D)
  BY <1>2, <1>6
<1> HIDE DEF sum
<1>8. sum[D] = f[D]
  BY <1>3, <1>4, <1>7, SumValue
<1> QED
  BY <1>1, <1>8 DEF D

\* A block more adds its bytes to the sums.
LEMMA LiveGrows ==
  ASSUME NEW L \in SUBSET Live, IsFiniteSet(L), NEW b \in Live \ L
  PROVE  /\ UsedBy(L) \in Nat /\ HeldBy(L) \in Nat
         /\ UsedBy(L \cup {b}) = UsedBy(L) + align_up(b.bytes)
         /\ HeldBy(L \cup {b}) = HeldBy(L) + Need(b.bytes)
<1> DEFINE S == L \cup {b}
           u == [c \in S |-> align_up(c.bytes)]
           h == [c \in S |-> Need(c.bytes)]
<1>1. IsFiniteSet(S)
  BY FS_AddElement
<1>2. S \in SUBSET Live /\ L \in SUBSET S /\ b \in S \ L /\ S \in SUBSET S
  OBVIOUS
<1>3. u \in [S -> Nat] /\ h \in [S -> Nat]
  <2>1. \A c \in S : align_up(c.bytes) \in Nat /\ Need(c.bytes) \in Nat
    BY NeedFacts DEF Live
  <2> QED
    BY <2>1
<1>4. u[b] = align_up(b.bytes) /\ h[b] = Need(b.bytes)
  OBVIOUS
<1>5. PICK f : Additive(f, u, S)
  <2> HIDE DEF S, u
  <2> QED
    BY <1>1, <1>3, AdditiveExists
<1>6. PICK g : Additive(g, h, S)
  <2> HIDE DEF S, h
  <2> QED
    BY <1>1, <1>3, AdditiveExists
<1>7. /\ f[L] \in Nat /\ g[L] \in Nat
      /\ f[L \cup {b}] = f[L] + u[b] /\ g[L \cup {b}] = g[L] + h[b]
  <2>1. /\ \A U \in SUBSET S : f[U] \in Nat /\ g[U] \in Nat
        /\ \A U \in SUBSET S : \A x \in S \ U : f[U \cup {x}] = f[U] + u[x] /\ g[U \cup {x}] = g[U] + h[x]
    <3> HIDE DEF u, h, S
    <3> QED
      BY <1>5, <1>6, AdditiveFacts, SMTT(30)
  <2> HIDE DEF u, h
  <2> QED
    BY <1>2, <2>1, Zenon
<1>8. UsedBy(L) = f[L] /\ UsedBy(S) = f[S]
  <2> HIDE DEF S
  <2> QED
    BY <1>1, <1>2, <1>5, UsedSum
<1>9. HeldBy(L) = g[L] /\ HeldBy(S) = g[S]
  <2> HIDE DEF S
  <2> QED
    BY <1>1, <1>2, <1>6, HeldSum
<1> HIDE DEF u, h
<1> QED
  BY <1>4, <1>7, <1>8, <1>9

\* Nothing is in use at first.
LEMMA NoneLive == UsedBy({}) = 0 /\ HeldBy({}) = 0
<1>1. PICK f : Additive(f, [b \in {} |-> align_up(b.bytes)], {})
  BY AdditiveExists, FS_EmptySet, Zenon
<1>2. PICK g : Additive(g, [b \in {} |-> Need(b.bytes)], {})
  BY AdditiveExists, FS_EmptySet, Zenon
<1>3. UsedBy({}) = f[{}]
  BY <1>1, UsedSum, FS_EmptySet, Zenon
<1>4. HeldBy({}) = g[{}]
  BY <1>2, HeldSum, FS_EmptySet, Zenon
<1> QED
  BY <1>1, <1>2, <1>3, <1>4, AdditiveFacts

\* The new list l consists of old nodes, each at most once (org[k] is where l[k]
\* was), and of at most one node of size t (org[k] is 0).
Relocates(l, t, org) ==
  /\ l \in Seq(Blocks)
  /\ t \in Nat
  /\ org \in [1 .. Len(l) -> 0 .. Len(free)]
  /\ \A k, m \in 1 .. Len(l) : org[k] = org[m] => k = m
  /\ \A k \in 1 .. Len(l) : l[k].size = IF org[k] = 0 THEN t ELSE free[org[k]].size

Weights(t) == [i \in 0 .. Len(free) |-> IF i = 0 THEN t ELSE free[i].size]

\* The size of the new list is the sum over where its nodes were.
LEMMA RelocatedSum ==
  ASSUME free \in Seq(Blocks), NEW l, NEW t, NEW org, Relocates(l, t, org)
  PROVE  \E f : /\ Additive(f, Weights(t), 0 .. Len(free))
                /\ FreeIn(free) = f[1 .. Len(free)]
                /\ FreeIn(l) = f[ImageOf(org, 1 .. Len(l))]
<1> DEFINE B == 0 .. Len(free)
           w == [i \in B |-> IF i = 0 THEN t ELSE free[i].size]
           A == 1 .. Len(l)
           v == [k \in A |-> l[k].size]
           C == 1 .. Len(free)
           z == [i \in C |-> free[i].size]
<1>1. /\ Len(free) \in Nat /\ Len(l) \in Nat
      /\ \A i \in C : free[i].size \in Nat
      /\ \A k \in A : l[k].size \in Nat
  <2>1. (\A i \in C : free[i] \in Blocks) /\ (\A k \in A : l[k] \in Blocks)
    BY DEF Relocates
  <2> QED
    BY <2>1 DEF Blocks, Relocates
<1>2. w \in [B -> Nat] /\ v \in [A -> Nat] /\ z \in [C -> Nat]
  BY <1>1 DEF Relocates
<1>3. IsFiniteSet(B) /\ IsFiniteSet(A) /\ IsFiniteSet(C)
  BY <1>1, FS_Interval
<1>4. PICK f : Additive(f, w, B)
  <2> HIDE DEF w, B
  <2> QED
    BY <1>2, <1>3, AdditiveExists
<1>5. PICK g : Additive(g, v, A)
  <2> HIDE DEF v, A
  <2> QED
    BY <1>2, <1>3, AdditiveExists
<1>6. PICK h : Additive(h, z, C)
  <2> HIDE DEF z, C
  <2> QED
    BY <1>2, <1>3, AdditiveExists
<1>7. FreeIn(l) = g[A]
  BY <1>5, FreeSum DEF Relocates
<1>8. FreeIn(free) = h[C]
  BY <1>6, FreeSum
<1>9. g[A] = f[ImageOf(org, A)]
  <2>1. \A k \in A : v[k] = w[org[k]]
    BY <1>1, Zenon DEF Relocates
  <2>2. org \in [A -> B] /\ \A k, m \in A : org[k] = org[m] => k = m
    BY Zenon DEF Relocates
  <2> HIDE DEF v, w, A, B
  <2>3. Renames(org, A, v, B, w)
    BY <2>1, <2>2, Zenon DEF Renames
  <2> QED
    BY <1>4, <1>5, <2>3, SumReindexed
<1>10. h[C] = f[C]
  <2> DEFINE id == [i \in C |-> i]
  <2>1. id \in [C -> B] /\ \A i \in C : z[i] = w[id[i]]
    BY <1>1
  <2>2. \A i, j \in C : id[i] = id[j] => i = j
    OBVIOUS
  <2>3. ImageOf(id, C) = C
    BY DEF ImageOf
  <2> HIDE DEF z, w, B, C, id
  <2>4. Renames(id, C, z, B, w)
    BY <2>1, <2>2 DEF Renames
  <2>5. h[C] = f[ImageOf(id, C)]
    BY <1>4, <1>6, <2>4, SumReindexed, SMTT(30)
  <2> QED
    BY <2>3, <2>5
<1> QED
  BY <1>4, <1>7, <1>8, <1>9, <1>10, Zenon DEF Weights

\* Unlinking a node takes its bytes off the list.
LEMMA UnlinkSum ==
  ASSUME TypeOK, NEW i \in 1 .. Len(free)
  PROVE  /\ FreeIn(free) = free[i].size + FreeIn(Unlink(i))
         /\ free[i].size \in Nat /\ FreeIn(Unlink(i)) \in Nat
<1> DEFINE l == Unlink(i)
           org == [k \in 1 .. (Len(free) - 1) |-> IF k < i THEN k ELSE k + 1]
           B == 0 .. Len(free)
           w == Weights(0)
<1>0. free \in Seq(Blocks) /\ Len(free) \in Nat
  BY DEF TypeOK
<1>1. /\ l \in Seq(Blocks) /\ Len(l) = Len(free) - 1
      /\ \A k \in 1 .. Len(l) : l[k] = free[IF k < i THEN k ELSE k + 1]
  BY UnlinkFacts, SMTT(30)
<1>2. Relocates(l, 0, org)
  BY <1>0, <1>1 DEF Relocates
<1>3. ImageOf(org, 1 .. Len(l)) = (1 .. Len(free)) \ {i}
  <2>1. \A k \in 1 .. Len(l) : org[k] \in (1 .. Len(free)) \ {i}
    BY <1>0, <1>1
  <2>2. ASSUME NEW j \in (1 .. Len(free)) \ {i}
        PROVE  \E k \in 1 .. Len(l) : org[k] = j
    <3>1. CASE j < i
      BY <1>0, <1>1, <3>1
    <3>2. CASE j > i
      <4>1. j - 1 \in 1 .. Len(l) /\ org[j - 1] = j
        BY <1>0, <1>1, <3>2
      <4> QED
        BY <4>1, Zenon
    <3>3. j < i \/ j > i
      BY <1>0
    <3> QED
      BY <3>1, <3>2, <3>3, Zenon
  <2> HIDE DEF org, l
  <2> QED
    BY <2>1, <2>2 DEF ImageOf
<1>4. w[i] = free[i].size /\ 1 .. Len(free) \in SUBSET B
  BY <1>0 DEF Weights
<1> HIDE DEF l, org, w
<1>5. PICK f : /\ Additive(f, w, B)
               /\ FreeIn(free) = f[1 .. Len(free)]
               /\ FreeIn(l) = f[ImageOf(org, 1 .. Len(l))]
  BY <1>0, <1>2, RelocatedSum DEF w
<1> HIDE DEF B
<1>6. \A s \in SUBSET B : \A x \in s :
        /\ f[s] = w[x] + f[s \ {x}]
        /\ w[x] \in Nat /\ f[s \ {x}] \in Nat
  BY <1>5, AdditiveRemove, Zenon
<1>7. /\ f[1 .. Len(free)] = w[i] + f[(1 .. Len(free)) \ {i}]
      /\ w[i] \in Nat /\ f[(1 .. Len(free)) \ {i}] \in Nat
  BY <1>4, <1>6, Zenon
<1>8. FreeIn(l) = f[(1 .. Len(free)) \ {i}]
  BY <1>3, <1>5, Zenon
<1> QED
  BY <1>4, <1>5, <1>7, <1>8 DEF l

\* Relinking replaces a node by its tail.
LEMMA RelinkSum ==
  ASSUME TypeOK, NEW i \in 1 .. Len(free), NEW b \in Blocks
  PROVE  /\ FreeIn(free) + b.size = free[i].size + FreeIn(Relink(i, b))
         /\ free[i].size \in Nat /\ FreeIn(Relink(i, b)) \in Nat /\ FreeIn(free) \in Nat
<1> DEFINE l == Relink(i, b)
           n == Len(free)
           org == [k \in 1 .. n |-> IF k = 1 THEN 0 ELSE IF k <= i THEN k - 1 ELSE k]
           B == 0 .. n
           w == Weights(b.size)
<1>0. free \in Seq(Blocks) /\ n \in Nat /\ b.size \in Nat
  BY DEF TypeOK, Blocks
<1>1. /\ l \in Seq(Blocks) /\ Len(l) = n /\ l[1] = b
      /\ \A k \in 2 .. n : l[k] = free[IF k <= i THEN k - 1 ELSE k]
  BY RelinkFacts, Zenon
<1>2. Relocates(l, b.size, org)
  BY <1>0, <1>1, SMTT(30) DEF Relocates
<1>3. ImageOf(org, 1 .. Len(l)) = (0 .. n) \ {i}
  <2>1. \A k \in 1 .. Len(l) : org[k] \in (0 .. n) \ {i}
    BY <1>0, <1>1
  <2>2. ASSUME NEW j \in (0 .. n) \ {i}
        PROVE  \E k \in 1 .. Len(l) : org[k] = j
    <3>1. CASE j < i
      <4>1. j + 1 \in 1 .. Len(l) /\ org[j + 1] = j
        BY <1>0, <1>1, <3>1
      <4> QED
        BY <4>1
    <3>2. CASE j > i
      BY <1>0, <1>1, <3>2
    <3>3. j < i \/ j > i
      BY <1>0
    <3> QED
      BY <3>1, <3>2, <3>3
  <2> HIDE DEF org, l
  <2> QED
    BY <2>1, <2>2 DEF ImageOf
<1>4. /\ w[i] = free[i].size /\ w[0] = b.size
      /\ 1 .. n \in SUBSET B /\ (0 .. n) \ {i} \in SUBSET B
      /\ ((0 .. n) \ {i}) \ {0} = (1 .. n) \ {i} /\ 0 \in (0 .. n) \ {i}
  BY <1>0 DEF Weights
<1> HIDE DEF l, org, w
<1>5. PICK f : /\ Additive(f, w, B)
               /\ FreeIn(free) = f[1 .. n]
               /\ FreeIn(l) = f[ImageOf(org, 1 .. Len(l))]
  BY <1>0, <1>2, RelocatedSum DEF w
<1> HIDE DEF B
<1>6. \A s \in SUBSET B : \A x \in s :
        /\ f[s] = w[x] + f[s \ {x}]
        /\ w[x] \in Nat /\ f[s \ {x}] \in Nat
  BY <1>5, AdditiveRemove, Zenon
<1> DEFINE rest == f[(1 .. n) \ {i}]
<1>7. f[1 .. n] = w[i] + rest /\ w[i] \in Nat /\ rest \in Nat
  BY <1>4, <1>6, Zenon
<1>8. f[(0 .. n) \ {i}] = w[0] + rest
  BY <1>4, <1>6, Zenon
<1>9. FreeIn(l) = w[0] + rest /\ FreeIn(free) = w[i] + rest
  BY <1>3, <1>5, <1>7, <1>8, Zenon
<1> HIDE DEF rest, n
<1> QED
  BY <1>0, <1>4, <1>7, <1>9 DEF l

\* Putting a block in the place of the nodes lo..hi.
LEMMA ReplaceSum ==
  ASSUME TypeOK, NEW lo \in 1 .. (Len(free) + 1), NEW hi \in 0 .. Len(free),
         hi >= lo - 1, NEW b \in Blocks
  PROVE  \E f : /\ Additive(f, Weights(b.size), 0 .. Len(free))
                /\ FreeIn(free) = f[1 .. Len(free)]
                /\ FreeIn(Replace(lo, hi, b)) = f[(0 .. Len(free)) \ (lo .. hi)]
<1> DEFINE l == Replace(lo, hi, b)
           n == Len(free)
           org == [k \in 1 .. (n - hi + lo) |-> IF k < lo THEN k ELSE IF k = lo THEN 0 ELSE k + hi - lo]
<1>0. free \in Seq(Blocks) /\ n \in Nat /\ b.size \in Nat
  BY DEF TypeOK, Blocks
<1>1. /\ l \in Seq(Blocks) /\ Len(l) = n - hi + lo /\ l[lo] = b
      /\ \A k \in 1 .. (n - hi + lo) : k # lo => l[k] = free[IF k < lo THEN k ELSE k + hi - lo]
  BY ReplaceFacts, Zenon
<1> HIDE DEF l
<1>2. Relocates(l, b.size, org)
  <2>1. org \in [1 .. Len(l) -> 0 .. n] /\ \A k, m \in 1 .. Len(l) : org[k] = org[m] => k = m
    <3>1. \A k \in 1 .. Len(l) : org[k] = IF k < lo THEN k ELSE IF k = lo THEN 0 ELSE k + hi - lo
      BY <1>1
    <3>2. \A k \in 1 .. Len(l) : org[k] \in 0 .. n
      BY <1>0, <1>1, <3>1
    <3>3. org \in [1 .. Len(l) -> 0 .. n]
      <4>1. org = [k \in 1 .. Len(l) |-> org[k]]
        BY <1>1
      <4> HIDE DEF org
      <4> QED
        BY <3>2, <4>1
    <3> HIDE DEF org
    <3>4. ASSUME NEW k \in 1 .. Len(l), NEW m \in 1 .. Len(l), org[k] = org[m] PROVE k = m
      BY <1>0, <1>1, <3>1, <3>4, SMTT(30)
    <3> QED
      BY <3>3, <3>4
  <2>2. ASSUME NEW k \in 1 .. Len(l)
        PROVE  l[k].size = IF org[k] = 0 THEN b.size ELSE free[org[k]].size
    <3>1. CASE k = lo
      BY <1>0, <1>1, <3>1
    <3>2. CASE k # lo
      BY <1>0, <1>1, <3>2
    <3> QED
      BY <3>1, <3>2, Zenon
  <2> HIDE DEF org
  <2> QED
    BY <1>0, <1>1, <2>1, <2>2 DEF Relocates
<1>3. ImageOf(org, 1 .. Len(l)) = (0 .. n) \ (lo .. hi)
  <2>1. \A k \in 1 .. Len(l) : org[k] \in (0 .. n) \ (lo .. hi)
    BY <1>0, <1>1
  <2>2. ASSUME NEW j \in (0 .. n) \ (lo .. hi)
        PROVE  \E k \in 1 .. Len(l) : org[k] = j
    <3>0. CASE j = 0
      <4>1. lo \in 1 .. Len(l) /\ org[lo] = j
        BY <1>0, <1>1, <3>0
      <4> QED
        BY <4>1
    <3>1. CASE j # 0 /\ j < lo
      <4>1. j \in 1 .. Len(l) /\ org[j] = j
        BY <1>0, <1>1, <3>1
      <4> QED
        BY <4>1, Zenon
    <3>2. CASE j > hi /\ j >= lo
      <4>1. j - hi + lo \in 1 .. Len(l) /\ org[j - hi + lo] = j
        BY <1>0, <1>1, <3>2
      <4> QED
        BY <4>1, Zenon
    <3>3. j = 0 \/ (j # 0 /\ j < lo) \/ (j > hi /\ j >= lo)
      BY <1>0
    <3> QED
      BY <3>0, <3>1, <3>2, <3>3, Zenon
  <2> HIDE DEF org, l
  <2> QED
    BY <2>1, <2>2 DEF ImageOf
<1> HIDE DEF org
<1>4. \E f : /\ Additive(f, Weights(b.size), 0 .. n)
             /\ FreeIn(free) = f[1 .. n]
             /\ FreeIn(l) = f[ImageOf(org, 1 .. Len(l))]
  BY <1>0, <1>2, RelocatedSum, Zenon
<1> QED
  BY <1>3, <1>4, Zenon DEF l

\* The live blocks are finitely many, and both sums are right.
AccountInv == IsFiniteSet(live) /\ UsedIsLive /\ Conservation

\* A request moves the bytes of one node to the client, to the tail or to slack.
LEMMA AllocAccounts ==
  ASSUME Inv, AccountInv, NEW layout \in Layouts, AllocLayout(layout)
  PROVE  AccountInv'
<1> DEFINE n == layout.bytes
<1>0. n \in Nat \ {0}
  BY LayoutsAssumption, Zenon
<1>1. PICK i \in 1 .. Len(free) :
        /\ FirstFit(i, n)
        /\ \/ /\ free' = Relink(i, TailNode(free[i], n)) /\ slack' = slack
           \/ /\ free' = Unlink(i) /\ slack' = slack + TailNode(free[i], n).size
        /\ live' = live \cup {[addr |-> free[i].addr, bytes |-> n]}
  BY Zenon DEF AllocLayout
<1> DEFINE b == [addr |-> free[i].addr, bytes |-> n]
           tail == TailNode(free[i], n)
<1>2. /\ free[i].addr \in Nat /\ free[i].size \in Nat /\ free[i].size >= Need(n)
      /\ Need(n) \in Nat \ {0} /\ align_up(n) \in Nat
  <2>1. free[i] \in Blocks
    BY DEF Inv, TypeOK
  <2>2. Need(n) \in Nat /\ Need(n) >= n + NodeSize /\ align_up(n) \in Nat
    BY <1>0, NeedFacts
  <2>3. Need(n) # 0
    BY <1>0, <2>2 DEF NodeSize
  <2> QED
    BY <1>1, <2>1, <2>2, <2>3 DEF FirstFit, Blocks
<1>3. tail \in Blocks /\ tail.size \in Nat /\ tail.size = free[i].size - Need(n)
  BY <1>2 DEF TailNode, Blocks
<1>4. b \in Live /\ b.bytes = n /\ live \in SUBSET Live
  BY <1>0, <1>2 DEF Live, Inv, TypeOK
<1>5. b \notin live
  <2>1. \A c \in live : Disjoint(free[i].addr, free[i].size, c.addr, Need(c.bytes))
    BY Zenon DEF Inv, BlocksDisjoint
  <2>2. ~Disjoint(free[i].addr, free[i].size, b.addr, Need(b.bytes))
    BY <1>2 DEF Disjoint
  <2> QED
    BY <2>1, <2>2, Zenon
<1>6. /\ UsedBy(live) \in Nat /\ HeldBy(live) \in Nat
      /\ UsedBy(live') = UsedBy(live) + align_up(n)
      /\ HeldBy(live') = HeldBy(live) + Need(n)
  <2> HIDE DEF b
  <2> QED
    BY <1>1, <1>4, <1>5, LiveGrows, Zenon DEF AccountInv, b
<1>7. IsFiniteSet(live')
  BY <1>1, FS_AddElement, Zenon DEF AccountInv
<1>8. UsedIsLive'
  BY <1>6, Accounts, Zenon DEF AccountInv, AllocLayout
<1>9. Size = slack + FreeIn(free) + HeldBy(live) /\ slack \in Nat /\ TypeOK
  BY Accounts DEF AccountInv, Inv, TypeOK
<1> HIDE DEF tail, n, b
<1>10. CASE free' = Relink(i, tail) /\ slack' = slack
  <2>1. /\ FreeIn(free) + tail.size = free[i].size + FreeIn(free')
        /\ FreeIn(free') \in Nat /\ FreeIn(free) \in Nat
    BY <1>3, <1>9, <1>10, RelinkSum, Zenon
  <2> DEFINE x == FreeIn(free)
             y == FreeIn(free')
             h == HeldBy(live)
             k == HeldBy(live')
             d == Need(n)
             r == tail.size
             z == free[i].size
  <2>2. /\ x \in Nat /\ y \in Nat /\ h \in Nat /\ d \in Nat /\ z \in Nat /\ r \in Nat
        /\ r = z - d /\ k = h + d /\ x + r = z + y /\ Size = slack + x + h
    BY <1>2, <1>3, <1>6, <1>9, <2>1, SMTT(30)
  <2> HIDE DEF x, y, h, k, d, r, z
  <2>3. Size = slack + y + k
    BY <1>9, <2>2
  <2>4. Size = slack' + FreeIn(free') + HeldBy(live')
    BY <1>10, <2>3 DEF y, k
  <2> QED
    BY <1>7, <1>8, <2>4, Accounts DEF AccountInv
<1>11. CASE free' = Unlink(i) /\ slack' = slack + tail.size
  <2>1. FreeIn(free) = free[i].size + FreeIn(free') /\ FreeIn(free') \in Nat
    BY <1>9, <1>11, UnlinkSum, Zenon
  <2> DEFINE x == FreeIn(free)
             y == FreeIn(free')
             h == HeldBy(live)
             k == HeldBy(live')
             d == Need(n)
             r == tail.size
             z == free[i].size
  <2>2. /\ y \in Nat /\ h \in Nat /\ d \in Nat /\ z \in Nat /\ r \in Nat
        /\ r = z - d /\ k = h + d /\ x = z + y /\ Size = slack + x + h
    BY <1>2, <1>3, <1>6, <1>9, <2>1
  <2> HIDE DEF x, y, h, k, d, r, z
  <2>3. Size = (slack + r) + y + k
    BY <1>9, <2>2
  <2>4. Size = slack' + FreeIn(free') + HeldBy(live')
    BY <1>11, <2>3, Zenon DEF y, k, r
  <2> QED
    BY <1>7, <1>8, <2>4, Accounts DEF AccountInv
<1> QED
  BY <1>1, <1>10, <1>11 DEF tail

\* Freeing moves the bytes of the client's block to the merged node.
LEMMA DeallocAccounts ==
  ASSUME Inv, AccountInv, NEW b \in live, DeallocLayout(b)
  PROVE  AccountInv'
<1>1. PICK i \in 1 .. (Len(free) + 1) :
        free' = Replace(IF JoinsLeft(i, b) THEN i - 1 ELSE i,
                        IF JoinsRight(i, b) THEN i ELSE i - 1,
                        Merged(i, b))
  BY DEF DeallocLayout
<1> DEFINE left == JoinsLeft(i, b)
           right == JoinsRight(i, b)
           lo == IF left THEN i - 1 ELSE i
           hi == IF right THEN i ELSE i - 1
           t == Merged(i, b)
           B == 0 .. Len(free)
           w == Weights(t.size)
<1>2. /\ free \in Seq(Blocks) /\ Len(free) \in Nat /\ live \in SUBSET Live /\ TypeOK
      /\ slack \in Nat /\ slack' = slack /\ live' = live \ {b}
  BY DEF Inv, TypeOK, Live, DeallocLayout
<1>3. \A j \in 1 .. Len(free) : free[j].addr \in Nat /\ free[j].size \in Nat
  <2>1. \A j \in 1 .. Len(free) : free[j] \in Blocks
    BY <1>2
  <2> QED
    BY <2>1 DEF Blocks
<1>4. b.addr \in Nat /\ Need(b.bytes) \in Nat /\ align_up(b.bytes) \in Nat
  BY <1>2, NeedFacts DEF Live
<1>5. /\ left => i - 1 \in 1 .. Len(free)
      /\ right => i \in 1 .. Len(free)
  BY <1>2 DEF JoinsLeft, JoinsRight
<1>6. lo \in 1 .. (Len(free) + 1) /\ hi \in 0 .. Len(free) /\ hi >= lo - 1
  BY <1>2, <1>5
<1>7. t.size = (IF left THEN free[i - 1].size ELSE 0) + Need(b.bytes)
                 + (IF right THEN free[i].size ELSE 0)
  BY DEF Merged
<1>8. t.size \in Nat /\ t \in Blocks
  <2>1. t.addr \in Nat /\ t.size \in Nat /\ t = [addr |-> t.addr, size |-> t.size]
    BY <1>3, <1>4, <1>5, SMTT(30) DEF Merged
  <2> QED
    BY <2>1, Zenon DEF Blocks
<1>9. /\ UsedBy(live') \in Nat /\ HeldBy(live') \in Nat /\ IsFiniteSet(live')
      /\ UsedBy(live) = UsedBy(live') + align_up(b.bytes)
      /\ HeldBy(live) = HeldBy(live') + Need(b.bytes)
  <2>1. IsFiniteSet(live \ {b})
    BY FS_RemoveElement DEF AccountInv
  <2>2. /\ live \ {b} \in SUBSET Live /\ b \in Live \ (live \ {b})
        /\ (live \ {b}) \cup {b} = live
    BY <1>2
  <2> QED
    BY <1>2, <2>1, <2>2, LiveGrows, Zenon
<1>10. UsedIsLive'
  <2>1. used = UsedBy(live) /\ used' = Deduct(used, b.bytes)
    BY Accounts DEF AccountInv, DeallocLayout
  <2>2. used' = UsedBy(live')
    BY <1>4, <1>9, <2>1 DEF Deduct
  <2> QED
    BY <2>2, Accounts
<1>11. Size = slack + FreeIn(free) + HeldBy(live)
  BY Accounts, Zenon DEF AccountInv
<1> HIDE DEF left, right, lo, hi, t
<1>12. PICK f : /\ Additive(f, w, B)
                /\ FreeIn(free) = f[1 .. Len(free)]
                /\ FreeIn(free') = f[(0 .. Len(free)) \ (lo .. hi)]
  BY <1>1, <1>2, <1>6, <1>8, ReplaceSum, Zenon DEF left, right, lo, hi, t
<1>13. w[0] = t.size /\ \A j \in 1 .. Len(free) : w[j] = free[j].size
  BY <1>2 DEF Weights
<1>14. \A s \in SUBSET B : \A x \in s :
        /\ f[s] = w[x] + f[s \ {x}]
        /\ w[x] \in Nat /\ f[s \ {x}] \in Nat
  <2> HIDE DEF B, w
  <2> QED
    BY <1>12, AdditiveRemove, Zenon
<1> HIDE DEF w
<1> DEFINE old == 1 .. Len(free)
           kept == old \ (lo .. hi)
<1>15. f[(0 .. Len(free)) \ (lo .. hi)] = w[0] + f[kept] /\ f[kept] \in Nat
  <2>1. /\ (0 .. Len(free)) \ (lo .. hi) \in SUBSET B /\ 0 \in (0 .. Len(free)) \ (lo .. hi)
        /\ ((0 .. Len(free)) \ (lo .. hi)) \ {0} = kept
    BY <1>2, <1>6
  <2> QED
    BY <1>14, <2>1, Zenon
<1>16. f[old] = (IF left THEN free[i - 1].size ELSE 0) + f[kept]
                  + (IF right THEN free[i].size ELSE 0)
  <2>1. \A s \in SUBSET old : \A x \in s : f[s] = free[x].size + f[s \ {x}]
    <3>1. \A s \in SUBSET old : s \in SUBSET B /\ \A x \in s : x \in old
      BY <1>2
    <3> HIDE DEF old
    <3>2. \A x \in old : w[x] = free[x].size
      BY <1>13 DEF old
    <3> HIDE DEF B
    <3> QED
      BY <1>14, <3>1, <3>2, Zenon
  <2>2. old \in SUBSET old /\ \A x : old \ {x} \in SUBSET old
    OBVIOUS
  <2>3. left => i - 1 \in old /\ free[i - 1].size \in Nat
    BY <1>3, <1>5
  <2>4. right => i \in old /\ free[i].size \in Nat
    BY <1>3, <1>5
  <2>5. /\ left /\ right => i \in old \ {i - 1} /\ kept = (old \ {i - 1}) \ {i}
        /\ left /\ ~right => kept = old \ {i - 1}
        /\ ~left /\ right => kept = old \ {i}
        /\ ~left /\ ~right => kept = old
    BY <1>2, <1>5 DEF lo, hi
  <2> HIDE DEF old, kept
  <2>6. CASE left /\ right
    <3>1. f[old] = free[i - 1].size + f[old \ {i - 1}]
      BY <2>1, <2>2, <2>3, <2>6, Zenon
    <3>2. f[old \ {i - 1}] = free[i].size + f[kept]
      BY <2>1, <2>2, <2>5, <2>6, Zenon
    <3> QED
      BY <1>15, <2>3, <2>4, <2>6, <3>1, <3>2
  <2>7. CASE left /\ ~right
    <3>1. f[old] = free[i - 1].size + f[kept]
      BY <2>1, <2>2, <2>3, <2>5, <2>7, Zenon
    <3> QED
      BY <1>15, <2>3, <2>7, <3>1
  <2>8. CASE ~left /\ right
    <3>1. f[old] = free[i].size + f[kept]
      BY <2>1, <2>2, <2>4, <2>5, <2>8, Zenon
    <3> QED
      BY <1>15, <2>4, <2>8, <3>1
  <2>9. CASE ~left /\ ~right
    BY <1>15, <2>5, <2>9
  <2> QED
    BY <2>6, <2>7, <2>8, <2>9
<1>17. Size = slack' + FreeIn(free') + HeldBy(live')
  <2> DEFINE p == IF left THEN free[i - 1].size ELSE 0
             q == IF right THEN free[i].size ELSE 0
             r == f[kept]
  <2>1. p \in Nat /\ q \in Nat /\ r \in Nat
    BY <1>3, <1>5, <1>15, Zenon
  <2>2. FreeIn(free) = p + r + q
    BY <1>12, <1>16, Zenon
  <2>3. FreeIn(free') = (p + Need(b.bytes) + q) + r
    BY <1>7, <1>12, <1>13, <1>15, Zenon
  <2> DEFINE d == Need(b.bytes)
             k == HeldBy(live')
  <2>4. d \in Nat /\ k \in Nat /\ Size = slack + (p + r + q) + (k + d)
    BY <1>4, <1>9, <1>11, <2>2
  <2> HIDE DEF p, q, r, d, k
  <2>5. Size = slack + ((p + d + q) + r) + k
    BY <1>2, <2>1, <2>4
  <2> QED
    BY <1>2, <2>3, <2>5 DEF d, k
<1> QED
  BY <1>9, <1>10, <1>17, Accounts DEF AccountInv

\* used() is exact and no byte of the arena is lost or invented, for every arena,
\* every set of layouts and every sequence of allocations and frees.
LEMMA Accounting == Spec => []AccountInv
<1>1. Init => AccountInv
  <2> SUFFICES ASSUME Init PROVE AccountInv
    OBVIOUS
  <2> DEFINE b == [addr |-> Base, size |-> Size]
  <2>1. b \in Blocks /\ b.size = Size
    BY ArenaAssumption DEF Blocks
  <2> HIDE DEF b
  <2>2. free \in Seq(Blocks) /\ Len(free) = 1 /\ free[1] = b
    BY <2>1 DEF Init, b
  <2> DEFINE v == [k \in 1 .. Len(free) |-> free[k].size]
  <2>3. /\ v \in [1 .. Len(free) -> Nat] /\ IsFiniteSet(1 .. Len(free)) /\ v[1] = Size
        /\ 1 \in 1 .. Len(free) /\ (1 .. Len(free)) \ {1} = {}
        /\ 1 .. Len(free) \in SUBSET (1 .. Len(free))
    <3>1. Size \in Nat /\ free[1].size = Size /\ 1 .. Len(free) = {1}
      BY <2>1, <2>2, ArenaAssumption
    <3>2. v = [k \in {1} |-> free[k].size]
      BY <3>1
    <3>3. v \in [{1} -> Nat] /\ v[1] = Size
      BY <3>1, <3>2
    <3> HIDE DEF v
    <3>4. IsFiniteSet({1})
      BY FS_Singleton, Zenon
    <3> QED
      BY <3>1, <3>3, <3>4, Zenon
  <2>4. PICK f : Additive(f, v, 1 .. Len(free))
    <3> HIDE DEF v
    <3> QED
      BY <2>3, AdditiveExists
  <2>5. FreeIn(free) = f[1 .. Len(free)]
    BY <2>2, <2>4, FreeSum
  <2> HIDE DEF v
  <2>6. \A s \in SUBSET (1 .. Len(free)) : \A x \in s :
          /\ f[s] = v[x] + f[s \ {x}]
          /\ v[x] \in Nat /\ f[s \ {x}] \in Nat
    BY <2>4, AdditiveRemove, Zenon
  <2>7. f[{}] = 0
    BY <2>4, AdditiveFacts
  <2>8. f[1 .. Len(free)] = v[1] + f[{}]
    BY <2>3, <2>6, Zenon
  <2>9. FreeIn(free) = Size
    BY <2>3, <2>5, <2>7, <2>8, ArenaAssumption
  <2>10. used = 0 /\ live = {} /\ slack = 0
    BY DEF Init
  <2> QED
    BY <2>9, <2>10, NoneLive, Accounts, FS_EmptySet, ArenaAssumption DEF AccountInv
<1>2. Inv /\ AccountInv /\ [Next]_vars => AccountInv'
  <2> SUFFICES ASSUME Inv, AccountInv, [Next]_vars PROVE AccountInv'
    OBVIOUS
  <2>1. CASE UNCHANGED vars
    <3>1. free' = free /\ live' = live /\ used' = used /\ slack' = slack
      BY <2>1 DEF vars
    <3> QED
      BY <3>1, Accounts DEF AccountInv
  <2>2. CASE \E layout \in Layouts : AllocLayout(layout)
    BY <2>2, AllocAccounts
  <2>3. CASE \E layout \in Layouts : AllocFails(layout)
    BY <2>1, <2>3 DEF AllocFails
  <2>4. CASE \E b \in live : DeallocLayout(b)
    BY <2>4, DeallocAccounts
  <2> QED
    BY <2>1, <2>2, <2>3, <2>4 DEF Next
<1> QED
  BY <1>1, <1>2, Inductive, PTL DEF Spec

\* State.used is the sum of the rounded sizes in use: the saturating_sub of
\* dealloc_layout never saturates.
THEOREM UsedIsExact == Spec => []UsedIsLive
<1>1. AccountInv => UsedIsLive
  BY DEF AccountInv
<1> QED
  BY <1>1, Accounting, PTL

\* Splitting and coalescing lose nothing: free bytes, bytes in use and slack make
\* up the arena after every operation.
THEOREM BytesConserved == Spec => []Conservation
<1>1. AccountInv => Conservation
  BY DEF AccountInv
<1> QED
  BY <1>1, Accounting, PTL
==============================================================================
