--------------------------- MODULE PageTableProofs ---------------------------
(****************************************************************************)
(* What map_page_impl does to page tables, for every pool of frames and size *)
(* of table, and which pages bring_up asks for, for every linked program.    *)
(* The tables form a tree: the proofs carry a level for every frame of it,   *)
(* which makes each step of map_page_impl a local change.                    *)
(****************************************************************************)
EXTENDS PageTables, UserLayout, FoldLemmas

-----------------------------------------------------------------------------
(* Page numbers *)

\* Products grow with their factors.
LEMMA Monotone ==
  ASSUME NEW a \in Nat, NEW b \in Nat, NEW n \in Nat, a <= b
  PROVE  n * a <= n * b
OBVIOUS

\* Division with remainder, and its uniqueness.
LEMMA Division ==
  ASSUME NEW a \in Nat, NEW n \in Nat \ {0}
  PROVE  /\ a \div n \in Nat /\ a % n \in 0 .. (n - 1)
         /\ a = n * (a \div n) + (a % n)
OBVIOUS

\* A quotient and a remainder that fit are the quotient and the remainder.
LEMMA Quotient ==
  ASSUME NEW a \in Nat, NEW n \in Nat \ {0}, NEW q \in Nat, NEW r \in 0 .. (n - 1),
         a = n * q + r
  PROVE  a \div n = q /\ a % n = r
<1> DEFINE d == a \div n
           e == a % n
<1>1. d \in Nat /\ e \in 0 .. (n - 1) /\ a = n * d + e
  BY Division, Zenon
<1> HIDE DEF d, e
<1>2. CASE d < q
  <2>1. d + 1 <= q /\ n * (d + 1) = n * d + n
    BY <1>1, <1>2
  <2>2. n * (d + 1) <= n * q
    BY <1>1, <2>1, Monotone
  <2> DEFINE x == n * d
             y == n * q
  <2>3. x \in Nat /\ y \in Nat /\ x + n <= y /\ x + e = y + r
    BY <1>1, <2>1, <2>2
  <2> HIDE DEF x, y
  <2> QED
    BY <1>1, <2>3
<1>3. CASE q < d
  <2>1. q + 1 <= d /\ n * (q + 1) = n * q + n
    BY <1>1, <1>3
  <2>2. n * (q + 1) <= n * d
    BY <1>1, <2>1, Monotone
  <2> DEFINE x == n * d
             y == n * q
  <2>3. x \in Nat /\ y \in Nat /\ y + n <= x /\ x + e = y + r
    BY <1>1, <2>1, <2>2
  <2> HIDE DEF x, y
  <2> QED
    BY <1>1, <2>3
<1>4. CASE d = q
  <2> DEFINE x == n * d
  <2>1. x \in Nat /\ x + e = x + r
    BY <1>1, <1>4
  <2> HIDE DEF x
  <2> QED
    BY <1>1, <1>4, <2>1 DEF d, e
<1> QED
  BY <1>1, <1>2, <1>3, <1>4

\* A page number in base ENTRIES.
PageOf(a, b, c, d) == ENTRIES * (ENTRIES * (ENTRIES * a + b) + c) + d

Low == 0 .. (ENTRIES - 1)

\* The indices of a page are its digits.
LEMMA Digits ==
  ASSUME NEW a \in Index, NEW b \in Low, NEW c \in Low, NEW d \in Low
  PROVE  LET v == PageOf(a, b, c, d)
         IN  /\ v \in Pages
             /\ index4(v) = a /\ index3(v) = b /\ index2(v) = c /\ index1(v) = d
<1> DEFINE E == ENTRIES
           p3 == E * a + b
           p2 == E * p3 + c
           v == E * p2 + d
<1>0. E \in Nat \ {0} /\ TOP \in Nat \ {0} /\ a \in 0 .. (TOP - 1)
      /\ b \in 0 .. (E - 1) /\ c \in 0 .. (E - 1) /\ d \in 0 .. (E - 1)
  BY TablesAssumption DEF Index, Low
<1> HIDE DEF E
<1>1. p3 \in Nat
  BY <1>0
<1>2. p2 \in Nat
  <2> HIDE DEF p3
  <2> QED
    BY <1>0, <1>1
<1>3. v \in Nat
  <2> HIDE DEF p2
  <2> QED
    BY <1>0, <1>2
<1>4. v \div E = p2 /\ v % E = d
  <2> HIDE DEF p2
  <2> QED
    BY <1>0, <1>2, <1>3, Quotient
<1>5. p2 \div E = p3 /\ p2 % E = c
  <2> HIDE DEF p3
  <2> QED
    BY <1>0, <1>1, <1>2, Quotient
<1>6. p3 \div E = a /\ p3 % E = b
  BY <1>0, <1>1, Quotient
<1>7. /\ E * E \in Nat \ {0} /\ E * E * E \in Nat \ {0}
  BY <1>0
<1>8. v \div (E * E) = p3
  <2> DEFINE r == E * c + d
  <2>1. r \in 0 .. (E * E - 1)
    <3>1. E * c <= E * (E - 1) /\ E * (E - 1) = E * E - E
      BY <1>0, Monotone
    <3> DEFINE x == E * c
               y == E * E
    <3>2. x \in Nat /\ y \in Nat /\ x <= y - E
      BY <1>0, <3>1
    <3> HIDE DEF x, y
    <3>3. x + d \in 0 .. (y - 1)
      BY <1>0, <3>2
    <3> QED
      BY <3>3 DEF x, y
  <2>2. v = (E * E) * p3 + r
    <3> HIDE DEF p3
    <3> QED
      BY <1>0, <1>1
  <2> HIDE DEF r, p3, v
  <2> QED
    BY <1>1, <1>3, <1>7, <2>1, <2>2, Quotient
<1>9. v \div (E * E * E) = a
  <2> DEFINE r == E * (E * b + c) + d
  <2>1. r \in 0 .. (E * E * E - 1)
    <3> DEFINE s == E * b + c
    <3>1. s \in Nat /\ s <= E * E - 1
      <4>1. E * b <= E * (E - 1) /\ E * (E - 1) = E * E - E
        BY <1>0, Monotone
      <4> DEFINE x == E * b
                 y == E * E
      <4>2. x \in Nat /\ y \in Nat /\ x <= y - E
        BY <1>0, <4>1
      <4> HIDE DEF x, y
      <4>3. x + c \in 0 .. (y - 1)
        BY <1>0, <4>2
      <4> QED
        BY <4>3 DEF x, y
    <3> DEFINE t == E * E - 1
    <3>2. t \in Nat /\ E * t = E * E * E - E
      BY <1>0, <1>7
    <3>3. s <= t
      BY <3>1
    <3> HIDE DEF s, t
    <3>4. E * s <= E * t
      BY <1>0, <3>1, <3>2, <3>3, Monotone
    <3> DEFINE x == E * s
               y == E * E * E
    <3>5. x \in Nat /\ y \in Nat /\ x <= y - E
      BY <1>0, <1>7, <3>1, <3>2, <3>4
    <3> HIDE DEF x, y
    <3>6. x + d \in 0 .. (y - 1)
      BY <1>0, <3>5
    <3> QED
      BY <3>6 DEF x, y, s
  <2>2. v = (E * E * E) * a + r
    BY <1>0
  <2> HIDE DEF r, v
  <2> QED
    BY <1>0, <1>3, <1>7, <2>1, <2>2, Quotient
<1>10. a % TOP = a
  <2>1. a = TOP * 0 + a /\ 0 \in Nat
    BY <1>0
  <2> QED
    BY <1>0, <2>1, Quotient
<1>11. v <= TOP * E * E * E - 1
  <2> DEFINE C == E * E * E
  <2>1. C \in Nat \ {0}
    BY <1>7
  <2>2. v = C * (v \div C) + (v % C) /\ v % C \in 0 .. (C - 1) /\ v \div C = a
    <3> HIDE DEF v
    <3> QED
      BY <1>3, <1>9, <2>1, Division, Zenon
  <2>3. TOP * E * E * E = C * TOP
    BY <1>0
  <2> HIDE DEF C, v
  <2>4. a + 1 <= TOP
    BY <1>0
  <2>5. C * (a + 1) <= C * TOP /\ C * (a + 1) = C * a + C
    BY <1>0, <2>1, <2>4, Monotone
  <2> DEFINE x == C * a
             y == C * TOP
             z == v % C
  <2>6. x \in Nat /\ y \in Nat /\ x + C <= y /\ z \in 0 .. (C - 1) /\ v = x + z
    BY <1>0, <2>1, <2>2, <2>5
  <2> HIDE DEF x, y, z
  <2>7. v <= y - 1
    BY <2>1, <2>6
  <2> QED
    BY <2>3, <2>7 DEF y
<1>12. v = PageOf(a, b, c, d)
  BY DEF PageOf, E
<1>13. v \in Pages
  <2> HIDE DEF v
  <2>1. TOP * E * E * E \in Nat
    BY <1>0
  <2> QED
    BY <1>3, <1>11, <2>1 DEF Pages, E
<1> HIDE DEF v, p2, p3
<1>14. index4(v) = a
  BY <1>9, <1>10 DEF index4, E
<1>15. index3(v) = b
  BY <1>6, <1>8 DEF index3, E
<1>16. index2(v) = c
  BY <1>4, <1>5 DEF index2, E
<1>17. index1(v) = d
  BY <1>4 DEF index1, E
<1> QED
  BY <1>12, <1>13, <1>14, <1>15, <1>16, <1>17

\* Every page is the number of its indices, which are in range.
LEMMA PageDigits ==
  ASSUME NEW v \in Pages
  PROVE  /\ index4(v) \in Index /\ index3(v) \in Low /\ index2(v) \in Low /\ index1(v) \in Low
         /\ v = PageOf(index4(v), index3(v), index2(v), index1(v))
<1> DEFINE E == ENTRIES
           q1 == v \div E
           d == v % E
           q2 == q1 \div E
           c == q1 % E
           a == q2 \div E
           b == q2 % E
<1>0. E \in Nat \ {0} /\ TOP \in Nat \ {0} /\ v \in 0 .. (TOP * E * E * E - 1)
  BY TablesAssumption DEF Pages
<1> HIDE DEF E
<1>1. v \in Nat /\ v <= TOP * E * E * E - 1
  <2> DEFINE x == TOP * E * E * E
  <2>1. x \in Nat
    BY <1>0
  <2> HIDE DEF x
  <2> QED
    BY <1>0, <2>1 DEF x
<1>2. q1 \in Nat /\ d \in 0 .. (E - 1) /\ v = E * q1 + d
  BY <1>0, <1>1, Division, Zenon
<1> HIDE DEF q1, d
<1>3. q2 \in Nat /\ c \in 0 .. (E - 1) /\ q1 = E * q2 + c
  BY <1>0, <1>2, Division, Zenon
<1> HIDE DEF q2, c
<1>4. a \in Nat /\ b \in 0 .. (E - 1) /\ q2 = E * a + b
  BY <1>0, <1>3, Division, Zenon
<1> HIDE DEF a, b
<1>5. v = PageOf(a, b, c, d)
  BY <1>2, <1>3, <1>4 DEF PageOf, E
<1>6. a < TOP
  <2> SUFFICES ASSUME TOP <= a PROVE FALSE
    BY <1>0, <1>4
  <2>1. E * TOP <= E * a
    BY <1>0, <1>4, Monotone
  <2> DEFINE x == E * TOP
             y == E * a
  <2>2. x \in Nat /\ y \in Nat /\ x <= y /\ q2 = y + b
    BY <1>0, <1>4, <2>1
  <2> HIDE DEF x, y
  <2>3. x <= q2
    BY <1>0, <1>4, <2>2
  <2>4. E * x <= E * q2
    BY <1>0, <1>3, <2>2, <2>3, Monotone
  <2> DEFINE x2 == E * x
             y2 == E * q2
  <2>5. x2 \in Nat /\ y2 \in Nat /\ x2 <= y2 /\ q1 = y2 + c
    BY <1>0, <1>3, <2>2, <2>4
  <2> HIDE DEF x2, y2
  <2>6. x2 <= q1
    BY <1>0, <1>3, <2>5
  <2>7. E * x2 <= E * q1
    BY <1>0, <1>2, <2>5, <2>6, Monotone
  <2> DEFINE x3 == E * x2
             y3 == E * q1
  <2>8. x3 \in Nat /\ y3 \in Nat /\ x3 <= y3 /\ v = y3 + d
    BY <1>0, <1>2, <2>5, <2>7
  <2>9. x3 = TOP * E * E * E
    BY <1>0 DEF x2, x
  <2> HIDE DEF x3, y3
  <2>10. v <= x3 - 1
    BY <1>1, <2>9
  <2> QED
    BY <1>0, <1>1, <1>2, <2>8, <2>10
<1>7. a \in Index /\ b \in Low /\ c \in Low /\ d \in Low
  BY <1>0, <1>2, <1>3, <1>4, <1>6 DEF Index, Low, E
<1>8. index4(v) = a /\ index3(v) = b /\ index2(v) = c /\ index1(v) = d
  BY <1>5, <1>7, Digits
<1> QED
  BY <1>5, <1>7, <1>8

-----------------------------------------------------------------------------
(* The tree of tables *)

Dom == Frames \cup {BootPml4, BootPdpt, BootPage}
Entry == [present : BOOLEAN, addr : Dom, user : BOOLEAN, nx : BOOLEAN, huge : BOOLEAN]
Memory == [Dom -> [Index -> Entry]]

\* lv gives every frame of the tree its level: 4 is the top table c, 1 a table
\* of pages, 0 a mapped page; frames outside the tree have level 5.
Shape(m, c, lv) ==
  /\ m \in Memory /\ c \in Frames \cup {BootPml4} /\ lv \in [Dom -> 0 .. 5]
  /\ \A f \in Dom : lv[f] = 4 <=> f = c
  /\ \A f \in Dom : lv[f] \in 0 .. 3 => f \in Frames
  /\ \A i \in Index : m[BootPdpt][i] = entry_huge(BootPage)

\* An entry leads one level down; only the bootloader's lead out of the tree.
Down(m, lv) ==
  \A f \in Dom : \A i \in Index :
    lv[f] \in 1 .. 4 /\ m[f][i].present =>
      /\ ~m[f][i].huge
      /\ \/ lv[f] = 4 /\ m[f][i].addr = BootPdpt /\ ~m[f][i].user
         \/ /\ m[f][i].addr \in Frames /\ lv[m[f][i].addr] = lv[f] - 1
            /\ lv[f] < 4 => i \in Low

Points(m, lv, p, i, f) == lv[p] \in 1 .. 4 /\ m[p][i].present /\ m[p][i].addr = f

\* Every frame of the tree hangs on exactly one entry ...
OneParent(m, lv) ==
  \A f \in Frames : \A p, q \in Dom : \A i, j \in Index :
    Points(m, lv, p, i, f) /\ Points(m, lv, q, j, f) => p = q /\ i = j

HasParent(m, lv) ==
  \A f \in Dom : lv[f] \in 0 .. 3 =>
    \E p \in Dom : \E i \in Index : lv[p] = lv[f] + 1 /\ Points(m, lv, p, i, f)

\* ... and has its user bit from there.
Inherits(m, lv) ==
  \A f \in Frames : \A p \in Dom : \A i, j \in Index :
    lv[f] \in 1 .. 3 /\ Points(m, lv, p, i, f) /\ m[f][j].present => m[f][j].user = m[p][i].user

Tree(m, c, lv) ==
  Shape(m, c, lv) /\ Down(m, lv) /\ OneParent(m, lv) /\ HasParent(m, lv) /\ Inherits(m, lv)

\* n is m with the entry e, for the frame f, at index i of the table t; a new
\* table is empty.
Grows(n, m, lv, t, i, f, e) ==
  /\ n \in Memory /\ n[t][i] = e
  /\ \A g \in Dom : \A j \in Index : g # f /\ ~(g = t /\ j = i) => n[g][j] = m[g][j]
  /\ lv[t] > 1 => \A j \in Index : n[f][j] = Absent

\* What the entry must be for the tree to stay one.
Fits(m, lv, t, i, f, e) ==
  /\ t \in Dom /\ lv[t] \in 1 .. 4 /\ i \in Index /\ (lv[t] < 4 => i \in Low)
  /\ ~m[t][i].present /\ f \in Frames /\ lv[f] = 5
  /\ e \in Entry /\ e.present /\ ~e.huge /\ e.addr = f
  /\ \A p \in Dom : \A k \in Index : lv[t] < 4 /\ Points(m, lv, p, k, t) => m[p][k].user = e.user

\* The frame numbers are different.
LEMMA FrameNumbers ==
  /\ Frames \subseteq Dom /\ BootPml4 \in Dom /\ BootPdpt \in Dom /\ BootPage \in Dom
  /\ BootPml4 \notin Frames /\ BootPdpt \notin Frames /\ BootPage \notin Frames /\ -3 \notin Frames
  /\ BootPml4 # BootPdpt /\ BootPml4 # BootPage /\ BootPage # BootPdpt
BY TablesAssumption DEF Frames, Dom, BootPml4, BootPdpt, BootPage

\* Hanging a fresh frame on a free entry keeps the tree.
LEMMA AddNode ==
  ASSUME NEW m, NEW c, NEW lv, Tree(m, c, lv),
         NEW t, NEW i, NEW f, NEW e, Fits(m, lv, t, i, f, e),
         NEW n, Grows(n, m, lv, t, i, f, e)
  PROVE  Tree(n, c, [lv EXCEPT ![f] = lv[t] - 1])
<1> DEFINE l == lv[t]
           nl == [lv EXCEPT ![f] = lv[t] - 1]
<1>1. /\ m \in Memory /\ c \in Frames \cup {BootPml4} /\ lv \in [Dom -> 0 .. 5]
      /\ \A g \in Dom : lv[g] = 4 <=> g = c
      /\ \A g \in Dom : lv[g] \in 0 .. 3 => g \in Frames
      /\ \A j \in Index : m[BootPdpt][j] = entry_huge(BootPage)
  BY DEF Tree, Shape
<1>2. /\ t \in Dom /\ l \in 1 .. 4 /\ i \in Index /\ (l < 4 => i \in Low)
      /\ ~m[t][i].present /\ f \in Frames /\ lv[f] = 5
      /\ e \in Entry /\ e.present /\ ~e.huge /\ e.addr = f
  BY DEF Fits
<1>3. f \in Dom /\ f # t /\ f # BootPdpt /\ t # BootPdpt /\ f # c
  <2>1. f # t /\ f # BootPdpt /\ f \in Dom
    BY <1>2, FrameNumbers
  <2>2. BootPdpt \notin Frames /\ BootPdpt # c
    BY <1>1, FrameNumbers
  <2>3. t # BootPdpt
    <3>1. l = 4 \/ l \in 0 .. 3
      BY <1>2
    <3> QED
      BY <1>1, <1>2, <2>2, <3>1
  <2>4. f # c
    BY <1>1, <1>2, <2>1
  <2> QED
    BY <2>1, <2>3, <2>4
<1>4. /\ nl \in [Dom -> 0 .. 5] /\ nl[f] = l - 1 /\ nl[t] = l
      /\ \A g \in Dom : g # f => nl[g] = lv[g]
  BY <1>1, <1>2, <1>3
<1>5. /\ n \in Memory /\ n[t][i] = e
      /\ \A g \in Dom : \A j \in Index : g # f /\ ~(g = t /\ j = i) => n[g][j] = m[g][j]
      /\ l > 1 => \A j \in Index : n[f][j] = Absent
  BY DEF Grows
<1> HIDE DEF l, nl
<1>6. Shape(n, c, nl)
  <2>1. \A g \in Dom : nl[g] = 4 <=> g = c
    <3> TAKE g \in Dom
    <3>1. CASE g = f
      BY <1>2, <1>3, <1>4, <3>1
    <3>2. CASE g # f
      BY <1>1, <1>4, <3>2
    <3> QED
      BY <3>1, <3>2
  <2>2. \A g \in Dom : nl[g] \in 0 .. 3 => g \in Frames
    BY <1>1, <1>2, <1>4
  <2>3. \A j \in Index : n[BootPdpt][j] = entry_huge(BootPage)
    BY <1>1, <1>3, <1>5, FrameNumbers
  <2> QED
    BY <1>1, <1>4, <1>5, <2>1, <2>2, <2>3 DEF Shape
\* The entries of the new tree are the old ones and the one for f.
<1>7. ASSUME NEW p \in Dom, NEW k \in Index, nl[p] \in 1 .. 4, n[p][k].present
      PROVE  \/ p = t /\ k = i
             \/ ~(p = t /\ k = i) /\ p # f /\ nl[p] = lv[p] /\ n[p][k] = m[p][k]
  <2>1. CASE p = f
    <3>1. l > 1
      BY <1>2, <1>4, <1>7, <2>1
    <3>2. n[f][k] = Absent
      BY <1>5, <3>1
    <3> QED
      BY <1>7, <2>1, <3>2 DEF Absent
  <2>2. CASE p # f
    BY <1>4, <1>5, <2>2
  <2> QED
    BY <2>1, <2>2
<1>8. ASSUME NEW p \in Dom, NEW k \in Index, lv[p] \in 1 .. 4, m[p][k].present
      PROVE  /\ ~(p = t /\ k = i) /\ p # f /\ n[p][k] = m[p][k] /\ nl[p] = lv[p]
             /\ m[p][k].addr # f
  <2>1. ~(p = t /\ k = i) /\ p # f
    BY <1>2, <1>8
  <2>2. m[p][k].addr = BootPdpt \/ lv[m[p][k].addr] = lv[p] - 1
    BY <1>8 DEF Tree, Down
  <2>3. m[p][k].addr # f
    BY <1>2, <1>3, <1>8, <2>2
  <2> QED
    BY <1>4, <1>5, <2>1, <2>3
<1>9. Down(n, nl)
  <2> SUFFICES ASSUME NEW p \in Dom, NEW k \in Index, nl[p] \in 1 .. 4, n[p][k].present
               PROVE  /\ ~n[p][k].huge
                      /\ \/ nl[p] = 4 /\ n[p][k].addr = BootPdpt /\ ~n[p][k].user
                         \/ /\ n[p][k].addr \in Frames /\ nl[n[p][k].addr] = nl[p] - 1
                            /\ nl[p] < 4 => k \in Low
    BY DEF Down
  <2>1. CASE p = t /\ k = i
    BY <1>2, <1>4, <1>5, <2>1
  <2>2. CASE p # f /\ nl[p] = lv[p] /\ n[p][k] = m[p][k]
    <3>1. m[p][k].addr # f
      BY <1>8, <2>2
    <3>2. /\ ~m[p][k].huge
          /\ \/ lv[p] = 4 /\ m[p][k].addr = BootPdpt /\ ~m[p][k].user
             \/ /\ m[p][k].addr \in Frames /\ lv[m[p][k].addr] = lv[p] - 1
                /\ lv[p] < 4 => k \in Low
      BY <2>2 DEF Tree, Down
    <3>3. m[p][k].addr \in Frames => nl[m[p][k].addr] = lv[m[p][k].addr]
      BY <1>4, <3>1, FrameNumbers
    <3> QED
      BY <2>2, <3>2, <3>3
  <2> QED
    BY <1>7, <2>1, <2>2
<1>10. ASSUME NEW p \in Dom, NEW k \in Index, NEW g \in Frames, Points(n, nl, p, k, g)
       PROVE  \/ g = f /\ p = t /\ k = i
              \/ g # f /\ Points(m, lv, p, k, g) /\ n[p][k] = m[p][k]
  <2>1. nl[p] \in 1 .. 4 /\ n[p][k].present /\ n[p][k].addr = g
    BY <1>10 DEF Points
  <2>2. CASE p = t /\ k = i
    BY <1>2, <1>5, <2>1, <2>2
  <2>3. CASE p # f /\ nl[p] = lv[p] /\ n[p][k] = m[p][k]
    BY <1>8, <2>1, <2>3 DEF Points
  <2> QED
    BY <1>7, <2>1, <2>2, <2>3
<1>11. OneParent(n, nl)
  <2> SUFFICES ASSUME NEW g \in Frames, NEW p \in Dom, NEW q \in Dom, NEW j \in Index, NEW k \in Index,
                      Points(n, nl, p, j, g), Points(n, nl, q, k, g)
               PROVE  p = q /\ j = k
    BY DEF OneParent
  <2>1. CASE g = f
    BY <1>10, <2>1
  <2>2. CASE g # f
    <3>1. Points(m, lv, p, j, g) /\ Points(m, lv, q, k, g)
      BY <1>10, <2>2
    <3> QED
      BY <3>1 DEF Tree, OneParent
  <2> QED
    BY <2>1, <2>2
<1>12. HasParent(n, nl)
  <2> SUFFICES ASSUME NEW g \in Dom, nl[g] \in 0 .. 3
               PROVE  \E p \in Dom : \E k \in Index : nl[p] = nl[g] + 1 /\ Points(n, nl, p, k, g)
    BY DEF HasParent
  <2>1. CASE g = f
    BY <1>2, <1>4, <1>5, <2>1 DEF Points
  <2>2. CASE g # f
    <3>1. nl[g] = lv[g]
      BY <1>4, <2>2
    <3>2. PICK p \in Dom, k \in Index : lv[p] = lv[g] + 1 /\ Points(m, lv, p, k, g)
      BY <3>1 DEF Tree, HasParent
    <3>3. n[p][k] = m[p][k] /\ nl[p] = lv[p]
      BY <1>8, <3>2 DEF Points
    <3> QED
      BY <3>1, <3>2, <3>3 DEF Points
  <2> QED
    BY <2>1, <2>2
<1>13. Inherits(n, nl)
  <2> SUFFICES ASSUME NEW g \in Frames, NEW p \in Dom, NEW j \in Index, NEW k \in Index,
                      nl[g] \in 1 .. 3, Points(n, nl, p, j, g), n[g][k].present
               PROVE  n[g][k].user = n[p][j].user
    BY DEF Inherits
  <2>0. g \in Dom
    BY FrameNumbers
  <2>1. CASE g = f
    <3>1. l > 1
      BY <1>2, <1>4, <2>1
    <3> QED
      BY <1>5, <2>1, <3>1 DEF Absent
  <2>2. CASE g # f /\ g = t /\ k = i
    <3>1. Points(m, lv, p, j, g) /\ n[p][j] = m[p][j]
      BY <1>10, <2>2
    <3>2. l < 4
      BY <1>2, <1>4, <2>2
    <3>3. m[p][j].user = e.user
      BY <2>2, <3>1, <3>2 DEF Fits, l
    <3> QED
      BY <1>5, <2>2, <3>1, <3>3
  <2>3. CASE g # f /\ ~(g = t /\ k = i)
    <3>1. Points(m, lv, p, j, g) /\ n[p][j] = m[p][j]
      BY <1>10, <2>3
    <3>2. lv[g] \in 1 .. 3 /\ n[g][k] = m[g][k]
      BY <1>4, <1>5, <2>0, <2>3, Zenon
    <3> QED
      BY <3>1, <3>2 DEF Tree, Inherits
  <2> QED
    BY <2>1, <2>2, <2>3
<1> QED
  BY <1>6, <1>9, <1>11, <1>12, <1>13 DEF Tree, nl

-----------------------------------------------------------------------------
(* Walks in the tree *)

\* The tables the walk for v meets below the top table, and whether it gets
\* there through tables of the kernel's own.
At3(m, c, v) == m[c][index4(v)].addr
At2(m, c, v) == m[At3(m, c, v)][index3(v)].addr
At1(m, c, v) == m[At2(m, c, v)][index2(v)].addr

Has3(m, c, v) == m[c][index4(v)].present /\ At3(m, c, v) \in Frames
Has2(m, c, v) == Has3(m, c, v) /\ m[At3(m, c, v)][index3(v)].present
Has1(m, c, v) == Has2(m, c, v) /\ m[At2(m, c, v)][index2(v)].present
Has0(m, c, v) == Has1(m, c, v) /\ m[At1(m, c, v)][index1(v)].present

Booted(m, c, v) == m[c][index4(v)].present /\ At3(m, c, v) = BootPdpt

\* What page v shows.
View(m, c, v) ==
  IF Booted(m, c, v) THEN [frame |-> BootPage, user |-> FALSE, nx |-> FALSE]
  ELSE IF Has0(m, c, v)
    THEN [frame |-> m[At1(m, c, v)][index1(v)].addr, user |-> m[c][index4(v)].user,
          nx |-> m[At1(m, c, v)][index1(v)].nx]
    ELSE Unmapped

\* What a walk meets: every table at its level, each hanging on the one before.
Levels(m, c, lv, v) ==
  /\ index4(v) \in Index /\ index3(v) \in Index /\ index2(v) \in Index /\ index1(v) \in Index
  /\ c \in Dom /\ lv[c] = 4
  /\ m[c][index4(v)].present => Booted(m, c, v) \/ Has3(m, c, v)
  /\ Booted(m, c, v) => ~Has3(m, c, v) /\ ~m[c][index4(v)].user
  /\ Has3(m, c, v) => /\ At3(m, c, v) \in Frames /\ lv[At3(m, c, v)] = 3
                      /\ Points(m, lv, c, index4(v), At3(m, c, v))
  /\ Has2(m, c, v) => /\ At2(m, c, v) \in Frames /\ lv[At2(m, c, v)] = 2
                      /\ Points(m, lv, At3(m, c, v), index3(v), At2(m, c, v))
  /\ Has1(m, c, v) => /\ At1(m, c, v) \in Frames /\ lv[At1(m, c, v)] = 1
                      /\ Points(m, lv, At2(m, c, v), index2(v), At1(m, c, v))
  /\ Has0(m, c, v) => /\ m[At1(m, c, v)][index1(v)].addr \in Frames
                      /\ lv[m[At1(m, c, v)][index1(v)].addr] = 0
                      /\ Points(m, lv, At1(m, c, v), index1(v), m[At1(m, c, v)][index1(v)].addr)

\* The level of every table on the way.
LEMMA WalkLevels ==
  ASSUME NEW m, NEW c, NEW lv, Tree(m, c, lv), NEW v \in Pages
  PROVE  Levels(m, c, lv, v)
<1> DEFINE i4 == index4(v)
           i3 == index3(v)
           i2 == index2(v)
           i1 == index1(v)
<1>1. i4 \in Index /\ i3 \in Index /\ i2 \in Index /\ i1 \in Index
  <2>1. Low \subseteq Index
    BY TablesAssumption DEF Low, Index
  <2> QED
    BY <2>1, PageDigits
<1>2. c \in Dom /\ lv[c] = 4
  BY FrameNumbers, Zenon DEF Tree, Shape, Dom
<1>3. \A p \in Dom : \A k \in Index : lv[p] \in 1 .. 4 /\ m[p][k].present =>
        \/ lv[p] = 4 /\ m[p][k].addr = BootPdpt /\ ~m[p][k].user
        \/ m[p][k].addr \in Frames /\ lv[m[p][k].addr] = lv[p] - 1
  BY DEF Tree, Down
<1> HIDE DEF i4, i3, i2, i1
<1> DEFINE n3 == m[c][i4].addr
           n2 == m[n3][i3].addr
           n1 == m[n2][i2].addr
           n0 == m[n1][i1].addr
<1>4. m[c][i4].present => (n3 = BootPdpt /\ ~m[c][i4].user) \/ (n3 \in Frames /\ lv[n3] = 3)
  BY <1>1, <1>2, <1>3
<1> HIDE DEF n3
<1>5. n3 \in Frames /\ lv[n3] = 3 /\ m[n3][i3].present => n2 \in Frames /\ lv[n2] = 2
  BY <1>1, <1>3, FrameNumbers
<1> HIDE DEF n2
<1>6. n2 \in Frames /\ lv[n2] = 2 /\ m[n2][i2].present => n1 \in Frames /\ lv[n1] = 1
  BY <1>1, <1>3, FrameNumbers
<1> HIDE DEF n1
<1>7. n1 \in Frames /\ lv[n1] = 1 /\ m[n1][i1].present => n0 \in Frames /\ lv[n0] = 0
  BY <1>1, <1>3, FrameNumbers
<1> HIDE DEF n0
<1>8. /\ At3(m, c, v) = n3 /\ At2(m, c, v) = n2 /\ At1(m, c, v) = n1
      /\ m[At1(m, c, v)][index1(v)].addr = n0
  BY DEF At3, At2, At1, n3, n2, n1, n0, i4, i3, i2, i1
<1>9. /\ Has3(m, c, v) <=> (m[c][i4].present /\ n3 \in Frames)
      /\ Has2(m, c, v) <=> (Has3(m, c, v) /\ m[n3][i3].present)
      /\ Has1(m, c, v) <=> (Has2(m, c, v) /\ m[n2][i2].present)
      /\ Has0(m, c, v) <=> (Has1(m, c, v) /\ m[n1][i1].present)
      /\ Booted(m, c, v) <=> (m[c][i4].present /\ n3 = BootPdpt)
  BY <1>8, Zenon DEF Has3, Has2, Has1, Has0, Booted, i4, i3, i2, i1
<1>10. m[c][i4].present => Booted(m, c, v) \/ Has3(m, c, v)
  BY <1>4, <1>9
<1>11. Booted(m, c, v) => ~Has3(m, c, v) /\ ~m[c][i4].user
  BY <1>4, <1>9, FrameNumbers, Zenon
<1>12. Has3(m, c, v) => n3 \in Frames /\ lv[n3] = 3 /\ Points(m, lv, c, i4, n3)
  BY <1>2, <1>4, <1>9, FrameNumbers, SMTT(30) DEF Points, n3
<1>13. Has2(m, c, v) => n2 \in Frames /\ lv[n2] = 2 /\ Points(m, lv, n3, i3, n2)
  BY <1>5, <1>9, <1>12 DEF Points, n2
<1>14. Has1(m, c, v) => n1 \in Frames /\ lv[n1] = 1 /\ Points(m, lv, n2, i2, n1)
  BY <1>6, <1>9, <1>13 DEF Points, n1
<1>15. Has0(m, c, v) => n0 \in Frames /\ lv[n0] = 0 /\ Points(m, lv, n1, i1, n0)
  BY <1>7, <1>9, <1>14 DEF Points, n0
<1> QED
  BY <1>1, <1>2, <1>8, <1>10, <1>11, <1>12, <1>13, <1>14, <1>15 DEF Levels, i4, i3, i2, i1

\* The facts of Levels, level by level: the indices and the top table.
LEMMA WalkBase ==
  ASSUME NEW m, NEW c, NEW lv, Tree(m, c, lv), NEW v \in Pages
  PROVE  /\ index4(v) \in Index /\ index3(v) \in Index /\ index2(v) \in Index /\ index1(v) \in Index
         /\ c \in Dom /\ lv[c] = 4
<1>1. Levels(m, c, lv, v)
  BY WalkLevels, Zenon
<1> QED
  BY <1>1, Zenon DEF Levels

\* A page under an entry of the bootloader's has no table of the tree.
LEMMA WalkTop ==
  ASSUME NEW m, NEW c, NEW lv, Tree(m, c, lv), NEW v \in Pages
  PROVE  /\ m[c][index4(v)].present => Booted(m, c, v) \/ Has3(m, c, v)
         /\ Booted(m, c, v) => ~Has3(m, c, v) /\ ~m[c][index4(v)].user
<1>1. Levels(m, c, lv, v)
  BY WalkLevels, Zenon
<1> QED
  BY <1>1, Zenon DEF Levels

\* The second table of a walk.
LEMMA Walk3 ==
  ASSUME NEW m, NEW c, NEW lv, Tree(m, c, lv), NEW v \in Pages, Has3(m, c, v)
  PROVE  /\ At3(m, c, v) \in Frames /\ lv[At3(m, c, v)] = 3
         /\ Points(m, lv, c, index4(v), At3(m, c, v))
<1>1. Levels(m, c, lv, v)
  BY WalkLevels, Zenon
<1> QED
  BY <1>1, Zenon DEF Levels

\* The third table of a walk.
LEMMA Walk2 ==
  ASSUME NEW m, NEW c, NEW lv, Tree(m, c, lv), NEW v \in Pages, Has2(m, c, v)
  PROVE  /\ At2(m, c, v) \in Frames /\ lv[At2(m, c, v)] = 2
         /\ Points(m, lv, At3(m, c, v), index3(v), At2(m, c, v))
<1>1. Levels(m, c, lv, v)
  BY WalkLevels, Zenon
<1> QED
  BY <1>1, Zenon DEF Levels

\* The last table of a walk.
LEMMA Walk1 ==
  ASSUME NEW m, NEW c, NEW lv, Tree(m, c, lv), NEW v \in Pages, Has1(m, c, v)
  PROVE  /\ At1(m, c, v) \in Frames /\ lv[At1(m, c, v)] = 1
         /\ Points(m, lv, At2(m, c, v), index2(v), At1(m, c, v))
<1>1. Levels(m, c, lv, v)
  BY WalkLevels, Zenon
<1> QED
  BY <1>1, Zenon DEF Levels

\* The frame a walk ends at.
LEMMA Walk0 ==
  ASSUME NEW m, NEW c, NEW lv, Tree(m, c, lv), NEW v \in Pages, Has0(m, c, v)
  PROVE  /\ m[At1(m, c, v)][index1(v)].addr \in Frames
         /\ lv[m[At1(m, c, v)][index1(v)].addr] = 0
<1>1. Levels(m, c, lv, v)
  BY WalkLevels, Zenon
<1> QED
  BY <1>1, Zenon DEF Levels

\* Two pages that share their last entry are one page.
LEMMA SamePage ==
  ASSUME NEW m, NEW c, NEW lv, Tree(m, c, lv), NEW v \in Pages, NEW w \in Pages,
         Has1(m, c, v), Has1(m, c, w), At1(m, c, v) = At1(m, c, w), index1(v) = index1(w)
  PROVE  v = w
<1>1. \A f \in Frames : \A p, q \in Dom : \A i, j \in Index :
        Points(m, lv, p, i, f) /\ Points(m, lv, q, j, f) => p = q /\ i = j
  BY DEF Tree, OneParent
<1>2. Has2(m, c, v) /\ Has2(m, c, w) /\ Has3(m, c, v) /\ Has3(m, c, w)
  BY Zenon DEF Has1, Has2
<1>3. At2(m, c, v) = At2(m, c, w) /\ index2(v) = index2(w)
  BY <1>1, <1>2, WalkBase, Walk2, Walk1, FrameNumbers, Zenon
<1>4. At3(m, c, v) = At3(m, c, w) /\ index3(v) = index3(w)
  BY <1>1, <1>2, <1>3, WalkBase, Walk3, Walk2, FrameNumbers, Zenon
<1>5. index4(v) = index4(w)
  BY <1>1, <1>2, <1>4, WalkBase, Walk3, FrameNumbers, Zenon
<1> QED
  BY <1>3, <1>4, <1>5, PageDigits

\* What the walk to the page x and the page itself make of the new entry.
Grown(n, m, c, t, i, f, e, x) ==
  /\ Has3(m, c, x) => /\ Has3(n, c, x) /\ At3(n, c, x) = At3(m, c, x)
                      /\ n[c][index4(x)] = m[c][index4(x)]
  /\ Has2(m, c, x) => /\ Has2(n, c, x) /\ At2(n, c, x) = At2(m, c, x)
                      /\ n[At3(m, c, x)][index3(x)] = m[At3(m, c, x)][index3(x)]
  /\ Has1(m, c, x) => /\ Has1(n, c, x) /\ At1(n, c, x) = At1(m, c, x)
                      /\ n[At2(m, c, x)][index2(x)] = m[At2(m, c, x)][index2(x)]
  /\ Booted(n, c, x) <=> Booted(m, c, x)
  /\ LET Hit == Has1(m, c, x) /\ At1(m, c, x) = t /\ index1(x) = i
     IN  /\ ~Hit => View(n, c, x) = View(m, c, x)
         /\ Hit => /\ View(m, c, x) = Unmapped
                   /\ View(n, c, x) = [frame |-> f, user |-> m[c][index4(x)].user, nx |-> e.nx]

\* A new entry lengthens walks and shows at most the page whose last entry it is.
LEMMA GrowWalks ==
  ASSUME NEW m, NEW c, NEW lv, Tree(m, c, lv),
         NEW t, NEW i, NEW f, NEW e, Fits(m, lv, t, i, f, e),
         NEW n, Grows(n, m, lv, t, i, f, e), NEW x \in Pages
  PROVE  Grown(n, m, c, t, i, f, e, x)
<1> DEFINE Hit == Has1(m, c, x) /\ At1(m, c, x) = t /\ index1(x) = i
<1>1. /\ t \in Dom /\ lv[t] \in 1 .. 4 /\ i \in Index
      /\ ~m[t][i].present /\ f \in Frames /\ lv[f] = 5
      /\ e.present /\ e.addr = f
  BY DEF Fits
<1>2. /\ n[t][i] = e
      /\ \A g \in Dom : \A j \in Index : g # f /\ ~(g = t /\ j = i) => n[g][j] = m[g][j]
      /\ lv[t] > 1 => \A j \in Index : ~n[f][j].present
  BY DEF Grows, Absent
<1>3. \A p \in Dom : \A k \in Index : lv[p] \in 1 .. 4 /\ m[p][k].present => n[p][k] = m[p][k]
  BY <1>1, <1>2
<1>4. \A p \in Dom : \A k \in Index : lv[p] \in 1 .. 4 =>
        n[p][k] = m[p][k] \/ (p = t /\ k = i /\ n[p][k].addr = f)
  BY <1>1, <1>2
<1> DEFINE i4 == index4(x)
           i3 == index3(x)
           i2 == index2(x)
           i1 == index1(x)
           n3 == At3(m, c, x)
           n2 == At2(m, c, x)
           n1 == At1(m, c, x)
<1>5. /\ i4 \in Index /\ i3 \in Index /\ i2 \in Index /\ i1 \in Index /\ c \in Dom /\ lv[c] = 4
      /\ Has3(m, c, x) => n3 \in Frames /\ lv[n3] = 3
      /\ Has2(m, c, x) => n2 \in Frames /\ lv[n2] = 2
      /\ Has1(m, c, x) => n1 \in Frames /\ lv[n1] = 1
  BY WalkBase, Walk3, Walk2, Walk1, ZenonT(40)
<1>6. /\ n3 = m[c][i4].addr /\ n2 = m[n3][i3].addr /\ n1 = m[n2][i2].addr
      /\ Has3(m, c, x) <=> (m[c][i4].present /\ n3 \in Frames)
      /\ Has2(m, c, x) <=> (Has3(m, c, x) /\ m[n3][i3].present)
      /\ Has1(m, c, x) <=> (Has2(m, c, x) /\ m[n2][i2].present)
      /\ Has0(m, c, x) <=> (Has1(m, c, x) /\ m[n1][i1].present)
      /\ Booted(m, c, x) <=> (m[c][i4].present /\ n3 = BootPdpt)
  BY Zenon DEF Has3, Has2, Has1, Has0, Booted, At3, At2, At1
<1> DEFINE k3 == At3(n, c, x)
           k2 == At2(n, c, x)
           k1 == At1(n, c, x)
<1>7. /\ k3 = n[c][i4].addr /\ k2 = n[k3][i3].addr /\ k1 = n[k2][i2].addr
      /\ Has3(n, c, x) <=> (n[c][i4].present /\ k3 \in Frames)
      /\ Has2(n, c, x) <=> (Has3(n, c, x) /\ n[k3][i3].present)
      /\ Has1(n, c, x) <=> (Has2(n, c, x) /\ n[k2][i2].present)
      /\ Has0(n, c, x) <=> (Has1(n, c, x) /\ n[k1][i1].present)
      /\ Booted(n, c, x) <=> (n[c][i4].present /\ k3 = BootPdpt)
  BY Zenon DEF Has3, Has2, Has1, Has0, Booted, At3, At2, At1
<1>8. /\ View(m, c, x) = IF Booted(m, c, x) THEN [frame |-> BootPage, user |-> FALSE, nx |-> FALSE]
                         ELSE IF Has0(m, c, x)
                           THEN [frame |-> m[n1][i1].addr, user |-> m[c][i4].user, nx |-> m[n1][i1].nx]
                           ELSE Unmapped
      /\ View(n, c, x) = IF Booted(n, c, x) THEN [frame |-> BootPage, user |-> FALSE, nx |-> FALSE]
                         ELSE IF Has0(n, c, x)
                           THEN [frame |-> n[k1][i1].addr, user |-> n[c][i4].user, nx |-> n[k1][i1].nx]
                           ELSE Unmapped
  BY DEF View
<1>9. f # BootPdpt /\ f \in Dom /\ BootPdpt \notin Frames /\ Frames \subseteq Dom
  BY <1>1, FrameNumbers
<1> HIDE DEF i4, i3, i2, i1, n3, n2, n1, k3, k2, k1
<1>10. Has3(m, c, x) => Has3(n, c, x) /\ k3 = n3 /\ n[c][i4] = m[c][i4]
  <2> SUFFICES ASSUME Has3(m, c, x) PROVE Has3(n, c, x) /\ k3 = n3 /\ n[c][i4] = m[c][i4]
    OBVIOUS
  <2>0. m[c][i4].present /\ c \in Dom /\ lv[c] = 4 /\ i4 \in Index /\ n3 \in Frames
    BY <1>5, <1>6, <1>9, Zenon
  <2>1. lv[c] \in 1 .. 4
    BY <2>0
  <2>2. n[c][i4] = m[c][i4]
    BY <1>3, <2>0, <2>1, Zenon
  <2> QED
    BY <1>6, <1>7, <2>0, <2>2, Zenon
<1>11. Has2(m, c, x) => Has2(n, c, x) /\ k2 = n2 /\ n[n3][i3] = m[n3][i3]
  <2> SUFFICES ASSUME Has2(m, c, x) PROVE Has2(n, c, x) /\ k2 = n2 /\ n[n3][i3] = m[n3][i3]
    OBVIOUS
  <2>0. m[n3][i3].present /\ n3 \in Dom /\ lv[n3] = 3 /\ i3 \in Index /\ Has3(n, c, x) /\ k3 = n3
    BY <1>5, <1>6, <1>9, <1>10, Zenon
  <2>1. lv[n3] \in 1 .. 4
    BY <2>0
  <2>2. n[n3][i3] = m[n3][i3]
    BY <1>3, <2>0, <2>1, Zenon
  <2> QED
    BY <1>6, <1>7, <2>0, <2>2, Zenon
<1>12. Has1(m, c, x) => Has1(n, c, x) /\ k1 = n1 /\ n[n2][i2] = m[n2][i2]
  <2> SUFFICES ASSUME Has1(m, c, x) PROVE Has1(n, c, x) /\ k1 = n1 /\ n[n2][i2] = m[n2][i2]
    OBVIOUS
  <2>0. m[n2][i2].present /\ n2 \in Dom /\ lv[n2] = 2 /\ i2 \in Index /\ Has2(n, c, x) /\ k2 = n2
    BY <1>5, <1>6, <1>9, <1>11, Zenon
  <2>1. lv[n2] \in 1 .. 4
    BY <2>0
  <2>2. n[n2][i2] = m[n2][i2]
    BY <1>3, <2>0, <2>1, Zenon
  <2> QED
    BY <1>6, <1>7, <2>0, <2>2, Zenon
<1>13. Booted(n, c, x) <=> Booted(m, c, x)
  <2>1. CASE n[c][i4] = m[c][i4]
    BY <1>6, <1>7, <2>1, Zenon
  <2>2. CASE c = t /\ i4 = i /\ n[c][i4].addr = f
    BY <1>1, <1>6, <1>7, <1>9, <2>2, Zenon
  <2> QED
    BY <1>4, <1>5, <2>1, <2>2
\* A walk that got to a table got there before, or met the new, empty one.
<1>14. Has2(n, c, x) => Has3(m, c, x)
  <2> SUFFICES ASSUME Has2(n, c, x) PROVE Has3(m, c, x)
    OBVIOUS
  <2>1. CASE n[c][i4] = m[c][i4]
    BY <1>6, <1>7, <2>1, Zenon
  <2>2. CASE c = t /\ i4 = i /\ n[c][i4].addr = f
    <3>1. ~n[f][i3].present
      BY <1>2, <1>5, <2>2
    <3> QED
      BY <1>7, <2>2, <3>1, Zenon
  <2> QED
    BY <1>4, <1>5, <2>1, <2>2
<1>15. Has1(n, c, x) => Has2(m, c, x)
  <2> SUFFICES ASSUME Has1(n, c, x) PROVE Has2(m, c, x)
    OBVIOUS
  <2>1. Has3(m, c, x) /\ k3 = n3 /\ n3 \in Dom /\ lv[n3] = 3
    BY <1>5, <1>7, <1>9, <1>10, <1>14, Zenon
  <2>2. CASE n[n3][i3] = m[n3][i3]
    BY <1>6, <1>7, <2>1, <2>2, Zenon
  <2>3. CASE n3 = t /\ i3 = i /\ n[n3][i3].addr = f
    <3>1. ~n[f][i2].present
      BY <1>2, <1>5, <2>1, <2>3, SMTT(30)
    <3> QED
      BY <1>7, <2>1, <2>3, <3>1, Zenon
  <2> QED
    BY <1>4, <1>5, <2>1, <2>2, <2>3
<1>16. Has0(n, c, x) => Has1(m, c, x)
  <2> SUFFICES ASSUME Has0(n, c, x) PROVE Has1(m, c, x)
    OBVIOUS
  <2>1. Has2(m, c, x) /\ k2 = n2 /\ n2 \in Dom /\ lv[n2] = 2
    BY <1>5, <1>7, <1>9, <1>11, <1>15, Zenon
  <2>2. CASE n[n2][i2] = m[n2][i2]
    BY <1>6, <1>7, <2>1, <2>2, Zenon
  <2>3. CASE n2 = t /\ i2 = i /\ n[n2][i2].addr = f
    <3>1. ~n[f][i1].present
      BY <1>2, <1>5, <2>1, <2>3
    <3> QED
      BY <1>7, <2>1, <2>3, <3>1, Zenon
  <2> QED
    BY <1>4, <1>5, <2>1, <2>2, <2>3
<1>17. Has1(m, c, x) => n1 \in Dom /\ lv[n1] = 1 /\ k1 = n1 /\ Has1(n, c, x) /\ Has3(m, c, x) /\ n[c][i4] = m[c][i4]
  BY <1>5, <1>6, <1>9, <1>10, <1>12, Zenon
<1>18. ASSUME ~Hit PROVE View(n, c, x) = View(m, c, x)
  <2>1. CASE Has1(m, c, x)
    <3>1. n[n1][i1] = m[n1][i1]
      BY <1>4, <1>5, <1>17, <1>18, <2>1 DEF n1, i1
    <3>2. Has0(n, c, x) <=> Has0(m, c, x)
      BY <1>6, <1>7, <1>17, <2>1, <3>1, Zenon
    <3> QED
      BY <1>8, <1>13, <1>17, <2>1, <3>1, <3>2, SMTT(30)
  <2>2. CASE ~Has1(m, c, x)
    <3>1. ~Has0(n, c, x) /\ ~Has0(m, c, x)
      BY <1>6, <1>16, <2>2, Zenon
    <3> QED
      BY <1>8, <1>13, <3>1
  <2> QED
    BY <2>1, <2>2, Zenon
<1>19. ASSUME Hit PROVE /\ View(m, c, x) = Unmapped
                        /\ View(n, c, x) = [frame |-> f, user |-> m[c][i4].user, nx |-> e.nx]
  <2>1. Has1(m, c, x) /\ n1 = t /\ i1 = i
    BY <1>19 DEF n1, i1
  <2>2. ~Booted(m, c, x)
    BY <1>6, <1>9, <1>17, <2>1, Zenon
  <2>3. ~Has0(m, c, x)
    BY <1>1, <1>6, <2>1, Zenon
  <2>4. Has0(n, c, x) /\ n[k1][i1] = e
    BY <1>1, <1>2, <1>7, <1>17, <2>1, Zenon
  <2> QED
    BY <1>1, <1>8, <1>13, <1>17, <2>1, <2>2, <2>3, <2>4
<1> QED
  BY <1>10, <1>11, <1>12, <1>13, <1>18, <1>19, Zenon DEF Grown, i4, i3, i2, i1, n3, n2, n1, k3, k2, k1

\* What the processor and the kernel read off the tables is what View says.
LEMMA SpaceView ==
  ASSUME NEW lv, Tree(mem, cr3, lv), NEW v \in Pages
  PROVE  /\ translate(v).present <=> (Booted(mem, cr3, v) \/ Has0(mem, cr3, v))
         /\ Booted(mem, cr3, v) => translate(v) = entry_huge(BootPage)
         /\ Has0(mem, cr3, v) => translate(v) = mem[At1(mem, cr3, v)][index1(v)]
         /\ UserMay(v) <=> (Has0(mem, cr3, v) /\ mem[cr3][index4(v)].user)
         /\ Space[v] = View(mem, cr3, v)
<1> DEFINE e4 == mem[cr3][index4(v)]
           e3 == mem[e4.addr][index3(v)]
           e2 == mem[e3.addr][index2(v)]
           e1 == mem[e2.addr][index1(v)]
           p == Path(v)
<1>0. /\ e4 = mem[cr3][index4(v)] /\ e3 = mem[e4.addr][index3(v)]
      /\ e2 = mem[e3.addr][index2(v)] /\ e1 = mem[e2.addr][index1(v)]
  BY Zenon
<1>1. p = IF ~e4.present THEN <<e4>>
          ELSE IF ~e3.present \/ e3.huge THEN <<e4, e3>>
          ELSE IF ~e2.present \/ e2.huge THEN <<e4, e3, e2>>
          ELSE <<e4, e3, e2, e1>>
  BY DEF Path
<1>2. translate(v) = p[Len(p)] /\ UserMay(v) = (p[Len(p)].present /\ \A i \in 1 .. Len(p) : p[i].user)
  BY DEF translate, UserMay
<1>3. Space[v] = IF translate(v).present
                   THEN [frame |-> translate(v).addr, user |-> UserMay(v), nx |-> translate(v).nx]
                   ELSE Unmapped
  BY Zenon DEF Space
<1>4. /\ At3(mem, cr3, v) = e4.addr /\ At2(mem, cr3, v) = e3.addr /\ At1(mem, cr3, v) = e2.addr
      /\ Has3(mem, cr3, v) <=> (e4.present /\ e4.addr \in Frames)
      /\ Has2(mem, cr3, v) <=> (Has3(mem, cr3, v) /\ e3.present)
      /\ Has1(mem, cr3, v) <=> (Has2(mem, cr3, v) /\ e2.present)
      /\ Has0(mem, cr3, v) <=> (Has1(mem, cr3, v) /\ e1.present)
      /\ Booted(mem, cr3, v) <=> (e4.present /\ e4.addr = BootPdpt)
  BY DEF Has3, Has2, Has1, Has0, Booted, At3, At2, At1
<1>5. View(mem, cr3, v) =
        IF Booted(mem, cr3, v) THEN [frame |-> BootPage, user |-> FALSE, nx |-> FALSE]
        ELSE IF Has0(mem, cr3, v) THEN [frame |-> e1.addr, user |-> e4.user, nx |-> e1.nx]
        ELSE Unmapped
  BY <1>4, Zenon DEF View
<1>a. /\ index4(v) \in Index /\ index3(v) \in Index /\ index2(v) \in Index /\ index1(v) \in Index
      /\ cr3 \in Dom /\ lv[cr3] = 4
      /\ mem[cr3][index4(v)].present => Booted(mem, cr3, v) \/ Has3(mem, cr3, v)
      /\ Booted(mem, cr3, v) => ~Has3(mem, cr3, v) /\ ~mem[cr3][index4(v)].user
      /\ Has3(mem, cr3, v) => lv[At3(mem, cr3, v)] = 3 /\ Points(mem, lv, cr3, index4(v), At3(mem, cr3, v))
      /\ Has2(mem, cr3, v) => /\ At2(mem, cr3, v) \in Frames /\ lv[At2(mem, cr3, v)] = 2
                              /\ Points(mem, lv, At3(mem, cr3, v), index3(v), At2(mem, cr3, v))
      /\ Has1(mem, cr3, v) => /\ At1(mem, cr3, v) \in Frames /\ lv[At1(mem, cr3, v)] = 1
                              /\ Points(mem, lv, At2(mem, cr3, v), index2(v), At1(mem, cr3, v))
  <2>1. Levels(mem, cr3, lv, v)
    BY WalkLevels, Zenon
  <2> QED  BY <2>1, Zenon DEF Levels
<1> HIDE DEF e4, e3, e2, e1, p
<1>6. /\ index4(v) \in Index /\ index3(v) \in Index /\ index2(v) \in Index /\ index1(v) \in Index
      /\ cr3 \in Dom /\ lv[cr3] = 4
      /\ e4.present => Booted(mem, cr3, v) \/ Has3(mem, cr3, v)
      /\ Booted(mem, cr3, v) => ~Has3(mem, cr3, v) /\ ~e4.user
      /\ Has3(mem, cr3, v) => lv[e4.addr] = 3 /\ Points(mem, lv, cr3, index4(v), e4.addr)
      /\ Has2(mem, cr3, v) => /\ e3.addr \in Frames /\ lv[e3.addr] = 2
                              /\ Points(mem, lv, e4.addr, index3(v), e3.addr)
      /\ Has1(mem, cr3, v) => /\ e2.addr \in Frames /\ lv[e2.addr] = 1
                              /\ Points(mem, lv, e3.addr, index2(v), e2.addr)
  BY <1>0, <1>4, <1>a, ZenonT(40)
<1>7. \A f \in Dom : \A i \in Index : lv[f] \in 1 .. 4 /\ mem[f][i].present => ~mem[f][i].huge
  BY DEF Tree, Down
<1>8. \A f \in Frames : \A q \in Dom : \A i, j \in Index :
        lv[f] \in 1 .. 3 /\ Points(mem, lv, q, i, f) /\ mem[f][j].present => mem[f][j].user = mem[q][i].user
  BY Zenon DEF Tree, Inherits
<1>9. Booted(mem, cr3, v) => e3 = entry_huge(BootPage)
  BY <1>0, <1>4, <1>6, Zenon DEF Tree, Shape
<1>10. mem \in Memory
  BY DEF Tree, Shape
<1>11. e4.user \in BOOLEAN
  BY <1>0, <1>6, <1>10, Zenon DEF Memory, Entry
<1>12. Has3(mem, cr3, v) /\ e3.present => ~e3.huge /\ e3.user = e4.user
  <2> SUFFICES ASSUME Has3(mem, cr3, v), e3.present PROVE ~e3.huge /\ e3.user = e4.user
    OBVIOUS
  <2>1. /\ e4.addr \in Frames /\ e4.addr \in Dom /\ lv[e4.addr] = 3
        /\ Points(mem, lv, cr3, index4(v), e4.addr) /\ cr3 \in Dom
        /\ mem[e4.addr][index3(v)] = e3 /\ mem[cr3][index4(v)] = e4
    BY <1>0, <1>4, <1>6, FrameNumbers, Zenon
  <2>2. lv[e4.addr] \in 1 .. 4 /\ lv[e4.addr] \in 1 .. 3
    BY <2>1
  <2>3. index4(v) \in Index /\ index3(v) \in Index /\ index2(v) \in Index /\ index1(v) \in Index
    BY <1>6, Zenon
  <2>4. mem[e4.addr][index3(v)].present
    BY <2>1, Zenon
  <2>5. ~mem[e4.addr][index3(v)].huge
    BY <1>7, <2>1, <2>2, <2>3, <2>4, Zenon
  <2>6. mem[e4.addr][index3(v)].user = mem[cr3][index4(v)].user
    BY <1>8, <2>1, <2>2, <2>3, <2>4
  <2> QED
    BY <2>1, <2>5, <2>6, Zenon
<1>13. Has2(mem, cr3, v) /\ e2.present => ~e2.huge /\ e2.user = e3.user
  <2> SUFFICES ASSUME Has2(mem, cr3, v), e2.present PROVE ~e2.huge /\ e2.user = e3.user
    OBVIOUS
  <2>1. /\ e3.addr \in Frames /\ e3.addr \in Dom /\ lv[e3.addr] = 2
        /\ Points(mem, lv, e4.addr, index3(v), e3.addr) /\ e4.addr \in Dom
        /\ mem[e3.addr][index2(v)] = e2 /\ mem[e4.addr][index3(v)] = e3
    BY <1>0, <1>4, <1>6, FrameNumbers, Zenon
  <2>2. lv[e3.addr] \in 1 .. 4 /\ lv[e3.addr] \in 1 .. 3
    BY <2>1
  <2>3. index4(v) \in Index /\ index3(v) \in Index /\ index2(v) \in Index /\ index1(v) \in Index
    BY <1>6, Zenon
  <2>4. mem[e3.addr][index2(v)].present
    BY <2>1, Zenon
  <2>5. ~mem[e3.addr][index2(v)].huge
    BY <1>7, <2>1, <2>2, <2>3, <2>4, Zenon
  <2>6. mem[e3.addr][index2(v)].user = mem[e4.addr][index3(v)].user
    BY <1>8, <2>1, <2>2, <2>3, <2>4
  <2> QED
    BY <2>1, <2>5, <2>6
<1>14. Has1(mem, cr3, v) /\ e1.present => e1.user = e2.user
  <2> SUFFICES ASSUME Has1(mem, cr3, v), e1.present PROVE e1.user = e2.user
    OBVIOUS
  <2>1. /\ e2.addr \in Frames /\ e2.addr \in Dom /\ lv[e2.addr] = 1
        /\ Points(mem, lv, e3.addr, index2(v), e2.addr) /\ e3.addr \in Dom
        /\ mem[e2.addr][index1(v)] = e1 /\ mem[e3.addr][index2(v)] = e2
    BY <1>0, <1>4, <1>6, FrameNumbers, Zenon
  <2>2. lv[e2.addr] \in 1 .. 4 /\ lv[e2.addr] \in 1 .. 3
    BY <2>1
  <2>3. index4(v) \in Index /\ index3(v) \in Index /\ index2(v) \in Index /\ index1(v) \in Index
    BY <1>6, Zenon
  <2>4. mem[e2.addr][index1(v)].present
    BY <2>1, Zenon
  <2>6. mem[e2.addr][index1(v)].user = mem[e3.addr][index2(v)].user
    BY <1>8, <2>1, <2>2, <2>3, <2>4, SMTT(30)
  <2> QED
    BY <2>1, <2>6
<1>15. CASE ~e4.present
  <2>1. p = <<e4>> /\ Len(p) = 1 /\ p[Len(p)] = e4
    BY <1>1, <1>15
  <2>2. ~Booted(mem, cr3, v) /\ ~Has0(mem, cr3, v)
    BY <1>4, <1>15
  <2>3. translate(v) = e4 /\ ~UserMay(v)
    BY <1>2, <1>15, <2>1, Zenon
  <2> QED
    BY <1>3, <1>5, <1>15, <2>2, <2>3
<1>16. CASE Booted(mem, cr3, v)
  <2>1. e3.present /\ e3.huge /\ e3.addr = BootPage /\ e3.user = FALSE /\ e3.nx = FALSE /\ e4.present
    BY <1>4, <1>9, <1>16, Zenon DEF entry_huge, entry_pointer, Absent
  <2>2. p = <<e4, e3>> /\ Len(p) = 2 /\ p[Len(p)] = e3 /\ 2 \in 1 .. Len(p)
    BY <1>1, <2>1
  <2>3. ~Has0(mem, cr3, v)
    BY <1>4, <1>6, <1>16, Zenon
  <2>4. translate(v) = e3 /\ UserMay(v) = FALSE
    BY <1>2, <2>1, <2>2, Zenon
  <2> QED
    BY <1>3, <1>5, <1>9, <1>16, <2>1, <2>3, <2>4, Zenon
<1>17. CASE Has3(mem, cr3, v) /\ ~Has2(mem, cr3, v)
  <2>1. p = <<e4, e3>> /\ Len(p) = 2 /\ p[Len(p)] = e3 /\ ~e3.present
    BY <1>1, <1>4, <1>17
  <2>2. ~Booted(mem, cr3, v) /\ ~Has0(mem, cr3, v)
    BY <1>4, <1>6, <1>17, Zenon
  <2>3. translate(v) = e3 /\ ~UserMay(v)
    BY <1>2, <2>1, Zenon
  <2> QED
    BY <1>3, <1>5, <2>1, <2>2, <2>3
<1>18. CASE Has2(mem, cr3, v) /\ ~Has1(mem, cr3, v)
  <2>1. p = <<e4, e3, e2>> /\ Len(p) = 3 /\ p[Len(p)] = e2 /\ ~e2.present
    BY <1>1, <1>4, <1>12, <1>18
  <2>2. ~Booted(mem, cr3, v) /\ ~Has0(mem, cr3, v)
    BY <1>4, <1>6, <1>18, Zenon
  <2>3. translate(v) = e2 /\ ~UserMay(v)
    BY <1>2, <2>1, Zenon
  <2> QED
    BY <1>3, <1>5, <2>1, <2>2, <2>3, Zenon
<1>19. CASE Has1(mem, cr3, v)
  <2>1. p = <<e4, e3, e2, e1>> /\ Len(p) = 4 /\ p[Len(p)] = e1
    BY <1>1, <1>4, <1>12, <1>13, <1>19, Zenon
  <2>2. ~Booted(mem, cr3, v) /\ Has2(mem, cr3, v) /\ Has3(mem, cr3, v) /\ e3.user = e4.user /\ e2.user = e4.user
    BY <1>4, <1>6, <1>12, <1>13, <1>19, Zenon
  <2>3. translate(v) = e1
    BY <1>2, <2>1
  <2>4. CASE ~e1.present
    <3>1. ~UserMay(v) /\ ~Has0(mem, cr3, v)
      BY <1>2, <1>4, <2>1, <2>4, Zenon
    <3> QED
      BY <1>3, <1>5, <2>2, <2>3, <2>4, <3>1, Zenon
  <2>5. CASE e1.present
    <3>1. e1.user = e4.user /\ Has0(mem, cr3, v)
      BY <1>4, <1>14, <1>19, <2>2, <2>5, SMTT(30)
    <3>2. p[1].user = e4.user /\ p[2].user = e4.user /\ p[3].user = e4.user /\ p[4].user = e4.user
      BY <2>1, <2>2, <3>1
    <3>3. (\A i \in 1 .. Len(p) : p[i].user) <=> e4.user
      <4>1. \A i \in 1 .. Len(p) : p[i].user = e4.user
        BY <2>1, <3>2
      <4>2. 1 \in 1 .. Len(p)
        BY <2>1
      <4> HIDE DEF p
      <4> QED
        BY <4>1, <4>2, Zenon
    <3>4. UserMay(v) <=> e4.user
      BY <1>2, <2>1, <2>5, <3>3, Zenon
    <3>5. UserMay(v) = e4.user
      <4>1. UserMay(v) \in BOOLEAN
        BY <1>2, Zenon
      <4> QED
        BY <1>11, <3>4, <4>1, Zenon
    <3>6. Space[v] = View(mem, cr3, v)
      BY <1>3, <1>5, <2>2, <2>3, <2>5, <3>1, <3>5
    <3> QED
      BY <1>0, <1>4, <2>2, <2>3, <2>5, <3>1, <3>4, <3>6, ZenonT(40)
  <2> QED
    BY <2>4, <2>5, Zenon
<1> QED
  BY <1>4, <1>6, <1>15, <1>16, <1>17, <1>18, <1>19, Zenon

-----------------------------------------------------------------------------
(* map_page_impl *)

\* The frames of the pool that are in the tree.
Used(lv) == {f \in Frames : lv[f] # 5}

WalkRec == [ok : BOOLEAN, at : Dom, mem : Memory, free : SUBSET Frames]

\* n has the top entries of m, but for a new one at i with the user bit u.
SameTops(n, m, i, u) ==
  \A k \in Index : \/ n[cr3][k] = m[cr3][k]
                   \/ k = i /\ ~m[cr3][k].present /\ n[cr3][k].present /\ n[cr3][k].user = u

\* A walk under construction over the memory m, the pool fr and the levels l:
\* the tree, the frames and what every page shows.
Building(w, lv, m, fr, l, i, u) ==
  /\ w \in WalkRec /\ Tree(w.mem, cr3, lv)
  /\ w.free \cap Used(lv) = {} /\ w.free \cup Used(lv) = fr \cup Used(l)
  /\ \A x \in Pages : View(w.mem, cr3, x) = View(m, cr3, x)
  /\ SameTops(w.mem, m, i, u)

\* Where the walk stands, and where it goes next.
Standing(w, lv, j, u) ==
  /\ w.ok /\ lv[w.at] \in 2 .. 4 /\ j \in Index /\ (lv[w.at] < 4 => j \in Low)
  /\ w.mem[w.at][j].present => w.mem[w.at][j].addr \in Frames /\ w.mem[w.at][j].user = u
  /\ \A p \in Dom : \A k \in Index :
       lv[w.at] < 4 /\ Points(w.mem, lv, p, k, w.at) => w.mem[p][k].user = u

\* Walks keep the tables they had.
Kept(n, m) ==
  \A x \in Pages :
    /\ Has3(m, cr3, x) => /\ Has3(n, cr3, x) /\ At3(n, cr3, x) = At3(m, cr3, x)
                          /\ n[cr3][index4(x)] = m[cr3][index4(x)]
    /\ Has2(m, cr3, x) => Has2(n, cr3, x) /\ At2(n, cr3, x) = At2(m, cr3, x)

\* The lowest of some numbers is one of them.
LEMMA LowestOf ==
  ASSUME NEW S, S \subseteq Nat, S # {}
  PROVE  Lowest(S) \in S /\ \A g \in S : Lowest(S) <= g
<1>1. \E f \in S : \A g \in S : f <= g
  BY LeastElement, Zenon
<1> QED
  BY <1>1, Zenon DEF Lowest

\* So is the lowest of some frames.
LEMMA LowestIn ==
  ASSUME NEW S, S \subseteq Frames, S # {}
  PROVE  Lowest(S) \in S
<1>1. S \subseteq Nat
  BY TablesAssumption DEF Frames
<1> QED
  BY <1>1, LowestOf, Zenon

\* The entries that are written.
LEMMA EntryTypes ==
  /\ Absent \in Entry
  /\ \A f \in Dom : \A u, x \in BOOLEAN :
       /\ entry_pointer(f, u) \in Entry /\ entry_page(f, u, x) \in Entry
       /\ entry_pointer(f, u).present /\ ~entry_pointer(f, u).huge
       /\ entry_pointer(f, u).addr = f /\ entry_pointer(f, u).user = u
       /\ entry_page(f, u, x).present /\ ~entry_page(f, u, x).huge
       /\ entry_page(f, u, x).addr = f /\ entry_page(f, u, x).user = u /\ entry_page(f, u, x).nx = x
<1>1. 0 \in Dom
  BY FrameNumbers DEF BootPml4
<1>2. Absent \in Entry
  BY <1>1 DEF Absent, Entry
<1>3. ASSUME NEW f \in Dom, NEW u \in BOOLEAN, NEW x \in BOOLEAN
      PROVE  /\ entry_pointer(f, u) \in Entry /\ entry_page(f, u, x) \in Entry
             /\ entry_pointer(f, u).present /\ ~entry_pointer(f, u).huge
             /\ entry_pointer(f, u).addr = f /\ entry_pointer(f, u).user = u
             /\ entry_page(f, u, x).present /\ ~entry_page(f, u, x).huge
             /\ entry_page(f, u, x).addr = f /\ entry_page(f, u, x).user = u /\ entry_page(f, u, x).nx = x
  <2> DEFINE a == [Absent EXCEPT !.present = TRUE]
             b == [a EXCEPT !.addr = f]
             c == [b EXCEPT !.user = u]
             d == [c EXCEPT !.nx = x]
  <2>0. ~Absent.huge
    BY DEF Absent
  <2>1. a \in Entry /\ a.present /\ ~a.huge
    BY <1>2, <2>0, Zenon DEF Entry
  <2>2. entry_pointer(f, u) = c /\ entry_page(f, u, x) = d
    BY DEF entry_pointer, entry_page
  <2> HIDE DEF a
  <2>3. b \in Entry /\ b.present /\ ~b.huge /\ b.addr = f
    BY <2>1 DEF Entry
  <2> HIDE DEF b
  <2>4. c \in Entry /\ c.present /\ ~c.huge /\ c.addr = f /\ c.user = u
    BY <2>3 DEF Entry
  <2> HIDE DEF c
  <2>5. d \in Entry /\ d.present /\ ~d.huge /\ d.addr = f /\ d.user = u /\ d.nx = x
    BY <2>4 DEF Entry
  <2> HIDE DEF d
  <2> QED
    BY <2>2, <2>4, <2>5
<1> QED
  BY <1>2, <1>3, Zenon

\* d is the walk w one table further down, at the entry j.
Descended(d, nl, w, lv, j, u) ==
  /\ Kept(d.mem, w.mem)
  /\ d.ok => /\ Points(d.mem, nl, w.at, j, d.at) /\ d.at \in Frames
             /\ nl[d.at] = lv[w.at] - 1 /\ d.mem[w.at][j].user = u

\* One level of map_page_impl: it follows the entry, hangs a new table on it or
\* gives up; nothing any page shows changes.
LEMMA DescendStep ==
  ASSUME NEW w, NEW lv, NEW m, NEW fr, NEW l, NEW i, NEW u \in BOOLEAN, NEW j,
         Building(w, lv, m, fr, l, i, u), Standing(w, lv, j, u), lv[w.at] = 4 => j = i
  PROVE  \E nl : /\ Building(Descend(w, j, u), nl, m, fr, l, i, u)
                 /\ Descended(Descend(w, j, u), nl, w, lv, j, u)
<1> DEFINE d == Descend(w, j, u)
           t == w.at
           n == w.mem
           e == n[t][j]
           L == lv[t]
<1>1. /\ w \in WalkRec /\ Tree(n, cr3, lv)
      /\ w.free \cap Used(lv) = {} /\ w.free \cup Used(lv) = fr \cup Used(l)
      /\ \A x \in Pages : View(n, cr3, x) = View(m, cr3, x)
      /\ SameTops(n, m, i, u)
  BY Zenon DEF Building
<1>2. /\ w.ok /\ L \in 2 .. 4 /\ j \in Index /\ (L < 4 => j \in Low)
      /\ e.present => e.addr \in Frames /\ e.user = u
      /\ \A p \in Dom : \A k \in Index : L < 4 /\ Points(n, lv, p, k, t) => n[p][k].user = u
  BY DEF Standing
<1>3. t \in Dom /\ n \in Memory /\ w.free \in SUBSET Frames /\ w.ok \in BOOLEAN
  BY <1>1, Zenon DEF WalkRec
<1>4. lv \in [Dom -> 0 .. 5]
  BY <1>1 DEF Tree, Shape
<1>5. CASE e.present
  <2>1. d = [w EXCEPT !.at = e.addr]
    BY <1>2, <1>5, Zenon DEF Descend
  <2>2. e.addr \in Frames /\ e.addr \in Dom
    BY <1>2, <1>5, FrameNumbers
  <2>3. d \in WalkRec /\ d.at = e.addr /\ d.mem = n /\ d.free = w.free /\ d.ok = w.ok
    BY <1>1, <2>1, <2>2, Zenon DEF WalkRec
  <2>4. Building(d, lv, m, fr, l, i, u)
    BY <1>1, <2>3 DEF Building
  <2>5. Kept(d.mem, n)
    BY <2>3, Zenon DEF Kept
  <2>6. lv[e.addr] = L - 1
    <3>1. BootPdpt \notin Frames /\ L \in 1 .. 4
      BY <1>2, FrameNumbers
    <3>2. \A f \in Dom : \A k \in Index : lv[f] \in 1 .. 4 /\ n[f][k].present =>
            n[f][k].addr = BootPdpt \/ lv[n[f][k].addr] = lv[f] - 1
      BY <1>1, Zenon DEF Tree, Down
    <3> QED
      BY <1>2, <1>3, <1>5, <2>2, <3>1, <3>2, ZenonT(40)
  <2>7. Points(n, lv, t, j, e.addr)
    BY <1>2, <1>5 DEF Points
  <2>8. Descended(d, lv, w, lv, j, u)
    BY <1>2, <1>5, <2>2, <2>3, <2>5, <2>6, <2>7, ZenonT(40) DEF Descended
  <2> QED
    BY <2>4, <2>8, Zenon
<1>6. CASE ~e.present /\ w.free = {}
  <2>1. d = [w EXCEPT !.ok = FALSE]
    BY <1>2, <1>6 DEF Descend
  <2>2. d \in WalkRec /\ d.mem = n /\ d.free = w.free /\ ~d.ok
    BY <1>1, <2>1, Zenon DEF WalkRec
  <2>3. Building(d, lv, m, fr, l, i, u)
    BY <1>1, <2>2 DEF Building
  <2>4. Kept(d.mem, n)
    BY <2>2, Zenon DEF Kept
  <2>5. Descended(d, lv, w, lv, j, u)
    BY <2>2, <2>4, Zenon DEF Descended
  <2> QED
    BY <2>3, <2>5, Zenon
<1>7. CASE ~e.present /\ w.free # {}
  <2> DEFINE f == Lowest(w.free)
             e2 == entry_pointer(f, u)
             n2 == [n EXCEPT ![f] = zero_table, ![t][j] = e2]
             nl == [lv EXCEPT ![f] = L - 1]
  <2>1. d = [ok |-> TRUE, at |-> f, free |-> w.free \ {f}, mem |-> n2]
    BY <1>2, <1>7, Zenon DEF Descend
  <2>2. f \in w.free /\ f \in Frames /\ f \in Dom
    BY <1>3, <1>7, LowestIn, FrameNumbers, Zenon
  <2>3. lv[f] = 5
    BY <1>1, <2>2, Zenon DEF Used
  <2>4. f # t
    BY <1>2, <2>3, SMTT(30)
  <2>5. e2 \in Entry /\ e2.present /\ ~e2.huge /\ e2.addr = f /\ e2.user = u
    BY <2>2, EntryTypes
  <2>6. zero_table \in [Index -> Entry] /\ \A k \in Index : zero_table[k] = Absent
    BY EntryTypes, Zenon DEF zero_table
  <2> HIDE DEF f, e2
  <2>7. /\ n2 \in Memory /\ n2[t][j] = e2 /\ n2[f] = zero_table
        /\ \A g \in Dom : \A k \in Index : g # f /\ ~(g = t /\ k = j) => n2[g][k] = n[g][k]
    BY <1>2, <1>3, <2>2, <2>4, <2>5, <2>6, Zenon DEF Memory
  <2> HIDE DEF n2
  <2>8. Grows(n2, n, lv, t, j, f, e2)
    BY <2>6, <2>7, Zenon DEF Grows
  <2>9. Fits(n, lv, t, j, f, e2)
    <3>1. L \in 1 .. 4
      BY <1>2
    <3> QED
      BY <1>2, <1>3, <1>7, <2>2, <2>3, <2>5, <3>1, ZenonT(40) DEF Fits
  <2>10. Tree(n2, cr3, nl)
    BY <1>1, <2>8, <2>9, AddNode, Zenon
  <2>11. ASSUME NEW x \in Pages
         PROVE  /\ View(n2, cr3, x) = View(n, cr3, x)
                /\ Has3(n, cr3, x) => /\ Has3(n2, cr3, x) /\ At3(n2, cr3, x) = At3(n, cr3, x)
                                      /\ n2[cr3][index4(x)] = n[cr3][index4(x)]
                /\ Has2(n, cr3, x) => Has2(n2, cr3, x) /\ At2(n2, cr3, x) = At2(n, cr3, x)
    <3>1. Has1(n, cr3, x) => lv[At1(n, cr3, x)] = 1
      BY <1>1, Walk1, Zenon
    <3>2. L # 1
      BY <1>2
    <3>3. ~(Has1(n, cr3, x) /\ At1(n, cr3, x) = t /\ index1(x) = j)
      BY <3>1, <3>2, Zenon
    <3> QED
      <4>1. Grown(n2, n, cr3, t, j, f, e2, x)
        BY <1>1, <2>8, <2>9, GrowWalks, Zenon
      <4> HIDE DEF t, n, e, L, d, nl
      <4> QED  BY <3>3, <4>1, Zenon DEF Grown
  <2>12. Kept(n2, n)
    BY <2>11, Zenon DEF Kept
  <2>13. nl \in [Dom -> 0 .. 5] /\ nl[f] = L - 1 /\ nl[t] = L /\ \A g \in Dom : g # f => nl[g] = lv[g]
    BY <1>2, <1>3, <1>4, <2>2, <2>4
  <2> HIDE DEF nl
  <2>14. Used(nl) = Used(lv) \cup {f}
    <3>1. L - 1 # 5
      BY <1>2
    <3> QED
      BY <2>2, <2>13, <3>1, FrameNumbers, Zenon DEF Used
  <2>15. SameTops(n2, m, i, u)
    <3> SUFFICES ASSUME NEW k \in Index
                 PROVE  \/ n2[cr3][k] = m[cr3][k]
                        \/ k = i /\ ~m[cr3][k].present /\ n2[cr3][k].present /\ n2[cr3][k].user = u
      BY DEF SameTops
    <3>1. cr3 \in Dom /\ lv[cr3] = 4 /\ (L = 4 => t = cr3)
      BY <1>1, <1>3, FrameNumbers, Zenon DEF Tree, Shape, Dom
    <3>2. cr3 # f
      BY <2>3, <3>1
    <3>3. CASE cr3 = t /\ k = j
      <4>1. k = i /\ n2[cr3][k] = e2
        BY <2>7, <3>1, <3>3, Zenon
      <4>2. ~n[cr3][k].present
        BY <1>7, <3>3, Zenon
      <4>3. \/ n[cr3][k] = m[cr3][k]
            \/ k = i /\ ~m[cr3][k].present /\ n[cr3][k].present /\ n[cr3][k].user = u
        BY <1>1, Zenon DEF SameTops
      <4>4. ~m[cr3][k].present
        BY <4>2, <4>3, Zenon
      <4> QED
        BY <2>5, <4>1, <4>4, Zenon
    <3>4. CASE ~(cr3 = t /\ k = j)
      <4>1. n2[cr3][k] = n[cr3][k]
        BY <2>7, <3>1, <3>2, <3>4, Zenon
      <4> QED
        BY <1>1, <4>1, Zenon DEF SameTops
    <3> QED
      BY <3>3, <3>4, SMTT(30)
  <2>16. d \in WalkRec /\ d.ok /\ d.at = f /\ d.mem = n2 /\ d.free = w.free \ {f}
    BY <1>3, <2>1, <2>2, <2>7, SMTT(30) DEF WalkRec
  <2>17. d.free \cap Used(nl) = {} /\ d.free \cup Used(nl) = fr \cup Used(l)
    BY <1>1, <2>2, <2>14, <2>16
  <2> HIDE DEF d
  <2>18. Building(d, nl, m, fr, l, i, u)
    BY <1>1, <2>10, <2>11, <2>15, <2>16, <2>17, ZenonT(40) DEF Building, nl
  <2>19. Points(n2, nl, t, j, f)
    BY <1>2, <2>5, <2>7, <2>13 DEF Points
  <2>20. Descended(d, nl, w, lv, j, u)
    BY <2>2, <2>5, <2>7, <2>12, <2>13, <2>16, <2>19, Zenon DEF Descended
  <2> QED
    BY <2>18, <2>20, Zenon DEF d
<1> QED
  BY <1>5, <1>6, <1>7, Zenon

\* What map_page_impl leaves: the page, or nothing but tables.
Mapped(r, lv, m, fr, l, v, phys, u, nx) ==
  /\ r.ok \in BOOLEAN /\ r.free \in SUBSET Frames /\ Tree(r.mem, cr3, lv)
  /\ r.free \cap Used(lv) = {} /\ SameTops(r.mem, m, index4(v), u)
  /\ r.ok => /\ r.free \cup Used(lv) = fr \cup Used(l) \cup {phys}
             /\ \A x \in Pages : View(r.mem, cr3, x) =
                  IF x = v THEN [frame |-> phys, user |-> u, nx |-> nx] ELSE View(m, cr3, x)
  /\ ~r.ok => /\ r.free \cup Used(lv) = fr \cup Used(l)
              /\ \A x \in Pages : View(r.mem, cr3, x) = View(m, cr3, x)

\* Before the call: the page is free, the frame is in nobody's tree, and a top
\* entry on the way has the bit that is asked for.
Mappable(m, fr, l, v, phys, u, nx) ==
  /\ Tree(m, cr3, l) /\ fr \in SUBSET Frames /\ fr \cap Used(l) = {}
  /\ v \in Pages /\ phys \in Frames /\ phys \notin fr \cup Used(l)
  /\ u \in BOOLEAN /\ nx \in BOOLEAN /\ View(m, cr3, v) = Unmapped
  /\ m[cr3][index4(v)].present => m[cr3][index4(v)].user = u

\* A page that shows nothing is under no entry of the boot loader's.
LEMMA NotBooted ==
  ASSUME NEW m, NEW lv, Tree(m, cr3, lv), NEW v \in Pages, View(m, cr3, v) = Unmapped
  PROVE  ~Booted(m, cr3, v) /\ ~Has0(m, cr3, v)
<1> DEFINE a == m[At1(m, cr3, v)][index1(v)].addr
<1>1. Has0(m, cr3, v) => a \in Frames /\ a # -3
  <2>1. Has0(m, cr3, v) => a \in Frames
    BY Walk0, Zenon
  <2> HIDE DEF a
  <2> QED  BY <2>1, FrameNumbers, Zenon
<1>2. Unmapped.frame = -3 /\ BootPage # -3
  BY DEF Unmapped, BootPage
<1>3. Booted(m, cr3, v) => View(m, cr3, v).frame = BootPage
  BY DEF View
<1>4. Has0(m, cr3, v) /\ ~Booted(m, cr3, v) => View(m, cr3, v).frame = a
  BY Zenon DEF View
<1> HIDE DEF a
<1> QED
  BY <1>1, <1>2, <1>3, <1>4

\* An entry at the frontier of v's walk is followed when it is present.
LEMMA Standings ==
  ASSUME NEW w, NEW lv, NEW u \in BOOLEAN, NEW v \in Pages,
         w \in WalkRec, w.ok, Tree(w.mem, cr3, lv), View(w.mem, cr3, v) = Unmapped
  PROVE  /\ w.at = cr3 /\ (w.mem[cr3][index4(v)].present => w.mem[cr3][index4(v)].user = u)
            => Standing(w, lv, index4(v), u) /\ lv[w.at] = 4
         /\ Has3(w.mem, cr3, v) /\ w.at = At3(w.mem, cr3, v) /\ w.mem[cr3][index4(v)].user = u
            => Standing(w, lv, index3(v), u) /\ lv[w.at] = 3
         /\ Has2(w.mem, cr3, v) /\ w.at = At2(w.mem, cr3, v) /\ w.mem[cr3][index4(v)].user = u
            => Standing(w, lv, index2(v), u) /\ lv[w.at] = 2
<1> DEFINE m == w.mem
           i4 == index4(v)
           i3 == index3(v)
           i2 == index2(v)
           n3 == At3(m, cr3, v)
           n2 == At2(m, cr3, v)
           n1 == At1(m, cr3, v)
<1>1. ~Booted(m, cr3, v)
  BY NotBooted
<1>2. /\ i4 \in Index /\ i3 \in Index /\ i2 \in Index
      /\ cr3 \in Dom /\ lv[cr3] = 4
      /\ m[cr3][i4].present => Has3(m, cr3, v)
      /\ Has3(m, cr3, v) => n3 \in Frames /\ lv[n3] = 3 /\ Points(m, lv, cr3, i4, n3)
      /\ Has2(m, cr3, v) => n2 \in Frames /\ lv[n2] = 2 /\ Points(m, lv, n3, i3, n2)
      /\ Has1(m, cr3, v) => n1 \in Frames /\ lv[n1] = 1 /\ Points(m, lv, n2, i2, n1)
  BY <1>1, WalkBase, WalkTop, Walk3, Walk2, Walk1, Zenon
<1>3. i3 \in Low /\ i2 \in Low
  BY PageDigits
<1>4. \A f \in Frames : \A p, q \in Dom : \A i, j \in Index :
        Points(m, lv, p, i, f) /\ Points(m, lv, q, j, f) => p = q /\ i = j
  BY Zenon DEF Tree, OneParent
<1>5. \A f \in Frames : \A p \in Dom : \A i, j \in Index :
        lv[f] \in 1 .. 3 /\ Points(m, lv, p, i, f) /\ m[f][j].present => m[f][j].user = m[p][i].user
  BY Zenon DEF Tree, Inherits
<1>6. /\ n3 = m[cr3][i4].addr /\ n2 = m[n3][i3].addr /\ n1 = m[n2][i2].addr
      /\ Has2(m, cr3, v) <=> (Has3(m, cr3, v) /\ m[n3][i3].present)
      /\ Has1(m, cr3, v) <=> (Has2(m, cr3, v) /\ m[n2][i2].present)
  BY Zenon DEF Has2, Has1, At3, At2, At1
<1> HIDE DEF m, i4, i3, i2, n3, n2, n1
<1>7. Has3(m, cr3, v) /\ m[n3][i3].present => m[n3][i3].user = m[cr3][i4].user
  BY <1>2, <1>5, FrameNumbers, SMTT(30)
<1>8. Has2(m, cr3, v) /\ m[n2][i2].present => m[n2][i2].user = m[n3][i3].user
  <2> SUFFICES ASSUME Has2(m, cr3, v), m[n2][i2].present PROVE m[n2][i2].user = m[n3][i3].user
    BY ZenonT(40)
  <2>1. n2 \in Frames /\ lv[n2] \in 1 .. 3 /\ Points(m, lv, n3, i3, n2)
    BY <1>2
  <2>2. n3 \in Dom
    BY <1>2, <1>6, FrameNumbers, Zenon
  <2> QED
    BY <1>2, <1>5, <2>1, <2>2
<1>9. ASSUME w.at = cr3, m[cr3][i4].present => m[cr3][i4].user = u
      PROVE  Standing(w, lv, i4, u) /\ lv[w.at] = 4
  <2>1. m[cr3][i4].present => m[cr3][i4].addr \in Frames /\ m[cr3][i4].user = u
    BY <1>2, <1>6, <1>9, Zenon
  <2>2. lv[w.at] = 4 /\ lv[w.at] \in 2 .. 4 /\ ~(lv[w.at] < 4)
    BY <1>2, <1>9
  <2> QED
    BY <1>2, <1>9, <2>1, <2>2, Zenon DEF Standing, m
<1>10. ASSUME Has3(m, cr3, v), w.at = n3, m[cr3][i4].user = u
       PROVE  Standing(w, lv, i3, u) /\ lv[w.at] = 3
  <2>1. \A p \in Dom : \A k \in Index : Points(m, lv, p, k, n3) => p = cr3 /\ k = i4
    BY <1>2, <1>4, <1>10, Zenon
  <2>2. \A p \in Dom : \A k \in Index : Points(m, lv, p, k, n3) => m[p][k].user = u
    BY <1>10, <2>1
  <2>3. m[n3][i3].present => m[n3][i3].addr \in Frames /\ m[n3][i3].user = u
    BY <1>2, <1>6, <1>7, <1>10, Zenon
  <2>4. lv[w.at] = 3 /\ lv[w.at] \in 2 .. 4
    BY <1>2, <1>10
  <2> QED
    BY <1>2, <1>3, <1>10, <2>2, <2>3, <2>4, Zenon DEF Standing, m
<1>11. ASSUME Has2(m, cr3, v), w.at = n2, m[cr3][i4].user = u
       PROVE  Standing(w, lv, i2, u) /\ lv[w.at] = 2
  <2>0. Has3(m, cr3, v) /\ m[n3][i3].present /\ m[n3][i3].user = u
    BY <1>6, <1>7, <1>11, Zenon
  <2>1. \A p \in Dom : \A k \in Index : Points(m, lv, p, k, n2) => p = n3 /\ k = i3
    BY <1>2, <1>4, <1>11, <2>0, FrameNumbers, Zenon
  <2>2. \A p \in Dom : \A k \in Index : Points(m, lv, p, k, n2) => m[p][k].user = u
    BY <2>0, <2>1, Zenon
  <2>3. m[n2][i2].present => m[n2][i2].addr \in Frames /\ m[n2][i2].user = u
    BY <1>2, <1>6, <1>8, <1>11, <2>0, ZenonT(40)
  <2>4. lv[w.at] = 2 /\ lv[w.at] \in 2 .. 4
    BY <1>2, <1>11, SMTT(30)
  <2> QED
    BY <1>2, <1>3, <1>11, <2>2, <2>3, <2>4, Zenon DEF Standing, m
<1> QED
  BY <1>9, <1>10, <1>11, Zenon DEF m, i4, i3, i2, n3, n2, n1

\* The three tables of map_page_impl are reached or the call fails.
LEMMA ThreeTables ==
  ASSUME NEW m, NEW fr, NEW l, NEW v, NEW phys, NEW u, NEW nx, Mappable(m, fr, l, v, phys, u, nx)
  PROVE  \E lv : LET w == Descend(Descend(Descend(Walk(m, fr), index4(v), u), index3(v), u), index2(v), u)
                 IN  /\ Building(w, lv, m, fr, l, index4(v), u)
                     /\ w.ok => /\ Has1(w.mem, cr3, v) /\ w.at = At1(w.mem, cr3, v)
                                /\ w.mem[cr3][index4(v)].user = u
<1> DEFINE i4 == index4(v)
           w0 == Walk(m, fr)
           w1 == Descend(w0, i4, u)
           w2 == Descend(w1, index3(v), u)
           w3 == Descend(w2, index2(v), u)
           Ok(w, lv) == Building(w, lv, m, fr, l, i4, u)
<1>1. /\ Tree(m, cr3, l) /\ fr \in SUBSET Frames /\ fr \cap Used(l) = {}
      /\ v \in Pages /\ u \in BOOLEAN /\ View(m, cr3, v) = Unmapped
      /\ m[cr3][i4].present => m[cr3][i4].user = u
  BY Zenon DEF Mappable
<1>2. m \in Memory /\ cr3 \in Dom
  BY <1>1, FrameNumbers, Zenon DEF Tree, Shape, Dom
<1>3. w0.ok /\ w0.at = cr3 /\ w0.mem = m /\ w0.free = fr /\ w0 \in WalkRec
  BY <1>1, <1>2, Zenon DEF Walk, WalkRec
<1> HIDE DEF w0
<1>4. Ok(w0, l)
  BY <1>1, <1>3, Zenon DEF Building, SameTops
<1>5. \A w : ~w.ok => \A j : Descend(w, j, u) = w
  BY ZenonT(40) DEF Descend
<1>6. ASSUME NEW w, NEW lv, Ok(w, lv)
      PROVE  w \in WalkRec /\ Tree(w.mem, cr3, lv) /\ View(w.mem, cr3, v) = Unmapped
  <2>1. /\ w \in WalkRec /\ Tree(w.mem, cr3, lv)
        /\ \A x \in Pages : View(w.mem, cr3, x) = View(m, cr3, x)
    BY <1>6, Zenon DEF Building
  <2> QED
    BY <1>1, <2>1, Zenon
<1>7. \E lv : Ok(w1, lv) /\ (w1.ok => /\ Has3(w1.mem, cr3, v) /\ w1.at = At3(w1.mem, cr3, v)
                                      /\ w1.mem[cr3][i4].user = u)
  <2>1. Standing(w0, l, i4, u) /\ l[w0.at] = 4
    BY <1>1, <1>3, <1>4, <1>6, Standings, Zenon
  <2>2. PICK lv : /\ Building(w1, lv, m, fr, l, i4, u)
                  /\ w1.ok => /\ Points(w1.mem, lv, w0.at, i4, w1.at) /\ w1.at \in Frames
                              /\ w1.mem[w0.at][i4].user = u
    <3>1. PICK nl : Building(w1, nl, m, fr, l, i4, u) /\ Descended(w1, nl, w0, l, i4, u)
      BY <1>1, <1>4, <2>1, DescendStep, Zenon
    <3> QED  BY <3>1, Zenon DEF Descended
  <2>3. w1.ok => Has3(w1.mem, cr3, v) /\ w1.at = At3(w1.mem, cr3, v)
    BY <1>3, <2>2, Zenon DEF Points, Has3, At3
  <2> QED
    BY <1>3, <2>2, <2>3, Zenon
<1> HIDE DEF w1
<1>8. \E lv : Ok(w2, lv) /\ (w2.ok => /\ Has2(w2.mem, cr3, v) /\ w2.at = At2(w2.mem, cr3, v)
                                      /\ w2.mem[cr3][i4].user = u)
  <2>1. PICK lv : Ok(w1, lv) /\ (w1.ok => /\ Has3(w1.mem, cr3, v) /\ w1.at = At3(w1.mem, cr3, v)
                                          /\ w1.mem[cr3][i4].user = u)
    BY <1>7, Zenon
  <2>2. CASE ~w1.ok
    <3>1. w2 = w1
      BY <1>5, <2>2, Zenon
    <3> QED
      BY <2>1, <2>2, <3>1
  <2>3. CASE w1.ok
    <3>1. Standing(w1, lv, index3(v), u) /\ lv[w1.at] = 3
      BY <1>1, <1>6, <2>1, <2>3, Standings, Zenon
    <3>2. PICK nl : /\ Building(w2, nl, m, fr, l, i4, u) /\ Kept(w2.mem, w1.mem)
                    /\ w2.ok => /\ Points(w2.mem, nl, w1.at, index3(v), w2.at) /\ w2.at \in Frames
      <4>0. 3 # 4
        OBVIOUS
      <4>1. lv[w1.at] # 4
        BY <3>1, <4>0, Zenon
      <4>2. PICK nl : /\ Building(w2, nl, m, fr, l, i4, u)
                      /\ Descended(w2, nl, w1, lv, index3(v), u)
        BY <1>1, <2>1, <3>1, <4>1, DescendStep, Zenon
      <4> QED  BY <4>2, Zenon DEF Descended
    <3>3. Has3(w2.mem, cr3, v) /\ At3(w2.mem, cr3, v) = w1.at /\ w2.mem[cr3][i4] = w1.mem[cr3][i4]
      BY <1>1, <2>1, <2>3, <3>2, Zenon DEF Kept
    <3>4. w2.ok => Has2(w2.mem, cr3, v) /\ w2.at = At2(w2.mem, cr3, v)
      BY <3>2, <3>3, Zenon DEF Points, Has2, At2
    <3> QED
      BY <2>1, <2>3, <3>2, <3>3, <3>4
  <2> QED
    BY <2>2, <2>3, Zenon
<1> HIDE DEF w2
<1>9. \E lv : Ok(w3, lv) /\ (w3.ok => /\ Has1(w3.mem, cr3, v) /\ w3.at = At1(w3.mem, cr3, v)
                                      /\ w3.mem[cr3][i4].user = u)
  <2>1. PICK lv : Ok(w2, lv) /\ (w2.ok => /\ Has2(w2.mem, cr3, v) /\ w2.at = At2(w2.mem, cr3, v)
                                          /\ w2.mem[cr3][i4].user = u)
    BY <1>8
  <2>2. CASE ~w2.ok
    <3>1. w3 = w2
      BY <1>5, <2>2
    <3> QED
      BY <2>1, <2>2, <3>1
  <2>3. CASE w2.ok
    <3>1. Standing(w2, lv, index2(v), u) /\ lv[w2.at] = 2
      BY <1>1, <1>6, <2>1, <2>3, Standings, Zenon
    <3>2. PICK nl : /\ Building(w3, nl, m, fr, l, i4, u) /\ Kept(w3.mem, w2.mem)
                    /\ w3.ok => /\ Points(w3.mem, nl, w2.at, index2(v), w3.at) /\ w3.at \in Frames
      <4>0. 2 # 4
        OBVIOUS
      <4>1. lv[w2.at] # 4
        BY <3>1, <4>0, Zenon
      <4>2. PICK nl : /\ Building(w3, nl, m, fr, l, i4, u)
                      /\ Descended(w3, nl, w2, lv, index2(v), u)
        BY <1>1, <2>1, <3>1, <4>1, DescendStep, Zenon
      <4> QED  BY <4>2, Zenon DEF Descended
    <3>3. Has3(w2.mem, cr3, v)
      BY <2>1, <2>3, Zenon DEF Has2
    <3>4. Has2(w3.mem, cr3, v) /\ At2(w3.mem, cr3, v) = w2.at /\ w3.mem[cr3][i4] = w2.mem[cr3][i4]
      BY <1>1, <2>1, <2>3, <3>2, <3>3, Zenon DEF Kept
    <3>5. w3.ok => Has1(w3.mem, cr3, v) /\ w3.at = At1(w3.mem, cr3, v)
      BY <3>2, <3>4, Zenon DEF Points, Has1, At1
    <3> QED
      BY <2>1, <2>3, <3>2, <3>4, <3>5
  <2> QED
    BY <2>2, <2>3
<1> QED
  BY <1>9 DEF w0, w1, w2

\* The user bit of the top entry goes down the walk.
LEMMA WalkUser ==
  ASSUME NEW m, NEW lv, Tree(m, cr3, lv), NEW v \in Pages, Has1(m, cr3, v)
  PROVE  m[At2(m, cr3, v)][index2(v)].user = m[cr3][index4(v)].user
<1> DEFINE i4 == index4(v)
           i3 == index3(v)
           i2 == index2(v)
           n3 == At3(m, cr3, v)
           n2 == At2(m, cr3, v)
<1>1. Has2(m, cr3, v) /\ Has3(m, cr3, v) /\ m[n2][i2].present /\ m[n3][i3].present
  BY DEF Has1, Has2
<1>2. /\ i4 \in Index /\ i3 \in Index /\ i2 \in Index /\ cr3 \in Dom
      /\ n3 \in Frames /\ lv[n3] = 3 /\ Points(m, lv, cr3, i4, n3)
      /\ n2 \in Frames /\ lv[n2] = 2 /\ Points(m, lv, n3, i3, n2)
  <2>1. Levels(m, cr3, lv, v)
    BY WalkLevels, Zenon
  <2> QED  BY <1>1, <2>1, Zenon DEF Levels
<1>3. \A f \in Frames : \A p \in Dom : \A i, j \in Index :
        lv[f] \in 1 .. 3 /\ Points(m, lv, p, i, f) /\ m[f][j].present => m[f][j].user = m[p][i].user
  BY Zenon DEF Tree, Inherits
<1>4. n3 \in Dom /\ lv[n3] \in 1 .. 3 /\ lv[n2] \in 1 .. 3
  BY <1>2, FrameNumbers, SMTT(30)
<1> HIDE DEF i4, i3, i2, n3, n2
<1>5. m[n3][i3].user = m[cr3][i4].user
  BY <1>1, <1>2, <1>3, <1>4, SMTT(30)
<1>6. m[n2][i2].user = m[n3][i3].user
  BY <1>1, <1>2, <1>3, <1>4
<1> QED
  BY <1>5, <1>6, Zenon DEF i4, i3, i2, n3, n2

\* map_page_impl shows the page it was asked for, with the rights asked for, and
\* changes no other; without frames it changes what no page shows.
LEMMA MapPage ==
  ASSUME NEW m, NEW fr, NEW l, NEW v, NEW phys, NEW u, NEW nx, Mappable(m, fr, l, v, phys, u, nx)
  PROVE  \E lv : Mapped(map_page_impl(m, fr, v, phys, u, nx), lv, m, fr, l, v, phys, u, nx)
<1> DEFINE w == Descend(Descend(Descend(Walk(m, fr), index4(v), u), index3(v), u), index2(v), u)
           r == map_page_impl(m, fr, v, phys, u, nx)
           i4 == index4(v)
           i == index1(v)
           e == entry_page(phys, u, nx)
           t == w.at
           n == w.mem
           n2 == [n EXCEPT ![t][i] = e]
<1>1. r = IF w.ok THEN [w EXCEPT !.mem[w.at][index1(v)] = entry_page(phys, u, nx)] ELSE w
  BY ZenonT(40) DEF map_page_impl
<1>2. PICK lv : /\ Building(w, lv, m, fr, l, i4, u)
                /\ w.ok => Has1(n, cr3, v) /\ t = At1(n, cr3, v) /\ n[cr3][i4].user = u
  BY ThreeTables
<1> HIDE DEF w, r
<1>3. /\ w \in WalkRec /\ Tree(n, cr3, lv)
      /\ w.free \cap Used(lv) = {} /\ w.free \cup Used(lv) = fr \cup Used(l)
      /\ \A x \in Pages : View(n, cr3, x) = View(m, cr3, x)
      /\ SameTops(n, m, i4, u)
  BY <1>2, ZenonT(40) DEF Building
<1>4. /\ v \in Pages /\ phys \in Frames /\ phys \notin fr \cup Used(l)
      /\ u \in BOOLEAN /\ nx \in BOOLEAN /\ View(n, cr3, v) = Unmapped
  BY <1>3, ZenonT(40) DEF Mappable
<1>5. w.free \in SUBSET Frames /\ w.ok \in BOOLEAN /\ t \in Dom /\ n \in Memory
  BY <1>3 DEF WalkRec
<1>6. CASE ~w.ok
  <2>1. r = w
    BY <1>1, <1>6
  <2>2. Mapped(r, lv, m, fr, l, v, phys, u, nx)
    BY <1>3, <1>5, <1>6, <2>1, Zenon DEF Mapped
  <2> QED
    BY <2>2 DEF r
<1>7. CASE w.ok
  <2>1. r = [w EXCEPT !.mem = n2]
    BY <1>1, <1>5, <1>7
  <2> HIDE DEF n2
  <2>2. r.ok /\ r.mem = n2 /\ r.free = w.free
    BY <1>3, <1>7, <2>1 DEF WalkRec
  <2>3. lv[t] = 1 /\ i \in Index /\ i \in Low
    <3>0. Levels(n, cr3, lv, v)
      BY <1>3, <1>4, WalkLevels, Zenon
    <3>1. lv[t] = 1
      BY <1>2, <1>7, <3>0, Zenon DEF Levels
    <3>2. i \in Index
      BY <1>3, <1>4, WalkBase, Zenon
    <3>3. i \in Low
      BY <1>4, PageDigits, Zenon
    <3> QED  BY <3>1, <3>2, <3>3, Zenon
  <2>4. ~n[t][i].present
    <3>1. ~Has0(n, cr3, v)
      BY <1>3, <1>4, NotBooted, Zenon
    <3> QED
      BY <1>2, <1>7, <3>1, Zenon DEF Has0
  <2>5. lv[phys] = 5 /\ phys \in Dom
    BY <1>3, <1>4, FrameNumbers, ZenonT(40) DEF Used
  <2>6. e \in Entry /\ e.present /\ ~e.huge /\ e.addr = phys /\ e.user = u /\ e.nx = nx
    BY <1>4, <2>5, EntryTypes, SMTT(30)
  <2> HIDE DEF e, i
  <2>7. /\ n2 \in Memory /\ n2[t][i] = e
        /\ \A g \in Dom : \A k \in Index : ~(g = t /\ k = i) => n2[g][k] = n[g][k]
    BY <1>5, <2>3, <2>6, Zenon DEF Memory, n2
  <2>8. Grows(n2, n, lv, t, i, phys, e)
    BY <2>3, <2>7 DEF Grows
  <2>9. \A p \in Dom : \A k \in Index : Points(n, lv, p, k, t) => n[p][k].user = u
    <3>1. n[At2(n, cr3, v)][index2(v)].user = u
      BY <1>2, <1>3, <1>4, <1>7, WalkUser, Zenon
    <3>2. At2(n, cr3, v) \in Dom /\ index2(v) \in Index
      BY <1>2, <1>3, <1>4, <1>7, WalkBase, Walk2, FrameNumbers, Zenon DEF Has1
    <3>3. \A f \in Frames : \A p, q \in Dom : \A k, j \in Index :
            Points(n, lv, p, k, f) /\ Points(n, lv, q, j, f) => p = q /\ k = j
      BY <1>3, Zenon DEF Tree, OneParent
    <3>4. t \in Frames /\ Points(n, lv, At2(n, cr3, v), index2(v), t)
      <4>1. Levels(n, cr3, lv, v)
        BY <1>3, <1>4, WalkLevels, Zenon
      <4> QED  BY <1>2, <1>7, <4>1, Zenon DEF Levels
    <3> QED
      BY <3>1, <3>2, <3>3, <3>4
  <2>10. Fits(n, lv, t, i, phys, e)
    <3>1. lv[t] \in 1 .. 4
      BY <2>3
    <3> QED
      BY <1>4, <1>5, <2>3, <2>4, <2>5, <2>6, <2>9, <3>1, Zenon DEF Fits
  <2> DEFINE nl == [lv EXCEPT ![phys] = lv[t] - 1]
  <2>11. Tree(n2, cr3, nl)
    BY <1>3, <2>8, <2>10, AddNode, Zenon
  <2>12. ASSUME NEW x \in Pages
         PROVE  View(n2, cr3, x) =
                  IF x = v THEN [frame |-> phys, user |-> u, nx |-> nx] ELSE View(m, cr3, x)
    <3> DEFINE Hit == Has1(n, cr3, x) /\ At1(n, cr3, x) = t /\ index1(x) = i
    <3>1. /\ ~Hit => View(n2, cr3, x) = View(n, cr3, x)
          /\ Hit => View(n2, cr3, x) = [frame |-> phys, user |-> n[cr3][index4(x)].user, nx |-> e.nx]
      <4>1. Grown(n2, n, cr3, t, i, phys, e, x)
        BY <1>3, <2>8, <2>10, GrowWalks, Zenon
      <4> HIDE DEF t, n
      <4> QED  BY <4>1, Zenon DEF Grown
    <3>2. Hit <=> x = v
      BY <1>2, <1>3, <1>4, <1>7, SamePage, Zenon DEF i
    <3> QED
      BY <1>2, <1>3, <1>7, <2>6, <3>1, <3>2, Zenon
  <2>13. nl \in [Dom -> 0 .. 5] /\ nl[phys] = 0 /\ \A g \in Dom : g # phys => nl[g] = lv[g]
    <3>1. lv \in [Dom -> 0 .. 5]
      BY <1>3, Zenon DEF Tree, Shape
    <3>2. lv[t] - 1 = 0
      BY <2>3
    <3>3. 0 \in 0 .. 5
      OBVIOUS
    <3>4. nl = [lv EXCEPT ![phys] = 0]
      BY <3>2, Zenon
    <3> HIDE DEF nl
    <3> QED
      BY <2>5, <3>1, <3>3, <3>4, Zenon
  <2> HIDE DEF nl
  <2>14. Used(nl) = Used(lv) \cup {phys}
    BY <1>4, <2>13, FrameNumbers, SMTT(30) DEF Used
  <2>15. r.free \cap Used(nl) = {} /\ r.free \cup Used(nl) = fr \cup Used(l) \cup {phys}
    BY <1>3, <1>4, <2>2, <2>14, SMTT(30)
  <2>16. SameTops(n2, m, i4, u)
    <3>1. cr3 \in Dom /\ cr3 # t
      <4>1. cr3 \in Dom /\ lv[cr3] = 4
        BY <1>3, <1>4, WalkBase, Zenon
      <4>2. lv[cr3] # lv[t]
        BY <2>3, <4>1
      <4> QED  BY <4>1, <4>2, Zenon
    <3>2. \A k \in Index : n2[cr3][k] = n[cr3][k]
      BY <2>7, <3>1, Zenon
    <3> QED
      BY <1>3, <3>2 DEF SameTops
  <2>17. Mapped(r, nl, m, fr, l, v, phys, u, nx)
    BY <1>5, <1>7, <2>2, <2>11, <2>12, <2>15, <2>16, Zenon DEF Mapped, nl
  <2> QED
    BY <2>17 DEF r
<1> QED
  BY <1>6, <1>7

-----------------------------------------------------------------------------
(* What the tables say *)

\* What a page shows is a frame of the tree, the bootloader's, or nothing.
LEMMA ShownFrame ==
  ASSUME NEW m, NEW lv, Tree(m, cr3, lv), NEW x \in Pages
  PROVE  /\ View(m, cr3, x).frame \in Used(lv) \cup {BootPage, -3}
         /\ Has0(m, cr3, x) <=> View(m, cr3, x).frame \in Frames
         /\ View(m, cr3, x).user <=> (Has0(m, cr3, x) /\ m[cr3][index4(x)].user)
         /\ View(m, cr3, x) # Unmapped => m[cr3][index4(x)].present
<1> DEFINE e == m[At1(m, cr3, x)][index1(x)]
           b == [frame |-> BootPage, user |-> FALSE, nx |-> FALSE]
           y == [frame |-> e.addr, user |-> m[cr3][index4(x)].user, nx |-> e.nx]
<1>1. View(m, cr3, x) = IF Booted(m, cr3, x) THEN b ELSE IF Has0(m, cr3, x) THEN y ELSE Unmapped
  BY DEF View
<1>2. Has0(m, cr3, x) => e.addr \in Frames /\ lv[e.addr] = 0
  BY Walk0, Zenon
<1>3. Has0(m, cr3, x) => Has3(m, cr3, x)
  BY DEF Has0, Has1, Has2
<1>4. Booted(m, cr3, x) => ~Has3(m, cr3, x)
  BY WalkTop, Zenon
<1>5. /\ b.frame = BootPage /\ ~b.user /\ Unmapped.frame = -3 /\ ~Unmapped.user
      /\ y.frame = e.addr /\ y.user = m[cr3][index4(x)].user
  BY Zenon DEF Unmapped
<1>6. Booted(m, cr3, x) \/ Has3(m, cr3, x) => m[cr3][index4(x)].present
  BY DEF Booted, Has3
<1> HIDE DEF b, y, e
<1>7. CASE Booted(m, cr3, x)
  BY <1>1, <1>3, <1>4, <1>5, <1>6, <1>7, FrameNumbers, Zenon
<1>8. CASE ~Booted(m, cr3, x) /\ Has0(m, cr3, x)
  <2>1. e.addr \in Used(lv)
    BY <1>2, <1>8, SMTT(30) DEF Used
  <2> QED
    BY <1>1, <1>2, <1>3, <1>5, <1>6, <1>8, <2>1, Zenon
<1>9. CASE ~Booted(m, cr3, x) /\ ~Has0(m, cr3, x)
  BY <1>1, <1>5, <1>9, FrameNumbers
<1> QED
  BY <1>7, <1>8, <1>9, ZenonT(40)

\* The tables and pages the entries of some tables lead to.
Kids(S) ==
  {mem[x[1]][x[2]].addr : x \in {y \in S \X Index : mem[y[1]][y[2]].present
                                                  /\ ~mem[y[1]][y[2]].huge}}

Level(lv, l) == {f \in Dom : lv[f] = l}

\* A walk goes down level by level; the bootloader's table leads nowhere.
LEMMA KidsOf ==
  ASSUME NEW lv, Tree(mem, cr3, lv), NEW l \in 2 .. 4, NEW S,
         S \cup {BootPdpt} = Level(lv, l) \cup {BootPdpt}
  PROVE  Kids(S) \cup {BootPdpt} = Level(lv, l - 1) \cup {BootPdpt}
<1>1. /\ Shape(mem, cr3, lv) /\ Down(mem, lv) /\ HasParent(mem, lv)
  BY DEF Tree
<1>2. lv \in [Dom -> 0 .. 5] /\ BootPdpt \in Dom /\ Frames \subseteq Dom
  BY <1>1, FrameNumbers, Zenon DEF Shape
<1>3. lv[BootPdpt] = 5
  BY <1>1, <1>2, FrameNumbers DEF Shape
<1>4. \A i \in Index : mem[BootPdpt][i].huge
  BY <1>1, Zenon DEF Shape, entry_huge, entry_pointer, Absent
<1>5. ASSUME NEW f \in Kids(S), f # BootPdpt PROVE f \in Level(lv, l - 1)
  <2>1. PICK x \in S \X Index : mem[x[1]][x[2]].present /\ ~mem[x[1]][x[2]].huge
                                /\ mem[x[1]][x[2]].addr = f
    BY <1>5 DEF Kids
  <2>2. PICK p, i : p = x[1] /\ i = x[2] /\ p \in S /\ i \in Index
    BY <2>1
  <2>3. p \in Level(lv, l)
    BY <1>4, <2>1, <2>2
  <2>4. p \in Dom /\ lv[p] = l
    BY <2>3, Zenon DEF Level
  <2>5. f \in Frames /\ lv[f] = l - 1
    BY <1>1, <1>5, <2>1, <2>2, <2>4, SMTT(30) DEF Down
  <2> QED
    BY <1>2, <2>5, SMTT(30) DEF Level
<1>6. ASSUME NEW f \in Level(lv, l - 1) PROVE f \in Kids(S)
  <2>1. f \in Dom /\ lv[f] = l - 1
    BY <1>6, Zenon DEF Level
  <2>2. PICK p \in Dom : \E i \in Index : lv[p] = lv[f] + 1 /\ Points(mem, lv, p, i, f)
    BY <1>1, <2>1 DEF HasParent
  <2>3. PICK i \in Index : lv[p] = l /\ mem[p][i].present /\ mem[p][i].addr = f
    BY <2>1, <2>2, SMTT(30) DEF Points
  <2>4. ~mem[p][i].huge
    BY <1>1, <2>3 DEF Down
  <2>5. p # BootPdpt
    BY <1>3, <2>3
  <2>6. p \in S
    BY <2>3, <2>5 DEF Level
  <2>7. PICK x : x = <<p, i>>
    BY Zenon
  <2>8. x \in S \X Index /\ x[1] = p /\ x[2] = i
    BY <2>6, <2>7
  <2> QED
    BY <2>3, <2>4, <2>8 DEF Kids
<1> QED
  BY <1>5, <1>6

\* The live tables are the frames of levels 1 to 4.
LEMMA LiveLevels ==
  ASSUME NEW lv, Tree(mem, cr3, lv)
  PROVE  LiveTables \cap Frames = {f \in Frames : lv[f] \in 1 .. 4}
<1> DEFINE a == {cr3}
           b == Kids(a)
           c == Kids(b)
           d == Kids(c)
<1>1. LiveTables = a \cup b \cup c \cup d
  BY Zenon DEF LiveTables, Kids
<1>2. a \cup {BootPdpt} = Level(lv, 4) \cup {BootPdpt}
  BY FrameNumbers DEF Tree, Shape, Level
<1>3. b \cup {BootPdpt} = Level(lv, 4 - 1) \cup {BootPdpt}
  BY <1>2, KidsOf
<1> HIDE DEF b
<1>4. c \cup {BootPdpt} = Level(lv, 3 - 1) \cup {BootPdpt}
  BY <1>3, KidsOf
<1> HIDE DEF c
<1>5. d \cup {BootPdpt} = Level(lv, 2 - 1) \cup {BootPdpt}
  BY <1>4, KidsOf
<1> HIDE DEF a, d
<1>6. BootPdpt \notin Frames /\ Frames \subseteq Dom
  BY FrameNumbers, Zenon
<1>7. lv \in [Dom -> 0 .. 5]
  BY DEF Tree, Shape
<1>8. ASSUME NEW f \in Frames PROVE f \in LiveTables <=> lv[f] \in 1 .. 4
  <2>1. /\ f \in a <=> lv[f] = 4
        /\ f \in b <=> lv[f] = 3
        /\ f \in c <=> lv[f] = 2
        /\ f \in d <=> lv[f] = 1
    BY <1>2, <1>3, <1>4, <1>5, <1>6 DEF Level
  <2>2. f \in LiveTables <=> (lv[f] = 4 \/ lv[f] = 3 \/ lv[f] = 2 \/ lv[f] = 1)
    BY <1>1, <2>1
  <2>3. lv[f] \in 0 .. 5
    BY <1>6, <1>7
  <2> QED
    BY <2>2, <2>3
<1> QED
  BY <1>8

\* The frames shown as pages are those of level 0.
LEMMA DataLevels ==
  ASSUME NEW lv, Tree(mem, cr3, lv)
  PROVE  DataFrames \cap Frames = {f \in Frames : lv[f] = 0}
<1>1. /\ Shape(mem, cr3, lv) /\ Down(mem, lv) /\ HasParent(mem, lv)
  BY DEF Tree
<1>2. ASSUME NEW f \in DataFrames, f \in Frames PROVE lv[f] = 0
  <2>1. PICK v \in Pages : translate(v).present /\ translate(v).addr = f
    BY <1>2 DEF DataFrames
  <2>2. Booted(mem, cr3, v) => translate(v).addr = BootPage
    BY SpaceView, ZenonT(40) DEF entry_huge, entry_pointer, Absent
  <2>3. Has0(mem, cr3, v)
    BY <1>2, <2>1, <2>2, SpaceView, FrameNumbers, Zenon
  <2>4. translate(v) = mem[At1(mem, cr3, v)][index1(v)]
    BY <2>3, SpaceView, Zenon
  <2> QED
    BY <2>1, <2>3, <2>4, Walk0, Zenon
<1>3. ASSUME NEW f \in Frames, lv[f] = 0 PROVE f \in DataFrames
  <2>0. Frames \subseteq Dom /\ (\A g \in Dom : lv[g] \in Int)
    BY <1>1, FrameNumbers DEF Shape
  <2>1. PICK p1 \in Dom : \E i \in Index : lv[p1] = 1 /\ Points(mem, lv, p1, i, f)
    BY <1>1, <1>3, <2>0 DEF HasParent
  <2>2. PICK i1 \in Index : lv[p1] = 1 /\ Points(mem, lv, p1, i1, f)
    BY <2>1
  <2>3. PICK p2 \in Dom : \E i \in Index : lv[p2] = 2 /\ Points(mem, lv, p2, i, p1)
    BY <1>1, <2>2 DEF HasParent
  <2>4. PICK i2 \in Index : lv[p2] = 2 /\ Points(mem, lv, p2, i2, p1)
    BY <2>3, Zenon
  <2>5. PICK p3 \in Dom : \E i \in Index : lv[p3] = 3 /\ Points(mem, lv, p3, i, p2)
    BY <1>1, <2>4 DEF HasParent
  <2>6. PICK i3 \in Index : lv[p3] = 3 /\ Points(mem, lv, p3, i3, p2)
    BY <2>5, Zenon
  <2>7. PICK p4 \in Dom : \E i \in Index : lv[p4] = 4 /\ Points(mem, lv, p4, i, p3)
    BY <1>1, <2>6 DEF HasParent
  <2>8. PICK i4 \in Index : lv[p4] = 4 /\ Points(mem, lv, p4, i4, p3)
    BY <2>7, Zenon
  <2>9. p4 = cr3
    BY <1>1, <2>8 DEF Shape
  <2>10. /\ mem[p1][i1].present /\ mem[p1][i1].addr = f /\ i1 \in Low
         /\ mem[p2][i2].present /\ mem[p2][i2].addr = p1 /\ i2 \in Low
         /\ mem[p3][i3].present /\ mem[p3][i3].addr = p2 /\ i3 \in Low
         /\ mem[cr3][i4].present /\ mem[cr3][i4].addr = p3
    <3>1. \A p \in Dom : \A i \in Index : lv[p] \in 1 .. 3 /\ mem[p][i].present => i \in Low
      BY <1>1 DEF Down
    <3>2. lv[p1] \in 1 .. 3 /\ lv[p2] \in 1 .. 3 /\ lv[p3] \in 1 .. 3
      BY <2>2, <2>4, <2>6
    <3> QED
      BY <2>2, <2>4, <2>6, <2>8, <2>9, <3>1, <3>2, ZenonT(40) DEF Points
  <2>11. p3 \in Frames
    BY <1>1, <2>6 DEF Shape
  <2>12. PICK v : v = PageOf(i4, i3, i2, i1)
    BY SMTT(30)
  <2>13. v \in Pages /\ index4(v) = i4 /\ index3(v) = i3 /\ index2(v) = i2 /\ index1(v) = i1
    BY <2>10, <2>12, Digits
  <2>14. At3(mem, cr3, v) = p3 /\ At2(mem, cr3, v) = p2 /\ At1(mem, cr3, v) = p1
    BY <2>10, <2>13, Zenon DEF At3, At2, At1
  <2>15. Has0(mem, cr3, v)
    BY <2>10, <2>11, <2>13, <2>14, Zenon DEF Has0, Has1, Has2, Has3
  <2>16. translate(v) = mem[p1][i1] /\ translate(v).present
    BY <2>13, <2>14, <2>15, SpaceView, Zenon
  <2> QED
    BY <2>10, <2>13, <2>16 DEF DataFrames
<1> QED
  BY <1>2, <1>3

\* The translation of every page, as a fact of every state.
LEMMA SpaceViews ==
  (\E l : Tree(mem, cr3, l)) => \A x \in Pages : Space[x] = View(mem, cr3, x)
BY SpaceView

-----------------------------------------------------------------------------
(* Regions: the pages one top-level entry covers *)

\* The pages one top-level entry covers.
REGION == ENTRIES * ENTRIES * ENTRIES

\* The pages of a top-level entry.
LEMMA RegionPages ==
  ASSUME NEW i \in Index, NEW k \in 0 .. (REGION - 1)
  PROVE  /\ RegionPage(i) \in Nat /\ RegionPage(i) + k \in Pages
         /\ index4(RegionPage(i) + k) = i
         /\ RegionPage(i) = i * REGION
<1> DEFINE E == ENTRIES
           C == E * E * E
           p == C * i
           v == p + k
<1>0. E \in Nat \ {0} /\ TOP \in Nat \ {0} /\ i \in 0 .. (TOP - 1)
  BY TablesAssumption DEF Index
<1>1. C \in Nat \ {0} /\ k \in 0 .. (C - 1)
  BY <1>0 DEF REGION
<1>2. RegionPage(i) = p /\ p = i * REGION
  BY <1>0 DEF RegionPage, REGION
<1>3. TOP * E * E * E = C * TOP
  BY <1>0
<1> HIDE DEF E, C
<1>4. p \in Nat
  BY <1>0, <1>1
<1>5. v \in Nat
  BY <1>1, <1>4
<1>6. v \div C = i
  BY <1>0, <1>1, <1>5, Quotient
<1>7. i % TOP = i
  <2>1. i = TOP * 0 + i /\ 0 \in Nat
    BY <1>0
  <2> QED
    BY <1>0, <2>1, Quotient
<1>8. v \in 0 .. (C * TOP - 1)
  <2>1. i + 1 <= TOP
    BY <1>0
  <2>2. C * (i + 1) <= C * TOP /\ C * (i + 1) = C * i + C
    BY <1>0, <1>1, <2>1, Monotone
  <2> DEFINE y == C * TOP
  <2>3. y \in Nat /\ p + C <= y
    BY <1>0, <1>1, <2>2
  <2> HIDE DEF y, p
  <2>4. p + k \in 0 .. (y - 1)
    BY <1>1, <1>4, <2>3
  <2> QED
    BY <2>4 DEF y
<1>9. v \in Pages
  BY <1>3, <1>8 DEF Pages, E
<1>10. index4(v) = i
  BY <1>6, <1>7 DEF index4, C, E
<1> QED
  BY <1>2, <1>4, <1>9, <1>10

-----------------------------------------------------------------------------
(* The pages of the user program *)

Segment == [load : BOOLEAN, vaddr : Nat, memsz : Nat, writable : BOOLEAN]
PageRequest == [page : Nat, user : BOOLEAN, nx : BOOLEAN]

\* The pages of all segments, in order.
AllSegments(im) == FoldList(LAMBDA s, seg : s \o SegmentPages(seg), << >>, im)

\* How many pages some bytes take.
LEMMA PageCount ==
  ASSUME NEW b \in Nat
  PROVE  /\ PagesOf(b) \in Nat /\ b <= PAGE * PagesOf(b) /\ (b > 0 => PagesOf(b) >= 1)
         /\ b > PAGE * (PagesOf(b) - 1)
<1> DEFINE q == (b + PAGE - 1) \div PAGE
           r == (b + PAGE - 1) % PAGE
<1>1. PAGE \in Nat \ {0} /\ b + PAGE - 1 \in Nat
  BY PageAssumption
<1>2. q \in Nat /\ r \in 0 .. (PAGE - 1) /\ b + PAGE - 1 = PAGE * q + r
  BY <1>1, Division, Zenon
<1>3. PagesOf(b) = q
  BY DEF PagesOf
<1> HIDE DEF q, r
<1>4. PAGE * q \in Nat /\ (q = 0 => PAGE * q = 0) /\ PAGE * (q - 1) = PAGE * q - PAGE
  BY <1>1, <1>2
<1> DEFINE m == PAGE * q
<1> HIDE DEF m
<1>5. b + PAGE - 1 = m + r /\ PAGE * q = m /\ m \in Nat /\ (q = 0 => m = 0) /\ PAGE * (q - 1) = m - PAGE
  BY <1>2, <1>4 DEF m
<1> QED
  BY <1>1, <1>2, <1>3, <1>5

\* The pages of one segment follow each other.
LEMMA SegmentFacts ==
  ASSUME NEW h \in Segment
  PROVE  /\ PagesOf(h.memsz) \in Nat /\ SegmentPages(h) \in Seq(PageRequest)
         /\ Len(SegmentPages(h)) = PagesOf(h.memsz) /\ h.vaddr \div PAGE \in Nat
         /\ \A a \in 1 .. PagesOf(h.memsz) :
              /\ SegmentPages(h)[a].page = h.vaddr \div PAGE + (a - 1)
              /\ SegmentPages(h)[a].user = TRUE /\ SegmentPages(h)[a].nx = h.writable
<1> DEFINE n == PagesOf(h.memsz)
           q == h.vaddr \div PAGE
           s == SegmentPages(h)
<1>0. h.vaddr \in Nat /\ h.memsz \in Nat /\ h.writable \in BOOLEAN /\ PAGE \in Nat \ {0}
  BY PageAssumption DEF Segment
<1>1. n \in Nat /\ q \in Nat /\ h.vaddr = PAGE * q + (h.vaddr % PAGE) /\ h.vaddr % PAGE \in 0 .. (PAGE - 1)
  BY <1>0, PageCount, Division, Zenon
<1>2. ASSUME NEW a \in 1 .. n PROVE (h.vaddr + (a - 1) * PAGE) \div PAGE = q + (a - 1)
  <2> DEFINE r == h.vaddr % PAGE
             x == h.vaddr + (a - 1) * PAGE
             d == q + (a - 1)
  <2> HIDE DEF q, n
  <2>0. a - 1 \in Nat
    BY <1>1
  <2>1. PAGE * (q + (a - 1)) = PAGE * q + (a - 1) * PAGE /\ (a - 1) * PAGE \in Nat
    BY <1>0, <1>1, <2>0
  <2>2. x = PAGE * d + r /\ x \in Nat /\ d \in Nat
    BY <1>0, <1>1, <2>0, <2>1
  <2> HIDE DEF x, d, r
  <2>3. x \div PAGE = d
    BY <1>0, <1>1, <2>2, Quotient, SMTT(30) DEF r
  <2> QED
    BY <2>3 DEF x, d
<1>3. s = [a \in 1 .. n |-> [page |-> (h.vaddr + (a - 1) * PAGE) \div PAGE, user |-> TRUE, nx |-> h.writable]]
  BY DEF SegmentPages
<1> HIDE DEF n, q
<1>4. ASSUME NEW a \in 1 .. n
      PROVE  /\ s[a] \in PageRequest /\ s[a].page = q + (a - 1) /\ s[a].user = TRUE /\ s[a].nx = h.writable
  <2>1. s[a] = [page |-> q + (a - 1), user |-> TRUE, nx |-> h.writable]
    BY <1>2, <1>3, Zenon
  <2>2. q + (a - 1) \in Nat
    BY <1>1
  <2> QED
    BY <1>0, <2>1, <2>2 DEF PageRequest
<1>5. s \in [1 .. n -> PageRequest]
  BY <1>3, <1>4, Zenon
<1> HIDE DEF s
<1>6. s \in Seq(PageRequest) /\ Len(s) = n
  BY <1>1, <1>5
<1> QED
  BY <1>1, <1>4, <1>6, Zenon DEF n, q, s

SegmentsStep(s, T) ==
  [q \in T \X (1 .. Len(s)) |-> q[1] \o SegmentPages(s[q[2]])]

\* The pages of all segments are a run that adds one segment at a time.
LEMMA SegmentsRun ==
  ASSUME NEW s \in Seq(Segment)
  PROVE  \E r : /\ RunOf(r, SegmentsStep(s, Seq(PageRequest)), << >>, Seq(PageRequest), Len(s))
                /\ AllSegments(s) = r[Len(s)]
<1> DEFINE n == Len(s)
           T == Seq(PageRequest)
           g == SegmentsStep(s, T)
           o(a, i) == a \o SegmentPages(s[i])
           eq(it) == it = [u \in SUBSET DOMAIN s |->
                             IF u = {} THEN << >> ELSE o(it[u \ {Max(u)}], Max(u))]
           c == CHOOSE it : eq(it)
<1>1. AllSegments(s) = c[DOMAIN s]
  BY Zenon DEF AllSegments, FoldList, MapThenFoldSet
<1>2. n \in Nat /\ DOMAIN s = 1 .. n
  OBVIOUS
<1>3. \A a \in T : \A i \in 1 .. n : g[<<a, i>>] = o(a, i) /\ o(a, i) \in T
  <2> SUFFICES ASSUME NEW a \in T, NEW i \in 1 .. n PROVE g[<<a, i>>] = o(a, i) /\ o(a, i) \in T
    BY Zenon
  <2>1. s[i] \in Segment
    OBVIOUS
  <2>2. o(a, i) \in T
    <3>1. SegmentPages(s[i]) \in Seq(PageRequest)
      BY <2>1, SegmentFacts, Zenon
    <3> QED
      BY <3>1
  <2>3. g[<<a, i>>] = o(a, i)
    BY Zenon DEF SegmentsStep
  <2> QED
    BY <2>2, <2>3, Zenon
<1>4. FoldStep(g, << >>, T, n)
  <2>1. g \in [T \X (1 .. n) -> T]
    <3>1. g = [q \in T \X (1 .. n) |-> o(q[1], q[2])]
      BY DEF SegmentsStep
    <3>2. \A q \in T \X (1 .. n) : o(q[1], q[2]) \in T
      BY <1>3
    <3> HIDE DEF o, g, T, n
    <3> QED
      BY <3>1, <3>2
  <2> HIDE DEF g
  <2> QED
    BY <1>2, <2>1 DEF FoldStep
<1> HIDE DEF g, o
<1>5. \E it : eq(it)
  <2>1. PICK it \in [SUBSET (1 .. n) -> T] : Folds1(it, g, << >>, n)
    <3> HIDE DEF T, n
    <3> QED
      BY <1>4, FoldExists, Zenon
  <2>2. ASSUME NEW u \in SUBSET (1 .. n)
        PROVE  it[u] = IF u = {} THEN << >> ELSE o(it[u \ {Max(u)}], Max(u))
    <3>1. CASE u = {}
      BY <2>1, <3>1, Zenon DEF Folds1
    <3>2. CASE u # {}
      <4>1. Max(u) \in 1 .. n /\ u \ {Max(u)} \in SUBSET (1 .. n)
        BY <1>2, <3>2, MaxOf, Zenon
      <4>2. it[u] = g[<<it[u \ {Max(u)}], Max(u)>>] /\ it[u \ {Max(u)}] \in T
        BY <2>1, <3>2, <4>1, Zenon DEF Folds1
      <4> QED
        BY <1>3, <3>2, <4>1, <4>2, Zenon
    <3> QED
      BY <3>1, <3>2
  <2>3. eq(it)
    BY <1>2, <2>2
  <2> QED
    BY <2>3, Zenon
<1>6. eq(c)
  <2> HIDE DEF eq
  <2> QED
    BY <1>5
<1> HIDE DEF c
<1>7. GoesOn(c, g, << >>, T, n)
  <2>1. c[{}] = << >>
    BY <1>6
  <2>2. ASSUME NEW k \in 1 .. n, c[1 .. (k - 1)] \in T
        PROVE  c[1 .. k] = g[<<c[1 .. (k - 1)], k>>]
    <3>1. /\ 1 .. k \in SUBSET (1 .. n) /\ 1 .. k # {}
          /\ Max(1 .. k) = k /\ (1 .. k) \ {k} = 1 .. (k - 1)
      BY <1>2, PrefixFacts
    <3>2. c[1 .. k] = o(c[1 .. (k - 1)], k)
      BY <1>2, <1>6, <3>1, Zenon
    <3> QED
      BY <1>3, <2>2, <3>2
  <2> QED
    BY <2>1, <2>2 DEF GoesOn
<1>8. PICK r : RunOf(r, g, << >>, T, n) /\ c[1 .. n] = r[n]
  <2> HIDE DEF T, n
  <2> QED
    BY <1>4, <1>7, FoldRun
<1> QED
  BY <1>1, <1>2, <1>8 DEF g

\* s is the pages of the first n segments of im, each once.
Covers(s, im, n) ==
  /\ s \in Seq(PageRequest)
  /\ \A x \in 1 .. Len(s) : \E k \in 1 .. n : \E a \in 1 .. PagesOf(im[k].memsz) :
       s[x] = SegmentPages(im[k])[a]
  /\ \A k \in 1 .. n : \A a \in 1 .. PagesOf(im[k].memsz) :
       \E x \in 1 .. Len(s) : s[x] = SegmentPages(im[k])[a]
  /\ \A x, y \in 1 .. Len(s) : s[x].page = s[y].page => x = y

Disjoint(im) ==
  \A j, k \in 1 .. Len(im) : j # k =>
    \A a \in 1 .. PagesOf(im[j].memsz) : \A b \in 1 .. PagesOf(im[k].memsz) :
      SegmentPages(im[j])[a].page # SegmentPages(im[k])[b].page

\* Where the elements of a concatenation come from.
LEMMA ConcatAt ==
  ASSUME NEW E, NEW s \in Seq(E), NEW p \in Seq(E), NEW m, m = Len(p)
  PROVE  LET t == s \o p
         IN  /\ t \in Seq(E) /\ Len(s) \in Nat /\ Len(t) = Len(s) + m
             /\ \A x \in 1 .. Len(s) : t[x] = s[x] /\ x \in 1 .. Len(t)
             /\ \A a \in 1 .. m : t[Len(s) + a] = p[a] /\ Len(s) + a \in 1 .. Len(t)
             /\ \A x \in 1 .. Len(t) :
                  x \in 1 .. Len(s) \/ (x - Len(s) \in 1 .. m /\ x = Len(s) + (x - Len(s)))
<1> DEFINE t == s \o p
<1>1. t \in Seq(E) /\ Len(s) \in Nat /\ m \in Nat /\ Len(t) = Len(s) + m
  OBVIOUS
<1>2. \A x \in 1 .. Len(s) : t[x] = s[x]
  OBVIOUS
<1>3. \A a \in 1 .. m : t[Len(s) + a] = p[a]
  OBVIOUS
<1> HIDE DEF t
<1>4. /\ \A x \in 1 .. Len(s) : x \in 1 .. Len(t)
      /\ \A a \in 1 .. m : Len(s) + a \in 1 .. Len(t)
      /\ \A x \in 1 .. Len(t) :
           x \in 1 .. Len(s) \/ (x - Len(s) \in 1 .. m /\ x = Len(s) + (x - Len(s)))
  BY <1>1
<1> QED
  BY <1>1, <1>2, <1>3, <1>4 DEF t

\* One more segment.
LEMMA CoverMore ==
  ASSUME NEW im \in Seq(Segment), Disjoint(im), NEW n \in 1 .. Len(im), NEW s, Covers(s, im, n - 1)
  PROVE  Covers(s \o SegmentPages(im[n]), im, n)
<1> DEFINE h == im[n]
           p == SegmentPages(h)
           m == PagesOf(h.memsz)
           t == s \o p
<1>1. /\ m \in Nat /\ p \in Seq(PageRequest) /\ Len(p) = m /\ h.vaddr \div PAGE \in Nat
      /\ \A a \in 1 .. m : p[a].page = h.vaddr \div PAGE + (a - 1)
  <2>1. h \in Segment
    OBVIOUS
  <2> HIDE DEF h
  <2> QED
    BY <2>1, SegmentFacts, Zenon
<1>2. /\ s \in Seq(PageRequest)
      /\ \A x \in 1 .. Len(s) : \E k \in 1 .. (n - 1) : \E a \in 1 .. PagesOf(im[k].memsz) :
           s[x] = SegmentPages(im[k])[a]
      /\ \A k \in 1 .. (n - 1) : \A a \in 1 .. PagesOf(im[k].memsz) :
           \E x \in 1 .. Len(s) : s[x] = SegmentPages(im[k])[a]
      /\ \A x, y \in 1 .. Len(s) : s[x].page = s[y].page => x = y
  BY DEF Covers
<1>3. /\ \A k \in 1 .. (n - 1) : k \in 1 .. Len(im) /\ k \in 1 .. n /\ k # n
      /\ n \in 1 .. n /\ \A k \in 1 .. n : k \in 1 .. (n - 1) \/ k = n
  OBVIOUS
<1>4. \A j \in 1 .. (n - 1) : \A a \in 1 .. PagesOf(im[j].memsz) : \A b \in 1 .. m :
        SegmentPages(im[j])[a].page # p[b].page
  BY <1>3 DEF Disjoint
<1> HIDE DEF p, m, h
<1>5. \A a, b \in 1 .. m : p[a].page = p[b].page => a = b
  <2>1. PICK q : q = h.vaddr \div PAGE
    BY Zenon
  <2>2. q \in Nat /\ \A a \in 1 .. m : p[a].page = q + (a - 1)
    BY <1>1, <2>1, Zenon
  <2> QED  BY <1>1, <2>2
<1>6. /\ t \in Seq(PageRequest) /\ Len(s) \in Nat /\ Len(t) = Len(s) + m
      /\ \A x \in 1 .. Len(s) : t[x] = s[x] /\ x \in 1 .. Len(t)
      /\ \A a \in 1 .. m : t[Len(s) + a] = p[a] /\ Len(s) + a \in 1 .. Len(t)
      /\ \A x \in 1 .. Len(t) : x \in 1 .. Len(s) \/ (x - Len(s) \in 1 .. m /\ x = Len(s) + (x - Len(s)))
  BY <1>1, <1>2, ConcatAt, SMTT(30)
<1> HIDE DEF t
<1>7. ASSUME NEW x \in 1 .. Len(t)
      PROVE  \E k \in 1 .. n : \E a \in 1 .. PagesOf(im[k].memsz) : t[x] = SegmentPages(im[k])[a]
  <2>1. CASE x \in 1 .. Len(s)
    <3>0. PICK k \in 1 .. (n - 1) : \E a \in 1 .. PagesOf(im[k].memsz) : s[x] = SegmentPages(im[k])[a]
      BY <1>2, <2>1, Zenon
    <3>1. PICK a \in 1 .. PagesOf(im[k].memsz) : s[x] = SegmentPages(im[k])[a]
      BY <3>0
    <3>2. t[x] = SegmentPages(im[k])[a] /\ k \in 1 .. n
      BY <1>3, <1>6, <2>1, <3>1, Zenon
    <3> QED
      BY <3>2
  <2>2. CASE x - Len(s) \in 1 .. m /\ x = Len(s) + (x - Len(s))
    <3>1. t[x] = p[x - Len(s)]
      BY <1>6, <2>2, Zenon
    <3> QED
      BY <1>3, <2>2, <3>1 DEF p, m, h
  <2> QED
    BY <1>6, <2>1, <2>2, SMTT(30)
<1>8. ASSUME NEW k \in 1 .. n, NEW a \in 1 .. PagesOf(im[k].memsz)
      PROVE  \E x \in 1 .. Len(t) : t[x] = SegmentPages(im[k])[a]
  <2>1. CASE k \in 1 .. (n - 1)
    BY <1>2, <1>6, <2>1, SMTT(30)
  <2>2. CASE k = n
    <3>1. a \in 1 .. m /\ SegmentPages(im[k])[a] = p[a]
      BY <2>2 DEF p, m, h
    <3> QED
      BY <1>6, <3>1
  <2> QED
    BY <1>3, <2>1, <2>2, ZenonT(40)
<1>9. ASSUME NEW x \in 1 .. Len(s), NEW b \in 1 .. m PROVE s[x].page # p[b].page
  <2>0. PICK k \in 1 .. (n - 1) : \E a \in 1 .. PagesOf(im[k].memsz) : s[x] = SegmentPages(im[k])[a]
    BY <1>2, Zenon
  <2>1. PICK a \in 1 .. PagesOf(im[k].memsz) : s[x] = SegmentPages(im[k])[a]
    BY <2>0, Zenon
  <2>2. SegmentPages(im[k])[a].page # p[b].page
    BY <1>4
  <2> QED
    BY <2>1, <2>2
<1>10. ASSUME NEW x \in 1 .. Len(t), NEW y \in 1 .. Len(t), t[x].page = t[y].page PROVE x = y
  <2>1. CASE x \in 1 .. Len(s) /\ y \in 1 .. Len(s)
    BY <1>2, <1>6, <1>10, <2>1, Zenon
  <2>2. CASE x \in 1 .. Len(s) /\ y - Len(s) \in 1 .. m /\ y = Len(s) + (y - Len(s))
    <3>1. t[x] = s[x] /\ t[y] = p[y - Len(s)]
      BY <1>6, <2>2, Zenon
    <3> QED
      BY <1>9, <1>10, <2>2, <3>1, Zenon
  <2>3. CASE y \in 1 .. Len(s) /\ x - Len(s) \in 1 .. m /\ x = Len(s) + (x - Len(s))
    <3>1. t[y] = s[y] /\ t[x] = p[x - Len(s)]
      BY <1>6, <2>3, Zenon
    <3> QED
      BY <1>9, <1>10, <2>3, <3>1, Zenon
  <2>4. CASE /\ x - Len(s) \in 1 .. m /\ x = Len(s) + (x - Len(s))
             /\ y - Len(s) \in 1 .. m /\ y = Len(s) + (y - Len(s))
    <3>1. t[x] = p[x - Len(s)] /\ t[y] = p[y - Len(s)]
      BY <1>6, <2>4
    <3>2. x - Len(s) = y - Len(s)
      BY <1>5, <1>10, <2>4, <3>1, ZenonT(40)
    <3> QED
      BY <1>6, <3>2
  <2> QED
    BY <1>6, <2>1, <2>2, <2>3, <2>4
<1>11. Covers(t, im, n)
  BY <1>6, <1>7, <1>8, <1>10 DEF Covers
<1> QED
  BY <1>11 DEF t, p, h

\* The pages of all segments.
LEMMA SegmentsCover ==
  ASSUME NEW im \in Seq(Segment), Disjoint(im)
  PROVE  Covers(AllSegments(im), im, Len(im))
<1> DEFINE n == Len(im)
           T == Seq(PageRequest)
           g == SegmentsStep(im, T)
<1>0. n \in Nat
  OBVIOUS
<1>1. PICK r : RunOf(r, g, << >>, T, n) /\ AllSegments(im) = r[n]
  BY SegmentsRun
<1>2. r \in [0 .. n -> T] /\ r[0] = << >> /\ \A k \in 1 .. n : r[k] = g[<<r[k - 1], k>>]
  <2> HIDE DEF g, T, n
  <2> QED
    BY <1>1, Zenon DEF RunOf
<1>3. ASSUME NEW k \in 1 .. n PROVE r[k] = r[k - 1] \o SegmentPages(im[k])
  <2>1. k - 1 \in 0 .. n
    BY <1>0
  <2>2. r[k - 1] \in T
    <3> HIDE DEF T, n
    <3> QED
      BY <1>2, <2>1
  <2> QED
    BY <1>2, <2>2, Zenon DEF SegmentsStep
<1> DEFINE S == {k \in 0 .. n : Covers(r[k], im, k)}
<1>4. 0 \in S
  <2>1. << >> \in Seq(PageRequest) /\ Len(<< >>) = 0 /\ 1 .. 0 = {}
    OBVIOUS
  <2>2. Covers(<< >>, im, 0)
    BY <2>1 DEF Covers
  <2> QED
    BY <1>0, <1>2, <2>2
<1>5. ASSUME NEW k \in 1 .. n, k - 1 \in S PROVE k \in S
  <2>1. Covers(r[k - 1], im, k - 1)
    BY <1>5
  <2>2. Covers(r[k], im, k)
    BY <1>3, <2>1, CoverMore, Zenon
  <2> QED
    BY <2>2
<1>6. 0 .. n \subseteq S
  <2> HIDE DEF S, n
  <2> QED
    BY <1>0, <1>4, <1>5, BoundedInduction, Zenon
<1> QED
  BY <1>0, <1>1, <1>6

\* What bring_up can load: segments on pages of their own, with room behind them.
Loadable(im) ==
  /\ im \in Seq(Segment) /\ im # << >> /\ Disjoint(im)
  /\ \A k \in 1 .. Len(im) : PagesOf(im[k].vaddr + im[k].memsz) < REGION

\* The last end of a segment.
LEMMA LastEnd ==
  ASSUME NEW im, Loadable(im)
  PROVE  max_end(im) \in Ends(im) /\ \A k \in 1 .. Len(im) : im[k].vaddr + im[k].memsz <= max_end(im)
<1> DEFINE B == PAGE * REGION
           S == {B - d : d \in Ends(im)}
<1>1. PAGE \in Nat \ {0} /\ REGION \in Nat /\ B \in Nat
  BY PageAssumption, TablesAssumption DEF REGION
<1>2. im \in Seq(Segment) /\ Len(im) \in Nat /\ 1 \in 1 .. Len(im)
  BY DEF Loadable
<1>3. ASSUME NEW k \in 1 .. Len(im) PROVE /\ im[k].vaddr + im[k].memsz \in Nat
                                          /\ im[k].vaddr + im[k].memsz <= B
  <2> DEFINE b == im[k].vaddr + im[k].memsz
             n == PagesOf(b)
  <2>1. im[k] \in Segment
    BY <1>2
  <2>2. b \in Nat
    BY <2>1 DEF Segment
  <2>3. n < REGION
    BY DEF Loadable
  <2> HIDE DEF b
  <2>4. n \in Nat /\ b <= PAGE * n
    BY <2>2, PageCount, Zenon
  <2> HIDE DEF n
  <2>5. PAGE * n <= PAGE * REGION /\ PAGE * n \in Nat
    BY <1>1, <2>3, <2>4, Monotone
  <2>6. b <= B
    BY <1>1, <2>2, <2>4, <2>5
  <2> QED
    BY <2>2, <2>6 DEF b
<1> HIDE DEF B
<1>4. Ends(im) # {} /\ \A d \in Ends(im) : d \in Nat /\ d <= B
  BY <1>2, <1>3, Zenon DEF Ends
<1>5. S # {} /\ S \subseteq Nat
  BY <1>1, <1>4
<1>6. PICK x \in S : \A y \in S : x <= y
  BY <1>5, LeastElement, Zenon
<1>7. PICK e \in Ends(im) : x = B - e
  OBVIOUS
<1>8. \A d \in Ends(im) : d <= e
  BY <1>1, <1>4, <1>6, <1>7
<1>9. max_end(im) \in Ends(im) /\ \A d \in Ends(im) : d <= max_end(im)
  BY <1>8 DEF max_end
<1>10. \A k \in 1 .. Len(im) : im[k].vaddr + im[k].memsz \in Ends(im)
  BY DEF Ends
<1> QED
  BY <1>9, <1>10

\* Every page of a segment is before the stack's.
LEMMA BelowStack ==
  ASSUME NEW im, Loadable(im), NEW k \in 1 .. Len(im), NEW a \in 1 .. PagesOf(im[k].memsz)
  PROVE  SegmentPages(im[k])[a].page < StackPage(im)
<1> DEFINE h == im[k]
           q == h.vaddr \div PAGE
           m == PagesOf(h.memsz)
           e == max_end(im)
           s == PagesOf(e)
<1>1. PAGE \in Nat \ {0} /\ h \in Segment
  BY PageAssumption DEF Loadable
<1>2. h.vaddr \in Nat /\ h.memsz \in Nat
  BY <1>1 DEF Segment
<1>3. e \in Nat /\ h.vaddr + h.memsz <= e
  <2>1. \A j \in 1 .. Len(im) : im[j].vaddr + im[j].memsz \in Nat
    <3> SUFFICES ASSUME NEW j \in 1 .. Len(im) PROVE im[j].vaddr + im[j].memsz \in Nat
      OBVIOUS
    <3>1. im[j] \in Segment
      BY DEF Loadable
    <3> QED
      BY <3>1 DEF Segment
  <2>2. e \in Ends(im) /\ h.vaddr + h.memsz <= e
    BY LastEnd, Zenon
  <2> QED
    BY <2>1, <2>2 DEF Ends
<1>4. SegmentPages(h)[a].page = q + (a - 1) /\ m \in Nat
  BY <1>1, SegmentFacts, Zenon
<1> HIDE DEF h, e
<1>5. q \in Nat /\ h.vaddr = PAGE * q + (h.vaddr % PAGE) /\ h.vaddr % PAGE \in 0 .. (PAGE - 1)
  BY <1>1, <1>2, Division, Zenon
<1>6. h.memsz > PAGE * (m - 1)
  BY <1>2, PageCount, Zenon
<1>7. s \in Nat /\ e <= PAGE * s
  BY <1>3, PageCount
<1>8. a \in 1 .. m
  BY DEF h
<1> HIDE DEF q, m, s
<1>9. q + (a - 1) < s
  <2> SUFFICES ASSUME s <= q + (a - 1) PROVE FALSE
    BY <1>4, <1>5, <1>7, <1>8
  <2>1. s <= q + (m - 1) /\ m - 1 \in Nat
    BY <1>4, <1>5, <1>7, <1>8
  <2>2. PAGE * s <= PAGE * (q + (m - 1))
    <3> DEFINE c == q + (m - 1)
    <3>0. PAGE \in Nat /\ s \in Nat /\ q \in Nat
      BY <1>1, <1>5, <1>7, Zenon
    <3>1. c \in Nat /\ s <= c
      BY <1>4, <2>1, <3>0
    <3> HIDE DEF c
    <3>2. PAGE * s <= PAGE * c
      BY <3>0, <3>1, Monotone
    <3> QED
      BY <3>2 DEF c
  <2>3. PAGE * (q + (m - 1)) = PAGE * q + PAGE * (m - 1)
    BY <1>1, <1>5, <2>1
  <2>4. PAGE * q \in Nat /\ PAGE * (m - 1) \in Nat /\ PAGE * s \in Nat
    <3>1. PAGE \in Nat /\ q \in Nat /\ m - 1 \in Nat /\ s \in Nat
      BY <1>1, <1>5, <1>7, <2>1
    <3>2. \A a1, b1 \in Nat : a1 * b1 \in Nat
      OBVIOUS
    <3> QED
      BY <3>1, <3>2, Zenon
  <2> DEFINE pq == PAGE * q
             pm == PAGE * (m - 1)
             ps == PAGE * s
  <2>5. /\ ps <= pq + pm /\ pq \in Nat /\ pm \in Nat /\ ps \in Nat
        /\ h.vaddr >= pq /\ h.memsz > pm /\ e <= ps
    BY <1>2, <1>5, <1>6, <1>7, <2>2, <2>3, <2>4, SMTT(30)
  <2> HIDE DEF pq, pm, ps
  <2> QED
    BY <1>2, <1>3, <2>5
<1> QED
  BY <1>4, <1>9 DEF StackPage, h, e, s, q

\* The list has every page of every segment.
HasPages(u, im) ==
  \A k \in 1 .. Len(im) : \A a \in 1 .. PagesOf(im[k].memsz) :
    \E x \in 1 .. Len(u) : u[x] = SegmentPages(im[k])[a]

\* The pages bring_up maps: those of the segments and the stack's, each once.
LEMMA UserFacts ==
  ASSUME NEW im, Loadable(im)
  PROVE  LET u == UserPages(im)
             s == StackPage(im)
         IN  /\ s \in Nat /\ s < REGION /\ u \in Seq(PageRequest)
             /\ \A x \in 1 .. Len(u) : u[x].user = TRUE /\ u[x].page <= s
             /\ \A x, y \in 1 .. Len(u) : u[x].page = u[y].page => x = y
             /\ \E x \in 1 .. Len(u) : u[x] = [page |-> s, user |-> TRUE, nx |-> TRUE]
             /\ HasPages(u, im)
<1> USE DEF HasPages
<1> DEFINE s == StackPage(im)
           w == [page |-> s, user |-> TRUE, nx |-> TRUE]
           p == AllSegments(im)
           u == p \o <<w>>
           n == Len(p)
<1>1. UserPages(im) = u
  BY Zenon DEF UserPages, AllSegments
<1>2. im \in Seq(Segment) /\ Disjoint(im) /\ \A k \in 1 .. Len(im) : im[k] \in Segment
  BY DEF Loadable
<1>3. s \in Nat /\ s < REGION
  <2>1. PICK k \in 1 .. Len(im) : max_end(im) = im[k].vaddr + im[k].memsz
    BY LastEnd, Zenon DEF Ends
  <2>2. im[k].vaddr + im[k].memsz \in Nat
    BY <1>2 DEF Segment
  <2>3. PagesOf(max_end(im)) < REGION
    BY <2>1, Zenon DEF Loadable
  <2>4. PagesOf(max_end(im)) \in Nat
    BY <2>1, <2>2, PageCount, Zenon
  <2> QED
    BY <2>3, <2>4, Zenon DEF StackPage
<1>4. Covers(p, im, Len(im))
  BY <1>2, SegmentsCover
<1> HIDE DEF s, p
<1>5. w \in PageRequest /\ w.page = s /\ w.user = TRUE
  BY <1>3, SMTT(30) DEF PageRequest
<1> HIDE DEF w
<1>6. /\ p \in Seq(PageRequest)
      /\ \A x \in 1 .. n : \E k \in 1 .. Len(im) : \E a \in 1 .. PagesOf(im[k].memsz) :
           p[x] = SegmentPages(im[k])[a]
      /\ \A k \in 1 .. Len(im) : \A a \in 1 .. PagesOf(im[k].memsz) :
           \E x \in 1 .. n : p[x] = SegmentPages(im[k])[a]
      /\ \A x, y \in 1 .. n : p[x].page = p[y].page => x = y
  BY <1>4, Zenon DEF Covers
<1>7. /\ u \in Seq(PageRequest) /\ n \in Nat /\ Len(u) = n + 1 /\ u[n + 1] = w
      /\ \A x \in 1 .. n : u[x] = p[x]
  BY <1>5, <1>6
<1> HIDE DEF u
<1>8. ASSUME NEW x \in 1 .. n PROVE u[x].user = TRUE /\ u[x].page < s /\ u[x].page \in Nat
  <2>1. PICK k \in 1 .. Len(im) : \E a \in 1 .. PagesOf(im[k].memsz) : p[x] = SegmentPages(im[k])[a]
    BY <1>6, Zenon
  <2>2. PICK a \in 1 .. PagesOf(im[k].memsz) : p[x] = SegmentPages(im[k])[a]
    BY <2>1, Zenon
  <2>3. SegmentPages(im[k])[a].page < s
    BY BelowStack DEF s
  <2>4. SegmentPages(im[k])[a].user = TRUE
    BY <1>2, SegmentFacts, Zenon
  <2>5. p[x] \in PageRequest
    BY <1>6
  <2>6. p[x].page \in Nat
    BY <2>5 DEF PageRequest
  <2> QED
    BY <1>7, <2>2, <2>3, <2>4, <2>6, Zenon
<1>a. \A x \in 1 .. n : u[x].page < s /\ u[x].page \in Nat /\ u[x].page <= s
  <2> TAKE x \in 1 .. n
  <2>1. u[x].page < s /\ u[x].page \in Nat
    BY <1>8, Zenon
  <2> QED
    BY <1>3, <2>1
<1>b. \A x \in 1 .. n : u[x].user = TRUE
  BY <1>8, Zenon
<1> HIDE DEF n
<1>c. n \in Nat /\ Len(u) = n + 1 /\ u[n + 1].page = s /\ u[n + 1].user = TRUE
  BY <1>5, <1>7
<1>9. \A x \in 1 .. Len(u) : x \in 1 .. n \/ x = n + 1
  BY <1>7
<1>10. \A x \in 1 .. Len(u) : u[x].user = TRUE /\ u[x].page <= s
  <2> SUFFICES ASSUME NEW x \in 1 .. Len(u) PROVE u[x].user = TRUE /\ u[x].page <= s
    BY Zenon
  <2>1. CASE x \in 1 .. n
    BY <1>a, <1>b, <2>1
  <2>2. CASE x = n + 1
    BY <1>3, <1>c, <2>2
  <2> QED
    BY <1>9, <2>1, <2>2, Zenon
<1>11. ASSUME NEW x \in 1 .. Len(u), NEW y \in 1 .. Len(u), u[x].page = u[y].page PROVE x = y
  <2>1. CASE x \in 1 .. n /\ y \in 1 .. n
    BY <1>6, <1>7, <1>11, <2>1, Zenon DEF n
  <2>2. CASE x \in 1 .. n /\ y = n + 1
    BY <1>3, <1>a, <1>c, <1>11, <2>2, SMTT(30)
  <2>3. CASE y \in 1 .. n /\ x = n + 1
    BY <1>3, <1>a, <1>c, <1>11, <2>3
  <2> QED
    BY <1>9, <2>1, <2>2, <2>3, Zenon
<1>12. \E x \in 1 .. Len(u) : u[x] = w
  <2>1. n + 1 \in 1 .. Len(u)
    BY <1>7
  <2> QED
    BY <1>7, <2>1, Zenon
<1>13. \A x \in 1 .. n : x \in 1 .. Len(u)
  BY <1>7
<1>14. ASSUME NEW k \in 1 .. Len(im), NEW a \in 1 .. PagesOf(im[k].memsz)
       PROVE  \E x \in 1 .. Len(u) : u[x] = SegmentPages(im[k])[a]
  BY <1>6, <1>7, <1>13 DEF n
<1> QED
  BY <1>1, <1>3, <1>7, <1>10, <1>11, <1>12, <1>14 DEF s, w

-----------------------------------------------------------------------------
(* The bootloader's tables, and the copy takeover makes of the top one *)

Bare(m, c) ==
  /\ m \in Memory /\ c \in Frames \cup {BootPml4}
  /\ \A i \in Index : m[BootPdpt][i] = entry_huge(BootPage)
  /\ \A i \in Index : m[c][i].present => m[c][i].addr = BootPdpt /\ ~m[c][i].huge /\ ~m[c][i].user

RootOnly(c) == [f \in Dom |-> IF f = c THEN 4 ELSE 5]

\* Such a table is a tree of its own.
LEMMA BareTree ==
  ASSUME NEW m, NEW c, Bare(m, c)
  PROVE  /\ Tree(m, c, RootOnly(c)) /\ Used(RootOnly(c)) = Frames \cap {c}
         /\ \A x \in Pages : View(m, c, x) = IF m[c][index4(x)].present
                               THEN [frame |-> BootPage, user |-> FALSE, nx |-> FALSE] ELSE Unmapped
<1> DEFINE lv == RootOnly(c)
<1>1. c \in Dom /\ lv \in [Dom -> 0 .. 5] /\ \A f \in Dom : lv[f] = IF f = c THEN 4 ELSE 5
  BY FrameNumbers DEF Bare, RootOnly, Dom
<1>2. /\ m \in Memory /\ c \in Frames \cup {BootPml4}
      /\ \A i \in Index : m[BootPdpt][i] = entry_huge(BootPage)
      /\ \A i \in Index : m[c][i].present => m[c][i].addr = BootPdpt /\ ~m[c][i].huge /\ ~m[c][i].user
  BY Zenon DEF Bare
<1> HIDE DEF lv
<1>3. /\ \A f \in Dom : lv[f] = 4 <=> f = c
      /\ \A f \in Dom : lv[f] \notin 0 .. 3 /\ (lv[f] \in 1 .. 4 <=> f = c)
  BY <1>1
<1>4. Shape(m, c, lv)
  BY <1>1, <1>2, <1>3, Zenon DEF Shape
<1>5. Down(m, lv)
  BY <1>2, <1>3, Zenon DEF Down
<1>6. \A f \in Frames : \A p \in Dom : \A i \in Index : ~Points(m, lv, p, i, f)
  BY <1>2, <1>3, FrameNumbers DEF Points
<1>7. OneParent(m, lv) /\ HasParent(m, lv) /\ Inherits(m, lv)
  BY <1>3, <1>6, Zenon DEF OneParent, HasParent, Inherits
<1>8. Tree(m, c, lv)
  BY <1>4, <1>5, <1>7, Zenon DEF Tree
<1>9. Used(lv) = Frames \cap {c}
  <2>1. \A f \in Frames : lv[f] # 5 <=> f = c
    BY <1>1, FrameNumbers, SMTT(30)
  <2> QED
    BY <2>1, Zenon DEF Used
<1>10. ASSUME NEW x \in Pages
       PROVE  View(m, c, x) = IF m[c][index4(x)].present
                THEN [frame |-> BootPage, user |-> FALSE, nx |-> FALSE] ELSE Unmapped
  <2>1. index4(x) \in Index
    BY PageDigits, Zenon
  <2>2. m[c][index4(x)].present => m[c][index4(x)].addr = BootPdpt
    BY <1>2, <2>1, Zenon
  <2>3. Booted(m, c, x) <=> m[c][index4(x)].present
    BY <2>2, Zenon DEF Booted, At3
  <2>4. ~Has0(m, c, x)
    BY <2>2, FrameNumbers, Zenon DEF Has0, Has1, Has2, Has3, At3
  <2> QED
    BY <2>3, <2>4 DEF View
<1> QED
  BY <1>8, <1>9, <1>10, Zenon DEF lv

=============================================================================
