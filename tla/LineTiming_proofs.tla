------------------------- MODULE LineTiming_proofs -------------------------
(* Proofs about the two modules that place lines in time.                     *)
(* TimingMerge, for every set of records, delays and placings: no well placed *)
(* line of the aligner is lost by the walk, the shift is the delay of the     *)
(* audio, and a record that is shipped whole is on time.                      *)
(* GpuHandler, for every set of songs, modes, spots and budgets: what is      *)
(* recovered was sung where it is put, the budgets hold, first contexts go    *)
(* first, and the lines that were kept stay.                                  *)
EXTENDS TimingMerge, GpuHandler, FiniteSetTheorems, FunctionTheorems,
         WellFoundedInduction, TLAPS

-----------------------------------------------------------------------------
(* Recursion: what is computed line by line, and cell by cell               *)

\* A set of naturals that is not empty has a least member.
LEMMA LeastNumber ==
    ASSUME NEW S \in SUBSET Nat, S # {}
    PROVE  \E n \in S : \A m \in S : n <= m
  <1> DEFINE less == OpToRel(<, Nat)
  <1>1. IsWellFoundedOn(less, Nat)
    BY NatLessThanWellFounded
  <1>2. \A m, n \in Nat : <<m, n>> \in less <=> m < n
    BY DEF OpToRel
  <1> HIDE DEF less
  <1>3. PICK n \in S : \A m \in S : ~(<<m, n>> \in less)
    BY <1>1, WFMin
  <1>4. \A m \in S : n <= m
    <2> SUFFICES ASSUME NEW m \in S PROVE n <= m
      OBVIOUS
    <2>1. ~(m < n) /\ m \in Nat /\ n \in Nat
      BY <1>2, <1>3
    <2> QED BY <2>1
  <1> QED BY <1>4

\* Induction: a set that has 0, and with each number below n the next, has all up to n.
LEMMA Induction ==
    ASSUME NEW n \in Nat, NEW S, 0 \in S, \A i \in 1 .. n : i - 1 \in S => i \in S
    PROVE  \A i \in 0 .. n : i \in S
  <1> DEFINE out == {i \in 0 .. n : i \notin S}
  <1>1. ASSUME out # {} PROVE FALSE
    <2>1. out \in SUBSET Nat
      OBVIOUS
    <2>2. PICK k \in out : \A m \in out : k <= m
      BY <1>1, <2>1, LeastNumber
    <2>3. k \in 0 .. n /\ k \notin S /\ k # 0
      BY <2>2
    <2>4. k \in 1 .. n /\ k - 1 \notin out /\ k - 1 \in 0 .. n
      BY <2>2, <2>3
    <2> QED BY <2>3, <2>4
  <1> QED BY <1>1

\* A cell that is not on the edge and its neighbours.
LEMMA Neighbours ==
    ASSUME NEW m \in Nat, NEW n \in Nat, NEW c \in (0 .. m) \X (0 .. n), ~Edge(c)
    PROVE  /\ c[1] \in 1 .. m /\ c[2] \in 1 .. n /\ c = <<c[1], c[2]>>
           /\ Both(c) \in (0 .. m) \X (0 .. n) /\ Both(c)[1] = c[1] - 1 /\ Both(c)[2] = c[2] - 1
           /\ Up(c) \in (0 .. m) \X (0 .. n) /\ Up(c)[1] = c[1] - 1 /\ Up(c)[2] = c[2]
           /\ Back(c) \in (0 .. m) \X (0 .. n) /\ Back(c)[1] = c[1] /\ Back(c)[2] = c[2] - 1
  <1>1. c[1] \in 1 .. m /\ c[2] \in 1 .. n /\ c = <<c[1], c[2]>>
    BY DEF Edge
  <1> QED BY <1>1 DEF Both, Up, Back

\* What holds at the edge of a table, and at a cell if at its neighbours, holds
\* everywhere.
LEMMA TableInduction ==
    ASSUME NEW m \in Nat, NEW n \in Nat, NEW S,
           \A c \in (0 .. m) \X (0 .. n) : Edge(c) => c \in S,
           \A c \in (0 .. m) \X (0 .. n) :
                ~Edge(c) /\ Both(c) \in S /\ Up(c) \in S /\ Back(c) \in S => c \in S
    PROVE  \A c \in (0 .. m) \X (0 .. n) : c \in S
  <1> DEFINE C == (0 .. m) \X (0 .. n)
             out == {k \in Nat : \E c \in C : c \notin S /\ k = c[1] + c[2]}
  <1>1. ASSUME out # {} PROVE FALSE
    <2>1. PICK k \in out : \A j \in out : k <= j
      BY <1>1, LeastNumber
    <2>2. PICK c \in C : c \notin S /\ k = c[1] + c[2]
      BY <2>1
    <2>3. ~Edge(c)
      BY <2>2
    <2>4. /\ c[1] \in 1 .. m /\ c[2] \in 1 .. n
          /\ Both(c) \in C /\ Both(c)[1] = c[1] - 1 /\ Both(c)[2] = c[2] - 1
          /\ Up(c) \in C /\ Up(c)[1] = c[1] - 1 /\ Up(c)[2] = c[2]
          /\ Back(c) \in C /\ Back(c)[1] = c[1] /\ Back(c)[2] = c[2] - 1
      BY <2>3, Neighbours
    <2>5. \A x \in C : x[1] + x[2] < k /\ x[1] + x[2] \in Nat => x \in S
      BY <2>1
    <2> HIDE DEF out
    <2>6. Both(c) \in S
      BY <2>2, <2>4, <2>5
    <2>7. Up(c) \in S
      BY <2>2, <2>4, <2>5
    <2>8. Back(c) \in S
      BY <2>2, <2>4, <2>5
    <2> QED BY <2>2, <2>3, <2>6, <2>7, <2>8
  <1>2. \A c \in C : c \notin S => c[1] + c[2] \in out
    OBVIOUS
  <1> HIDE DEF out
  <1> QED BY <1>1, <1>2

\* F is computed cell by cell, each from its neighbours.
IsTable(F, m, n, first, step) ==
    /\ F = [c \in (0 .. m) \X (0 .. n) |-> F[c]]
    /\ \A c \in (0 .. m) \X (0 .. n) :
         F[c] = IF Edge(c) THEN first
                ELSE step[<<c, F[Both(c)], F[Up(c)], F[Back(c)]>>]

\* There is such a table.
LEMMA TableExists ==
    ASSUME NEW m \in Nat, NEW n \in Nat, NEW first, NEW step
    PROVE  \E F : IsTable(F, m, n, first, step)
  <1> DEFINE C == (0 .. m) \X (0 .. n)
             value(F, c) == IF Edge(c) THEN first
                         ELSE step[<<c, F[Both(c)], F[Up(c)], F[Back(c)]>>]
             Upto(F, k) == \A c \in C : c[1] + c[2] <= k => F[c] = value(F, c)
             S == {k \in 0 .. m + n : \E F : Upto(F, k)}
  <1>0. \A F, G : \A c \in C :
           (~Edge(c) => F[Both(c)] = G[Both(c)] /\ F[Up(c)] = G[Up(c)] /\ F[Back(c)] = G[Back(c)])
           => value(F, c) = value(G, c)
    OBVIOUS
  <1>1. 0 \in S
    <2> DEFINE F == [c \in C |-> first]
    <2>1. \A c \in C : c[1] + c[2] <= 0 => F[c] = first /\ Edge(c)
      BY DEF Edge
    <2>2. Upto(F, 0)
      BY <2>1
    <2> HIDE DEF F, Upto
    <2>3. \E X : Upto(X, 0)
      BY <2>2
    <2> QED BY <2>3
  <1>2. ASSUME NEW k \in 1 .. m + n, k - 1 \in S PROVE k \in S
    <2>1. PICK F : Upto(F, k - 1)
      BY <1>2
    <2> DEFINE G == [c \in C |-> IF c[1] + c[2] <= k - 1 THEN F[c] ELSE value(F, c)]
    <2>2. \A c \in C : c[1] + c[2] <= k - 1 => G[c] = F[c]
      OBVIOUS
    <2>3. \A c \in C : ~(c[1] + c[2] <= k - 1) => G[c] = value(F, c)
      OBVIOUS
    <2> HIDE DEF G
    <2>4. ASSUME NEW c \in C, c[1] + c[2] <= k PROVE value(F, c) = value(G, c)
      <3>1. CASE Edge(c)
        BY <3>1
      <3>2. CASE ~Edge(c)
        <4>1. /\ c[1] \in 1 .. m /\ c[2] \in 1 .. n
              /\ Both(c) \in C /\ Both(c)[1] = c[1] - 1 /\ Both(c)[2] = c[2] - 1
              /\ Up(c) \in C /\ Up(c)[1] = c[1] - 1 /\ Up(c)[2] = c[2]
              /\ Back(c) \in C /\ Back(c)[1] = c[1] /\ Back(c)[2] = c[2] - 1
          BY <3>2, Neighbours
        <4> HIDE DEF C
        <4>2. F[Both(c)] = G[Both(c)]
          BY <2>2, <2>4, <4>1
        <4>3. F[Up(c)] = G[Up(c)]
          BY <2>2, <2>4, <4>1
        <4>4. F[Back(c)] = G[Back(c)]
          BY <2>2, <2>4, <4>1
        <4> QED BY <1>0, <4>2, <4>3, <4>4
      <3> QED BY <3>1, <3>2
    <2>5. ASSUME NEW c \in C, c[1] + c[2] <= k PROVE G[c] = value(F, c)
      <3> HIDE DEF value
      <3>1. CASE c[1] + c[2] <= k - 1
        BY <2>1, <2>2, <3>1
      <3>2. CASE ~(c[1] + c[2] <= k - 1)
        BY <2>3, <3>2
      <3> QED BY <3>1, <3>2
    <2> HIDE DEF value
    <2>6. Upto(G, k)
      BY <2>4, <2>5
    <2> HIDE DEF Upto
    <2>7. \E X : Upto(X, k)
      BY <2>6
    <2> QED BY <2>7
  <1> HIDE DEF S
  <1>3. m + n \in S
    <2>1. m + n \in Nat
      OBVIOUS
    <2>2. \A i \in 0 .. m + n : i \in S
      BY <1>1, <1>2, <2>1, Induction
    <2> QED BY <2>1, <2>2
  <1>4. PICK F : Upto(F, m + n)
    BY <1>3 DEF S
  <1> DEFINE H == [c \in C |-> F[c]]
  <1>5. \A c \in C : F[c] = value(F, c)
    <2>1. \A c \in C : c[1] + c[2] <= m + n
      OBVIOUS
    <2> HIDE DEF value, C
    <2> QED BY <1>4, <2>1
  <1>6. ASSUME NEW c \in C PROVE value(F, c) = value(H, c)
    <2>1. ~Edge(c) => Both(c) \in C /\ Up(c) \in C /\ Back(c) \in C
      BY Neighbours
    <2> HIDE DEF C
    <2> QED BY <1>0, <2>1
  <1>7. H = [c \in C |-> H[c]] /\ \A c \in C : H[c] = value(H, c)
    <2> HIDE DEF value
    <2> QED BY <1>5, <1>6
  <1>8. IsTable(H, m, n, first, step)
    BY <1>7 DEF IsTable
  <1> HIDE DEF H
  <1> QED BY <1>8

\* Its cells have values in V if the first value is one and the step stays in V.
LEMMA TableWithin ==
    ASSUME NEW m \in Nat, NEW n \in Nat, NEW V, NEW first \in V, NEW step,
           \A c \in (0 .. m) \X (0 .. n) : \A x, y, z \in V : step[<<c, x, y, z>>] \in V
    PROVE  \E F \in [(0 .. m) \X (0 .. n) -> V] : IsTable(F, m, n, first, step)
  <1> DEFINE C == (0 .. m) \X (0 .. n)
  <1>1. PICK F : IsTable(F, m, n, first, step)
    BY TableExists
  <1>2. /\ F = [c \in C |-> F[c]]
        /\ \A c \in C : F[c] = IF Edge(c) THEN first
                               ELSE step[<<c, F[Both(c)], F[Up(c)], F[Back(c)]>>]
    BY <1>1 DEF IsTable
  <1> DEFINE S == {c \in C : F[c] \in V}
  <1>4. \A c \in C : Edge(c) => c \in S
    BY <1>2
  <1>5. ASSUME NEW c \in C, ~Edge(c), Both(c) \in S, Up(c) \in S, Back(c) \in S PROVE c \in S
    <2>1. F[Both(c)] \in V /\ F[Up(c)] \in V /\ F[Back(c)] \in V
      BY <1>5
    <2>2. step[<<c, F[Both(c)], F[Up(c)], F[Back(c)]>>] \in V
      BY <2>1
    <2> QED BY <1>2, <1>5, <2>2
  <1> HIDE DEF S
  <1>6. \A c \in C : c \in S
    BY <1>4, <1>5, TableInduction
  <1>7. F \in [C -> V]
    <2> HIDE DEF C
    <2> QED BY <1>2, <1>6 DEF S
  <1> QED BY <1>1, <1>7

-----------------------------------------------------------------------------
(* Pairing by text                                                          *)

\* How a cell of the table of counts is computed.
CountAt(table, l, r, c) ==
    IF Edge(c) THEN 0
    ELSE IF l[c[1]].text = r[c[2]].text THEN table[Both(c)] + 1
    ELSE IF table[Up(c)] >= table[Back(c)] THEN table[Up(c)]
    ELSE table[Back(c)]

\* The table of counts.
LEMMA CommonRow ==
    ASSUME NEW l, NEW r, Len(l) \in Nat, Len(r) \in Nat
    PROVE  \A c \in Cells(l, r) :
             /\ Common(l, r)[c] \in Nat
             /\ Common(l, r)[c] = CountAt(Common(l, r), l, r, c)
  <1> DEFINE m == Len(l)
             n == Len(r)
             C == (0 .. m) \X (0 .. n)
             A == C \X Nat \X Nat \X Nat
             step == [x \in A |-> IF l[x[1][1]].text = r[x[1][2]].text THEN x[2] + 1
                                  ELSE IF x[3] >= x[4] THEN x[3] ELSE x[4]]
  <1>0. m \in Nat /\ n \in Nat
    OBVIOUS
  <1>1. \A c \in C : \A x, y, z \in Nat :
          step[<<c, x, y, z>>] = IF l[c[1]].text = r[c[2]].text THEN x + 1
                                 ELSE IF y >= z THEN y ELSE z
    OBVIOUS
  <1>2. ASSUME NEW c \in C, NEW x \in Nat, NEW y \in Nat, NEW z \in Nat
        PROVE  step[<<c, x, y, z>>] \in Nat
    <2> HIDE DEF step
    <2>1. step[<<c, x, y, z>>] \in {x + 1, y, z}
      BY <1>1
    <2>2. {x + 1, y, z} \subseteq Nat
      OBVIOUS
    <2> QED BY <2>1, <2>2
  <1> HIDE DEF step
  <1>3. PICK F \in [C -> Nat] : IsTable(F, m, n, 0, step)
    <2> HIDE DEF C, m, n
    <2> QED BY <1>0, <1>2, TableWithin DEF C
  <1>4. ASSUME NEW c \in C PROVE F[c] = CountAt(F, l, r, c)
    <2>1. F[c] = IF Edge(c) THEN 0 ELSE step[<<c, F[Both(c)], F[Up(c)], F[Back(c)]>>]
      BY <1>3 DEF IsTable
    <2>2. CASE Edge(c)
      BY <2>1, <2>2 DEF CountAt
    <2>3. CASE ~Edge(c)
      <3>1. F[Both(c)] \in Nat /\ F[Up(c)] \in Nat /\ F[Back(c)] \in Nat
        <4>1. Both(c) \in C /\ Up(c) \in C /\ Back(c) \in C
          BY <2>3, <1>0, Neighbours
        <4> QED BY <4>1
      <3>2. step[<<c, F[Both(c)], F[Up(c)], F[Back(c)]>>]
              = IF l[c[1]].text = r[c[2]].text THEN F[Both(c)] + 1
                ELSE IF F[Up(c)] >= F[Back(c)] THEN F[Up(c)] ELSE F[Back(c)]
        <4> DEFINE x == F[Both(c)]
                   y == F[Up(c)]
                   z == F[Back(c)]
        <4>1. x \in Nat /\ y \in Nat /\ z \in Nat
          BY <3>1
        <4> HIDE DEF x, y, z, C
        <4>2. step[<<c, x, y, z>>] = IF l[c[1]].text = r[c[2]].text THEN x + 1
                                     ELSE IF y >= z THEN y ELSE z
          BY <1>1, <4>1
        <4> QED BY <4>2 DEF x, y, z
      <3> QED BY <2>1, <2>3, <3>2 DEF CountAt
    <2> QED BY <2>2, <2>3
  <1>5. F = [c \in Cells(l, r) |-> CountAt(F, l, r, c)]
    BY <1>4 DEF Cells
  <1>6. Common(l, r) = CHOOSE table : table = [c \in Cells(l, r) |-> CountAt(table, l, r, c)]
    BY DEF Common, CountAt
  <1> HIDE DEF C
  <1>7. Common(l, r) = [c \in Cells(l, r) |-> CountAt(Common(l, r), l, r, c)]
    BY <1>5, <1>6
  <1> DEFINE R == Common(l, r)
  <1> HIDE DEF R
  <1>8. \A c \in C : R[c] = CountAt(R, l, r, c)
    BY <1>7 DEF C, Cells, R
  <1> DEFINE S == {c \in C : R[c] \in Nat}
  <1>9. \A c \in C : Edge(c) => c \in S
    BY <1>8 DEF CountAt
  <1>10. \A c \in C : ~Edge(c) /\ Both(c) \in S /\ Up(c) \in S /\ Back(c) \in S => c \in S
    <2> SUFFICES ASSUME NEW c \in C, ~Edge(c), Both(c) \in S, Up(c) \in S, Back(c) \in S
                 PROVE  R[c] \in Nat
      OBVIOUS
    <2>1. R[Both(c)] \in Nat /\ R[Up(c)] \in Nat /\ R[Back(c)] \in Nat
      OBVIOUS
    <2>2. R[c] \in {R[Both(c)] + 1, R[Up(c)], R[Back(c)]}
      BY <1>8 DEF CountAt
    <2> QED BY <2>1, <2>2
  <1> HIDE DEF S
  <1>11. \A c \in C : c \in S
    BY <1>0, <1>9, <1>10, TableInduction DEF C
  <1> QED BY <1>8, <1>11 DEF S, R, C, Cells

\* The lines of both sides that have the same text come in the same order.
InStep(l, r) ==
    \A x, u \in 1 .. Len(l) : \A y, v \in 1 .. Len(r) :
        l[x].text = r[y].text /\ l[u].text = r[v].text => (x < u <=> y < v)

\* All pairs of equal text in a corner of the table.
Matches(l, r, c) == {p \in (1 .. c[1]) \X (1 .. c[2]) : l[p[1]].text = r[p[2]].text}

\* They are finitely many, none at the edge.
LEMMA MatchesFinite ==
    ASSUME NEW l, NEW r, Len(l) \in Nat, Len(r) \in Nat, NEW c \in Cells(l, r)
    PROVE  /\ IsFiniteSet(Matches(l, r, c)) /\ Cardinality(Matches(l, r, c)) \in Nat
           /\ Edge(c) => Matches(l, r, c) = {} /\ Cardinality(Matches(l, r, c)) = 0
  <1>1. c[1] \in Nat /\ c[2] \in Nat
    BY DEF Cells
  <1>2. IsFiniteSet(1 .. c[1]) /\ IsFiniteSet(1 .. c[2])
    <2>1. 1 \in Int /\ c[1] \in Int /\ c[2] \in Int
      BY <1>1
    <2> QED BY <2>1, FS_Interval
  <1>3. IsFiniteSet((1 .. c[1]) \X (1 .. c[2]))
    BY <1>2, FS_Product
  <1>4. Matches(l, r, c) \in SUBSET ((1 .. c[1]) \X (1 .. c[2]))
    BY DEF Matches
  <1>5. IsFiniteSet(Matches(l, r, c))
    BY <1>3, <1>4, FS_Subset
  <1>6. Edge(c) => Matches(l, r, c) = {}
    <2>1. Edge(c) => 1 .. c[1] = {} \/ 1 .. c[2] = {}
      BY DEF Edge
    <2> QED BY <2>1, <1>4
  <1> QED BY <1>5, <1>6, FS_CardinalityType, FS_EmptySet

\* Where two lines have the same text their pair is the one that is new; elsewhere
\* one of the two lines is paired with none of the others.
LEMMA MatchesGrow ==
    ASSUME NEW l, NEW r, Len(l) \in Nat, Len(r) \in Nat, InStep(l, r),
           NEW c \in Cells(l, r), ~Edge(c)
    PROVE  /\ Matches(l, r, Up(c)) \subseteq Matches(l, r, c)
           /\ Matches(l, r, Back(c)) \subseteq Matches(l, r, c)
           /\ l[c[1]].text = r[c[2]].text =>
                /\ Matches(l, r, c) = Matches(l, r, Both(c)) \cup {c}
                /\ c \notin Matches(l, r, Both(c))
           /\ l[c[1]].text # r[c[2]].text =>
                \/ Matches(l, r, c) = Matches(l, r, Up(c))
                \/ Matches(l, r, c) = Matches(l, r, Back(c))
  <1> DEFINE i == c[1]
             j == c[2]
             E(x, y) == l[x].text = r[y].text
             Has(p, k, n) == p[1] \in 1 .. k /\ p[2] \in 1 .. n /\ p = <<p[1], p[2]>> /\ E(p[1], p[2])
  <1>1. /\ i \in 1 .. Len(l) /\ j \in 1 .. Len(r) /\ c = <<i, j>>
        /\ Both(c)[1] = i - 1 /\ Both(c)[2] = j - 1 /\ Up(c)[1] = i - 1 /\ Up(c)[2] = j
        /\ Back(c)[1] = i /\ Back(c)[2] = j - 1
    BY Neighbours DEF Cells
  <1>2. \A p : /\ p \in Matches(l, r, c) <=> Has(p, i, j)
               /\ p \in Matches(l, r, Both(c)) <=> Has(p, i - 1, j - 1)
               /\ p \in Matches(l, r, Up(c)) <=> Has(p, i - 1, j)
               /\ p \in Matches(l, r, Back(c)) <=> Has(p, i, j - 1)
    BY <1>1 DEF Matches
  <1>3. \A x, u \in 1 .. i : \A y, v \in 1 .. j :
          E(x, y) /\ E(u, v) => (x < u <=> y < v)
    <2>1. 1 .. i \subseteq 1 .. Len(l) /\ 1 .. j \subseteq 1 .. Len(r)
      BY <1>1
    <2> QED BY <2>1 DEF InStep
  <1> HIDE DEF i, j, E
  <1>4. i \in Nat /\ j \in Nat /\ i > 0 /\ j > 0
    BY <1>1
  <1>5. Matches(l, r, Up(c)) \subseteq Matches(l, r, c)
    BY <1>2, <1>4
  <1>6. Matches(l, r, Back(c)) \subseteq Matches(l, r, c)
    BY <1>2, <1>4
  <1>7. ASSUME E(i, j)
        PROVE  /\ Matches(l, r, c) = Matches(l, r, Both(c)) \cup {c}
               /\ c \notin Matches(l, r, Both(c))
    <2>1. c \in Matches(l, r, c) /\ c \notin Matches(l, r, Both(c))
      <3>1. c[1] = i /\ c[2] = j
        BY DEF i, j
      <3> QED BY <1>1, <1>2, <1>4, <1>7, <3>1
    <2>2. ASSUME NEW p, Has(p, i, j), p # c PROVE Has(p, i - 1, j - 1)
      <3>1. p[1] # i \/ p[2] # j
        BY <1>1, <2>2
      <3>2. p[1] < i <=> p[2] < j
        BY <1>3, <1>4, <1>7, <2>2
      <3> QED BY <1>4, <2>2, <3>1, <3>2
    <2>3. \A p : Has(p, i - 1, j - 1) => Has(p, i, j)
      BY <1>4
    <2> HIDE DEF Has
    <2> QED BY <1>2, <2>1, <2>2, <2>3
  <1>8. ASSUME ~E(i, j)
        PROVE  \/ Matches(l, r, c) = Matches(l, r, Up(c))
               \/ Matches(l, r, c) = Matches(l, r, Back(c))
    <2>1. CASE \E y \in 1 .. j : E(i, y)
      <3>1. PICK y \in 1 .. j : E(i, y)
        BY <2>1
      <3>2. y < j
        BY <1>4, <1>8, <3>1
      <3>3. ASSUME NEW p, Has(p, i, j) PROVE Has(p, i, j - 1)
        <4>1. p[2] # j
          <5> SUFFICES ASSUME p[2] = j PROVE FALSE
            OBVIOUS
          <5>1. E(p[1], j) /\ p[1] \in 1 .. i
            BY <3>3
          <5>2. i < p[1] <=> y < j
            BY <1>3, <1>4, <3>1, <5>1
          <5> QED BY <1>4, <3>2, <5>1, <5>2
        <4> QED BY <1>4, <3>3, <4>1
      <3> HIDE DEF Has
      <3> QED BY <1>2, <1>6, <3>3
    <2>2. CASE ~\E y \in 1 .. j : E(i, y)
      <3>1. ASSUME NEW p, Has(p, i, j) PROVE Has(p, i - 1, j)
        <4>1. p[1] # i
          BY <2>2, <3>1
        <4> QED BY <1>4, <3>1, <4>1
      <3> HIDE DEF Has
      <3> QED BY <1>2, <1>5, <3>1
    <2> QED BY <2>1, <2>2
  <1> QED BY <1>5, <1>6, <1>7, <1>8 DEF i, j, E

\* The table counts the pairs of equal text.
LEMMA CommonCounts ==
    ASSUME NEW l, NEW r, Len(l) \in Nat, Len(r) \in Nat, InStep(l, r)
    PROVE  \A c \in Cells(l, r) : Common(l, r)[c] = Cardinality(Matches(l, r, c))
  <1> DEFINE R == Common(l, r)
             M(c) == Matches(l, r, c)
             C == Cells(l, r)
             S == {c \in C : R[c] = Cardinality(M(c))}
  <1>1. \A c \in C : R[c] \in Nat /\ R[c] = CountAt(R, l, r, c)
    BY CommonRow
  <1>2. \A c \in C : /\ IsFiniteSet(M(c)) /\ Cardinality(M(c)) \in Nat
                     /\ Edge(c) => Cardinality(M(c)) = 0
    BY MatchesFinite
  <1> HIDE DEF R
  <1>3. \A c \in C : Edge(c) => c \in S
    BY <1>1, <1>2 DEF CountAt
  <1>4. ASSUME NEW c \in C, ~Edge(c), Both(c) \in S, Up(c) \in S, Back(c) \in S PROVE c \in S
    <2>1. /\ M(Up(c)) \subseteq M(c) /\ M(Back(c)) \subseteq M(c)
          /\ l[c[1]].text = r[c[2]].text => M(c) = M(Both(c)) \cup {c} /\ c \notin M(Both(c))
          /\ l[c[1]].text # r[c[2]].text => M(c) = M(Up(c)) \/ M(c) = M(Back(c))
      BY <1>4, MatchesGrow
    <2> HIDE DEF M
    <2>2. CASE l[c[1]].text = r[c[2]].text
      <3>1. Cardinality(M(c)) = Cardinality(M(Both(c))) + 1
        BY <1>2, <1>4, <2>1, <2>2, FS_AddElement
      <3>2. R[c] = R[Both(c)] + 1
        BY <1>1, <1>4, <2>2 DEF CountAt
      <3> QED BY <1>4, <3>1, <3>2
    <2>3. CASE l[c[1]].text # r[c[2]].text
      <3>1. Cardinality(M(Up(c))) <= Cardinality(M(c)) /\ Cardinality(M(Back(c))) <= Cardinality(M(c))
        BY <1>2, <2>1, FS_Subset
      <3>2. R[c] = IF R[Up(c)] >= R[Back(c)] THEN R[Up(c)] ELSE R[Back(c)]
        BY <1>1, <1>4, <2>3 DEF CountAt
      <3>3. /\ R[Up(c)] = Cardinality(M(Up(c))) /\ R[Back(c)] = Cardinality(M(Back(c)))
            /\ R[Up(c)] \in Nat /\ R[Back(c)] \in Nat
        BY <1>1, <1>4
      <3>4. R[c] = Cardinality(M(c))
        BY <1>2, <2>1, <2>3, <3>1, <3>2, <3>3
      <3> QED BY <3>4
    <2> QED BY <2>2, <2>3
  <1> HIDE DEF S, M
  <1>5. \A c \in C : c \in S
    <2>1. Len(l) \in Nat /\ Len(r) \in Nat
      OBVIOUS
    <2> QED BY <1>3, <1>4, <2>1, TableInduction DEF Cells
  <1> QED BY <1>5 DEF S, R, M

\* A sequence lists the members of a set, each once.
Lists(s, S) ==
    /\ \A k \in 1 .. Len(s) : s[k] \in S
    /\ \A x \in S : \E k \in 1 .. Len(s) : s[k] = x
    /\ \A j, k \in 1 .. Len(s) : s[j] = s[k] => j = k

\* One more.
LEMMA ListsMore ==
    ASSUME NEW X, NEW s \in Seq(X), NEW S, Lists(s, S), NEW x \in X, x \notin S
    PROVE  Lists(Append(s, x), S \cup {x})
  <1> DEFINE t == Append(s, x)
             n == Len(s)
  <1>1. /\ n \in Nat /\ Len(t) = n + 1 /\ t[n + 1] = x
        /\ \A k \in 1 .. n : t[k] = s[k]
    OBVIOUS
  <1> HIDE DEF t
  <1>2. \A k \in 1 .. n + 1 : k = n + 1 \/ k \in 1 .. n
    BY <1>1
  <1>3. \A k \in 1 .. Len(t) : t[k] \in S \cup {x}
    BY <1>1, <1>2 DEF Lists
  <1>4. \A y \in S \cup {x} : \E k \in 1 .. Len(t) : t[k] = y
    <2>1. n + 1 \in 1 .. Len(t) /\ 1 .. n \subseteq 1 .. Len(t)
      BY <1>1
    <2> QED BY <1>1, <2>1 DEF Lists
  <1>5. ASSUME NEW j \in 1 .. Len(t), NEW k \in 1 .. Len(t), t[j] = t[k] PROVE j = k
    <2>1. \A i \in 1 .. n : t[i] # x
      BY <1>1 DEF Lists
    <2> QED BY <1>1, <1>2, <1>5, <2>1 DEF Lists
  <1> QED BY <1>3, <1>4, <1>5 DEF Lists, t

\* How a cell of the table of pairs is computed.
WalkAt(walk, l, r, c) ==
    IF Edge(c) THEN <<>>
    ELSE IF l[c[1]].text = r[c[2]].text THEN Append(walk[Both(c)], c)
    ELSE IF Common(l, r)[Up(c)] >= Common(l, r)[Back(c)] THEN walk[Up(c)]
    ELSE walk[Back(c)]

\* The walk back through the table.
LEMMA LcsPairsWalk ==
    ASSUME NEW l, NEW r, Len(l) \in Nat, Len(r) \in Nat
    PROVE  \E walk : /\ \A c \in Cells(l, r) : walk[c] = WalkAt(walk, l, r, c)
                     /\ LcsPairs(l, r) = walk[<<Len(l), Len(r)>>]
  <1> DEFINE m == Len(l)
             n == Len(r)
             C == (0 .. m) \X (0 .. n)
             V == Seq(C)
             A == C \X V \X V \X V
             R == Common(l, r)
             step == [x \in A |-> IF l[x[1][1]].text = r[x[1][2]].text THEN Append(x[2], x[1])
                                  ELSE IF R[Up(x[1])] >= R[Back(x[1])] THEN x[3] ELSE x[4]]
             next(c, x, y, z) == IF l[c[1]].text = r[c[2]].text THEN Append(x, c)
                                 ELSE IF R[Up(c)] >= R[Back(c)] THEN y ELSE z
  <1>0. m \in Nat /\ n \in Nat
    OBVIOUS
  <1> HIDE DEF m, n, R
  <1>1. ASSUME NEW c \in C, NEW x \in V, NEW y \in V, NEW z \in V
        PROVE  step[<<c, x, y, z>>] = next(c, x, y, z) /\ next(c, x, y, z) \in V
    <2> HIDE DEF C
    <2>1. next(c, x, y, z) \in V
      OBVIOUS
    <2> HIDE DEF V
    <2>2. <<c, x, y, z>> \in A
      OBVIOUS
    <2>3. step[<<c, x, y, z>>] = next(c, x, y, z)
      BY <2>2
    <2> QED BY <2>1, <2>3
  <1> HIDE DEF step, next
  <1>2. <<>> \in V
    OBVIOUS
  <1>3. PICK F \in [C -> V] : IsTable(F, m, n, <<>>, step)
    <2> HIDE DEF V
    <2>1. \A c \in (0 .. m) \X (0 .. n) : \A x, y, z \in V : step[<<c, x, y, z>>] \in V
      <3> SUFFICES ASSUME NEW c \in C, NEW x \in V, NEW y \in V, NEW z \in V
                   PROVE  step[<<c, x, y, z>>] \in V
        OBVIOUS
      <3> HIDE DEF C
      <3> QED BY <1>1
    <2> QED BY <1>0, <1>2, <2>1, TableWithin
  <1>4. ASSUME NEW c \in C PROVE F[c] = WalkAt(F, l, r, c)
    <2>1. F[c] = IF Edge(c) THEN <<>> ELSE step[<<c, F[Both(c)], F[Up(c)], F[Back(c)]>>]
      BY <1>3 DEF IsTable
    <2>2. CASE Edge(c)
      BY <2>1, <2>2 DEF WalkAt
    <2>3. CASE ~Edge(c)
      <3>1. Both(c) \in C /\ Up(c) \in C /\ Back(c) \in C
        BY <2>3, <1>0, Neighbours
      <3> HIDE DEF C, V
      <3>2. F[Both(c)] \in V /\ F[Up(c)] \in V /\ F[Back(c)] \in V
        BY <3>1
      <3>3. F[c] = next(c, F[Both(c)], F[Up(c)], F[Back(c)])
        BY <1>1, <2>1, <2>3, <3>2
      <3> QED BY <2>3, <3>3 DEF WalkAt, next, R
    <2> QED BY <2>2, <2>3
  <1>5. F = [c \in Cells(l, r) |-> WalkAt(F, l, r, c)]
    BY <1>4 DEF Cells, m, n
  <1> DEFINE W == CHOOSE walk : walk = [c \in Cells(l, r) |-> WalkAt(walk, l, r, c)]
  <1>6. LcsPairs(l, r) = W[<<Len(l), Len(r)>>]
    BY DEF LcsPairs, WalkAt
  <1>7. W = [c \in Cells(l, r) |-> WalkAt(W, l, r, c)]
    BY <1>5
  <1> HIDE DEF W
  <1>8. \A c \in Cells(l, r) : W[c] = WalkAt(W, l, r, c)
    BY <1>7
  <1> QED BY <1>6, <1>8

\* The pairs found are all pairs of equal text, each once.
LEMMA LcsPairsAll ==
    ASSUME NEW l, NEW r, Len(l) \in Nat, Len(r) \in Nat, InStep(l, r)
    PROVE  /\ LcsPairs(l, r) \in Seq(Cells(l, r))
           /\ Lists(LcsPairs(l, r), Matches(l, r, <<Len(l), Len(r)>>))
  <1> DEFINE R == Common(l, r)
             M(c) == Matches(l, r, c)
             C == Cells(l, r)
  <1>1. PICK walk : /\ \A c \in C : walk[c] = WalkAt(walk, l, r, c)
                    /\ LcsPairs(l, r) = walk[<<Len(l), Len(r)>>]
    BY LcsPairsWalk
  <1>2. \A c \in C : /\ R[c] = Cardinality(M(c)) /\ IsFiniteSet(M(c)) /\ Cardinality(M(c)) \in Nat
                     /\ Edge(c) => M(c) = {}
    BY CommonCounts, MatchesFinite
  <1> DEFINE S == {c \in C : walk[c] \in Seq(C) /\ Lists(walk[c], M(c))}
  <1>3. \A c \in C : Edge(c) => c \in S
    <2> HIDE DEF C, M
    <2>1. <<>> \in Seq(C) /\ Lists(<<>>, {})
      BY DEF Lists
    <2> QED BY <1>1, <1>2, <2>1 DEF WalkAt
  <1>4. ASSUME NEW c \in C, ~Edge(c), Both(c) \in S, Up(c) \in S, Back(c) \in S PROVE c \in S
    <2>1. /\ M(Up(c)) \subseteq M(c) /\ M(Back(c)) \subseteq M(c)
          /\ l[c[1]].text = r[c[2]].text => M(c) = M(Both(c)) \cup {c} /\ c \notin M(Both(c))
          /\ l[c[1]].text # r[c[2]].text => M(c) = M(Up(c)) \/ M(c) = M(Back(c))
      BY <1>4, MatchesGrow
    <2> HIDE DEF M, C, R
    <2>2. CASE l[c[1]].text = r[c[2]].text
      <3>1. walk[c] = Append(walk[Both(c)], c)
        BY <1>1, <1>4, <2>2 DEF WalkAt
      <3>2. walk[Both(c)] \in Seq(C) /\ Lists(walk[Both(c)], M(Both(c)))
        BY <1>4
      <3>3. walk[c] \in Seq(C)
        BY <3>1, <3>2
      <3>4. Lists(walk[c], M(c))
        BY <2>1, <2>2, <3>1, <3>2, ListsMore
      <3> QED BY <3>3, <3>4
    <2>3. CASE l[c[1]].text # r[c[2]].text
      <3>1. /\ IsFiniteSet(M(c)) /\ R[Up(c)] = Cardinality(M(Up(c)))
            /\ R[Back(c)] = Cardinality(M(Back(c)))
        BY <1>2, <1>4
      <3>2. /\ Cardinality(M(Up(c))) \in Nat /\ Cardinality(M(Back(c))) \in Nat
        BY <1>2, <1>4
      <3>3. /\ Cardinality(M(Up(c))) <= Cardinality(M(c))
            /\ Cardinality(M(Back(c))) <= Cardinality(M(c))
            /\ Cardinality(M(c)) = Cardinality(M(Up(c))) => M(c) = M(Up(c))
            /\ Cardinality(M(c)) = Cardinality(M(Back(c))) => M(c) = M(Back(c))
        BY <2>1, <3>1, FS_Subset
      <3>4. CASE R[Up(c)] >= R[Back(c)]
        <4>1. walk[c] = walk[Up(c)]
          BY <1>1, <1>4, <2>3, <3>4 DEF WalkAt, R
        <4>2. Cardinality(M(c)) = Cardinality(M(Up(c)))
          BY <2>1, <2>3, <3>1, <3>2, <3>3, <3>4
        <4> QED BY <1>4, <3>3, <4>1, <4>2
      <3>5. CASE ~(R[Up(c)] >= R[Back(c)])
        <4>1. walk[c] = walk[Back(c)]
          BY <1>1, <1>4, <2>3, <3>5 DEF WalkAt, R
        <4>2. Cardinality(M(c)) = Cardinality(M(Back(c)))
          BY <2>1, <2>3, <3>1, <3>2, <3>3, <3>5
        <4> QED BY <1>4, <3>3, <4>1, <4>2
      <3> QED BY <3>4, <3>5
    <2> QED BY <2>2, <2>3
  <1> HIDE DEF S, M
  <1>5. \A c \in C : c \in S
    <2>1. Len(l) \in Nat /\ Len(r) \in Nat
      OBVIOUS
    <2> QED BY <1>3, <1>4, <2>1, TableInduction DEF Cells
  <1>6. <<Len(l), Len(r)>> \in C
    BY DEF Cells
  <1> QED BY <1>1, <1>5, <1>6 DEF S, M

-----------------------------------------------------------------------------
(* The median                                                               *)

\* The places of a sequence with at most, and with less than, a value.
Upto(d, v)  == {i \in 1 .. Len(d) : d[i] <= v}
Below(d, v) == {i \in 1 .. Len(d) : d[i] < v}

\* Places are finitely many.
LEMMA PlacesFinite ==
    ASSUME NEW n \in Nat, NEW S \in SUBSET (1 .. n)
    PROVE  IsFiniteSet(S) /\ Cardinality(S) \in Nat /\ Cardinality(S) <= n
  <1>1. IsFiniteSet(1 .. n) /\ Cardinality(1 .. n) = n
    <2>1. 1 \in Int /\ n \in Int
      OBVIOUS
    <2>2. IsFiniteSet(1 .. n) /\ Cardinality(1 .. n) = IF 1 > n THEN 0 ELSE n - 1 + 1
      BY <2>1, FS_Interval
    <2> QED BY <2>2
  <1>2. IsFiniteSet(S) /\ Cardinality(S) <= n
    BY <1>1, FS_Subset
  <1> QED BY <1>2, FS_CardinalityType

\* Fewer places when one is missing.
LEMMA FewerPlaces ==
    ASSUME NEW n \in Nat, NEW S \in SUBSET (1 .. n), NEW T \in SUBSET S, NEW x \in S, x \notin T
    PROVE  Cardinality(T) < Cardinality(S)
  <1>1. IsFiniteSet(S) /\ Cardinality(S) \in Nat
    BY PlacesFinite
  <1>2. Cardinality(T) \in Nat
    BY PlacesFinite
  <1>3. Cardinality(T) <= Cardinality(S) /\ (Cardinality(S) = Cardinality(T) => S = T)
    BY <1>1, FS_Subset
  <1> QED BY <1>1, <1>2, <1>3

\* Some place has the largest value.
LEMMA Largest ==
    ASSUME NEW d, Len(d) \in Nat, \A i \in 1 .. Len(d) : d[i] \in Int,
           NEW I \in SUBSET (1 .. Len(d)), I # {}
    PROVE  \E i \in I : \A j \in I : d[j] <= d[i]
  <1> DEFINE n == Len(d)
             above(i) == n - Cardinality(Upto(d, d[i]))
             S == {k \in Nat : \E i \in I : k = above(i)}
  <1>1. \A i \in I : Cardinality(Upto(d, d[i])) \in Nat /\ above(i) \in S
    <2> SUFFICES ASSUME NEW i \in I PROVE Cardinality(Upto(d, d[i])) \in Nat /\ above(i) \in S
      OBVIOUS
    <2>1. Upto(d, d[i]) \in SUBSET (1 .. n)
      BY DEF Upto
    <2>2. Cardinality(Upto(d, d[i])) \in Nat /\ Cardinality(Upto(d, d[i])) <= n
      BY <2>1, PlacesFinite
    <2> QED BY <2>2
  <1>2. PICK k \in S : \A m \in S : k <= m
    <2>1. S \in SUBSET Nat /\ S # {}
      BY <1>1
    <2> HIDE DEF S
    <2> QED BY <2>1, LeastNumber
  <1>3. PICK i \in I : k = above(i)
    BY <1>2
  <1>4. \A j \in I : above(i) <= above(j)
    BY <1>1, <1>2, <1>3
  <1>5. ASSUME NEW j \in I, ~(d[j] <= d[i]) PROVE FALSE
    <2>1. d[i] \in Int /\ d[j] \in Int /\ d[i] < d[j] /\ j \in 1 .. n
      BY <1>5
    <2>2. /\ Upto(d, d[j]) \in SUBSET (1 .. n) /\ Upto(d, d[i]) \in SUBSET Upto(d, d[j])
          /\ j \in Upto(d, d[j]) /\ j \notin Upto(d, d[i])
      BY <2>1 DEF Upto
    <2>3. Cardinality(Upto(d, d[i])) < Cardinality(Upto(d, d[j]))
      BY <2>2, FewerPlaces
    <2>4. above(i) <= above(j)
      BY <1>4
    <2>5. Cardinality(Upto(d, d[i])) \in Nat /\ Cardinality(Upto(d, d[j])) \in Nat
      BY <1>1
    <2>6. n - Cardinality(Upto(d, d[i])) <= n - Cardinality(Upto(d, d[j])) /\ n \in Nat
      BY <2>4
    <2> HIDE DEF n, above, S
    <2> QED BY <2>3, <2>5, <2>6
  <1> QED BY <1>5

\* There is a value at place k, and it is what its name says.
LEMMA SmallestIs ==
    ASSUME NEW d, Len(d) \in Nat, \A i \in 1 .. Len(d) : d[i] \in Int, NEW k \in 1 .. Len(d)
    PROVE  /\ Smallest(d, k) \in Int
           /\ Cardinality(Below(d, Smallest(d, k))) < k
           /\ Cardinality(Upto(d, Smallest(d, k))) >= k
  <1> DEFINE n == Len(d)
             up(i) == Cardinality(Upto(d, d[i]))
             I == {i \in 1 .. n : up(i) >= k}
             S == {m \in Nat : \E i \in I : m = up(i)}
  <1>1. \A v : /\ Upto(d, v) \in SUBSET (1 .. n) /\ Below(d, v) \in SUBSET (1 .. n)
               /\ Cardinality(Upto(d, v)) \in Nat /\ Cardinality(Below(d, v)) \in Nat
    <2> TAKE v
    <2>1. Upto(d, v) \in SUBSET (1 .. n) /\ Below(d, v) \in SUBSET (1 .. n)
      BY DEF Upto, Below
    <2> QED BY <2>1, PlacesFinite
  <1>2. \E i \in 1 .. n : up(i) >= k
    <2>1. 1 .. n \in SUBSET (1 .. n) /\ 1 .. n # {}
      OBVIOUS
    <2>2. PICK i \in 1 .. n : \A j \in 1 .. n : d[j] <= d[i]
      BY <2>1, Largest
    <2>3. Upto(d, d[i]) = 1 .. n
      BY <2>2 DEF Upto
    <2>4. Cardinality(1 .. n) = n
      <3>1. 1 \in Int /\ n \in Int
        OBVIOUS
      <3>2. Cardinality(1 .. n) = IF 1 > n THEN 0 ELSE n - 1 + 1
        BY <3>1, FS_Interval
      <3> QED BY <3>2
    <2> QED BY <2>3, <2>4
  <1>3. \A i \in I : up(i) \in S
    BY <1>1
  <1>4. PICK i \in I : \A j \in I : up(i) <= up(j)
    <2>1. S \in SUBSET Nat /\ S # {}
      BY <1>2, <1>3
    <2>2. PICK m \in S : \A s \in S : m <= s
      <3> HIDE DEF S
      <3> QED BY <2>1, LeastNumber
    <2>3. PICK i \in I : m = up(i)
      BY <2>2
    <2>4. \A j \in I : up(i) <= up(j)
      BY <1>3, <2>2, <2>3
    <2> QED BY <2>4
  <1>5. ASSUME ~(Cardinality(Below(d, d[i])) < k) PROVE FALSE
    <2>1. Below(d, d[i]) # {}
      <3> SUFFICES ASSUME Below(d, d[i]) = {} PROVE FALSE
        OBVIOUS
      <3>1. Cardinality(Below(d, d[i])) = 0
        BY FS_EmptySet
      <3>2. 0 < k
        OBVIOUS
      <3> QED BY <1>5, <3>1, <3>2
    <2>2. PICK j \in Below(d, d[i]) : \A u \in Below(d, d[i]) : d[u] <= d[j]
      BY <1>1, <2>1, Largest
    <2>3. j \in 1 .. n /\ i \in 1 .. n /\ d[j] < d[i] /\ \A u \in 1 .. n : d[u] \in Int
      BY <2>2 DEF Below
    <2>4. Upto(d, d[j]) = Below(d, d[i])
      <3>1. \A u \in 1 .. n : d[u] < d[i] => d[u] <= d[j]
        BY <2>2 DEF Below
      <3>2. \A u \in 1 .. n : d[u] <= d[j] => d[u] < d[i]
        BY <2>3
      <3> QED BY <3>1, <3>2 DEF Upto, Below
    <2>5. j \in I
      BY <1>1, <1>5, <2>3, <2>4
    <2>6. Below(d, d[i]) \in SUBSET Upto(d, d[i]) /\ i \in Upto(d, d[i]) /\ i \notin Below(d, d[i])
      BY <2>3 DEF Upto, Below
    <2>7. up(j) < up(i)
      BY <1>1, <2>4, <2>6, FewerPlaces
    <2>8. up(i) <= up(j)
      BY <1>4, <2>5
    <2> QED BY <1>1, <2>7, <2>8
  <1> DEFINE P(v) == Cardinality(Below(d, v)) < k /\ Cardinality(Upto(d, v)) >= k
             D == {d[j] : j \in 1 .. n}
  <1>6. P(d[i]) /\ d[i] \in D
    BY <1>4, <1>5
  <1>7. Smallest(d, k) = CHOOSE v \in D : P(v)
    BY DEF Smallest, Upto, Below
  <1> HIDE DEF P
  <1>8. P(Smallest(d, k)) /\ Smallest(d, k) \in D
    BY <1>6, <1>7
  <1>9. D \subseteq Int
    OBVIOUS
  <1> QED BY <1>8, <1>9 DEF P

\* A value at a place in the middle lies between any two numbers that more than
\* half of all values lie between.
LEMMA MiddleOfMost ==
    ASSUME NEW d, Len(d) \in Nat, \A i \in 1 .. Len(d) : d[i] \in Int,
           NEW lo \in Int, NEW hi \in Int, NEW G \in SUBSET (1 .. Len(d)),
           2 * Cardinality(G) > Len(d), \A i \in G : lo <= d[i] /\ d[i] <= hi,
           NEW k \in 1 .. Len(d), 2 * k <= Len(d) + 2, 2 * k >= Len(d)
    PROVE  lo <= Smallest(d, k) /\ Smallest(d, k) <= hi
  <1> DEFINE n == Len(d)
             v == Smallest(d, k)
  <1>1. v \in Int /\ Cardinality(Below(d, v)) < k /\ Cardinality(Upto(d, v)) >= k
    BY SmallestIs
  <1>2. /\ IsFiniteSet(G) /\ Cardinality(G) \in Nat /\ n \in Nat
        /\ Upto(d, v) \in SUBSET (1 .. n) /\ Below(d, v) \in SUBSET (1 .. n)
    BY PlacesFinite DEF Upto, Below
  <1>3. /\ IsFiniteSet(Upto(d, v)) /\ Cardinality(Upto(d, v)) \in Nat
        /\ IsFiniteSet(Below(d, v)) /\ Cardinality(Below(d, v)) \in Nat
    BY <1>2, PlacesFinite
  <1> HIDE DEF v
  <1>4. ASSUME ~(v <= hi) PROVE FALSE
    <2>1. G \in SUBSET Below(d, v)
      <3> SUFFICES ASSUME NEW i \in G PROVE i \in Below(d, v)
        OBVIOUS
      <3>1. i \in 1 .. Len(d) /\ d[i] \in Int /\ d[i] <= hi
        OBVIOUS
      <3> QED BY <1>1, <1>4, <3>1 DEF Below
    <2>2. Cardinality(G) <= Cardinality(Below(d, v))
      BY <1>3, <2>1, FS_Subset
    <2> QED BY <1>1, <1>2, <1>3, <2>2
  <1>5. ASSUME ~(lo <= v) PROVE FALSE
    <2>1. G \cap Upto(d, v) = {}
      <3> SUFFICES ASSUME NEW i \in G PROVE i \notin Upto(d, v)
        OBVIOUS
      <3>1. i \in 1 .. Len(d) /\ d[i] \in Int /\ lo <= d[i]
        OBVIOUS
      <3> QED BY <1>1, <1>5, <3>1 DEF Upto
    <2>2. Cardinality(G \cup Upto(d, v)) = Cardinality(G) + Cardinality(Upto(d, v)) - Cardinality(G \cap Upto(d, v))
      BY <1>2, <1>3, FS_Union
    <2>3. Cardinality(G \cap Upto(d, v)) = 0
      BY <2>1, FS_EmptySet
    <2>4. G \cup Upto(d, v) \in SUBSET (1 .. n)
      BY <1>2
    <2>5. Cardinality(G \cup Upto(d, v)) <= n
      BY <1>2, <2>4, PlacesFinite
    <2> QED BY <1>1, <1>2, <1>3, <2>2, <2>3, <2>5
  <1> QED BY <1>4, <1>5 DEF v

\* So does the median.
LEMMA MedianOfMost ==
    ASSUME NEW d, Len(d) \in Nat, \A i \in 1 .. Len(d) : d[i] \in Int,
           NEW lo \in Int, NEW hi \in Int, NEW G \in SUBSET (1 .. Len(d)),
           2 * Cardinality(G) > Len(d), \A i \in G : lo <= d[i] /\ d[i] <= hi
    PROVE  Median(d) \in Int /\ lo <= Median(d) /\ Median(d) <= hi
  <1> DEFINE n == Len(d)
             a == n \div 2 + 1
             b == (n - 1) \div 2 + 1
  <1>1. Cardinality(G) \in Nat /\ Cardinality(G) <= n
    BY PlacesFinite
  <1>2. n \in Nat /\ n > 0
    BY <1>1
  <1>3. \A m \in Nat : m > 0 =>
          /\ m \div 2 + 1 \in 1 .. m \/ m = 1
          /\ (m - 1) \div 2 + 1 \in 1 .. m
          /\ 2 * (m \div 2 + 1) <= m + 2 /\ 2 * (m \div 2 + 1) >= m
          /\ 2 * ((m - 1) \div 2 + 1) <= m + 2 /\ 2 * ((m - 1) \div 2 + 1) >= m
    OBVIOUS
  <1>4. 1 \div 2 + 1 = 1
    OBVIOUS
  <1>5. /\ a \in 1 .. n /\ 2 * a <= n + 2 /\ 2 * a >= n
        /\ b \in 1 .. n /\ 2 * b <= n + 2 /\ 2 * b >= n
    BY <1>2, <1>3, <1>4
  <1>6. Median(d) = (Smallest(d, a) + Smallest(d, b)) \div 2
    BY DEF Median
  <1> HIDE DEF a, b
  <1>7. /\ Smallest(d, a) \in Int /\ lo <= Smallest(d, a) /\ Smallest(d, a) <= hi
    BY <1>5, SmallestIs, MiddleOfMost
  <1>8. /\ Smallest(d, b) \in Int /\ lo <= Smallest(d, b) /\ Smallest(d, b) <= hi
    BY <1>5, SmallestIs, MiddleOfMost
  <1>9. \A x, y \in Int : lo <= x /\ x <= hi /\ lo <= y /\ y <= hi =>
          (x + y) \div 2 \in Int /\ lo <= (x + y) \div 2 /\ (x + y) \div 2 <= hi
    OBVIOUS
  <1> QED BY <1>6, <1>7, <1>8, <1>9

-----------------------------------------------------------------------------
(* The lines that count                                                     *)

\* F is computed line by line.
IsChain(F, n, first, step) == F[0] = first /\ \A i \in 1 .. n : F[i] = step[<<i, F[i - 1]>>]

\* It exists: a table of one column.
LEMMA ChainExists ==
    ASSUME NEW n \in Nat, NEW V, NEW first \in V, NEW step,
           \A i \in 1 .. n : \A v \in V : step[<<i, v>>] \in V
    PROVE  \E F \in [0 .. n -> V] : IsChain(F, n, first, step)
  <1> DEFINE C == (0 .. n) \X (0 .. 1)
             A == C \X V \X V \X V
             other == [x \in A |-> IF x[1][1] \in 1 .. n THEN step[<<x[1][1], x[3]>>] ELSE first]
  <1>1. \A c \in C : \A x, y, z \in V :
          other[<<c, x, y, z>>] = IF c[1] \in 1 .. n THEN step[<<c[1], y>>] ELSE first
    <2> SUFFICES ASSUME NEW c \in C, NEW x \in V, NEW y \in V, NEW z \in V
                 PROVE  other[<<c, x, y, z>>] = IF c[1] \in 1 .. n THEN step[<<c[1], y>>] ELSE first
      OBVIOUS
    <2> HIDE DEF C
    <2>1. <<c, x, y, z>> \in A
      OBVIOUS
    <2> QED BY <2>1
  <1> HIDE DEF other
  <1>2. \A c \in C : \A x, y, z \in V : other[<<c, x, y, z>>] \in V
    <2> HIDE DEF C
    <2> SUFFICES ASSUME NEW c \in C, NEW x \in V, NEW y \in V, NEW z \in V
                 PROVE  other[<<c, x, y, z>>] \in V
      OBVIOUS
    <2>1. other[<<c, x, y, z>>] = IF c[1] \in 1 .. n THEN step[<<c[1], y>>] ELSE first
      BY <1>1
    <2>2. c[1] \in 1 .. n => step[<<c[1], y>>] \in V
      OBVIOUS
    <2> QED BY <2>1, <2>2
  <1>3. PICK T \in [C -> V] : IsTable(T, n, 1, first, other)
    BY <1>2, TableWithin
  <1> DEFINE F == [i \in 0 .. n |-> T[<<i, 1>>]]
  <1>4. \A i \in 0 .. n : <<i, 1>> \in C /\ <<i, 1>>[1] = i /\ <<i, 1>>[2] = 1 /\ F[i] = T[<<i, 1>>]
    OBVIOUS
  <1>5. F \in [0 .. n -> V]
    BY <1>4
  <1>6. \A c \in C : T[c] = IF Edge(c) THEN first
                            ELSE other[<<c, T[Both(c)], T[Up(c)], T[Back(c)]>>]
    BY <1>3 DEF IsTable
  <1> HIDE DEF F
  <1>7. F[0] = first
    <2>1. Edge(<<0, 1>>) /\ 0 \in 0 .. n
      BY DEF Edge
    <2> HIDE DEF C
    <2> QED BY <1>4, <1>6, <2>1
  <1>8. ASSUME NEW i \in 1 .. n PROVE F[i] = step[<<i, F[i - 1]>>]
    <2> DEFINE c == <<i, 1>>
    <2>1. c \in C /\ c[1] = i /\ F[i] = T[c] /\ ~Edge(c)
      BY <1>4 DEF Edge
    <2>2. Both(c) \in C /\ Up(c) = <<i - 1, 1>> /\ Up(c) \in C /\ Back(c) \in C
      BY DEF Both, Up, Back
    <2>3. T[Up(c)] = F[i - 1]
      <3>1. i - 1 \in 0 .. n
        OBVIOUS
      <3> HIDE DEF C
      <3> QED BY <1>4, <2>2, <3>1
    <2> HIDE DEF C, c
    <2>4. T[Both(c)] \in V /\ T[Up(c)] \in V /\ T[Back(c)] \in V
      BY <2>2
    <2>5. T[c] = other[<<c, T[Both(c)], T[Up(c)], T[Back(c)]>>]
      BY <1>6, <2>1
    <2>6. T[c] = step[<<c[1], T[Up(c)]>>]
      BY <1>1, <2>1, <2>4, <2>5
    <2> QED BY <2>1, <2>3, <2>6
  <1> QED BY <1>5, <1>7, <1>8 DEF IsChain

\* s has the lines with one tag of the first n of the record, in their order.
Picks(s, n) ==
    /\ \A c \in 1 .. Len(s) : \E x \in 1 .. n : Single(record[x]) /\ s[c] = record[x]
    /\ \A x \in 1 .. n : Single(record[x]) => \E c \in 1 .. Len(s) : s[c] = record[x]
    /\ \A c, e \in 1 .. Len(s) : \A x, y \in 1 .. n :
         s[c] = record[x] /\ s[e] = record[y] => (c < e <=> x < y)

\* How the lines that count are gathered.
PickAt(upTo, n) ==
    IF n = 0 THEN <<>>
    ELSE IF Single(record[n]) THEN Append(upTo[n - 1], record[n])
    ELSE upTo[n - 1]

\* One more line.
LEMMA PicksMore ==
    ASSUME NEW X, NEW s \in Seq(X), NEW n \in Nat, n > 0, Picks(s, n - 1), record[n] \in X,
           \A x, y \in 1 .. n : record[x] = record[y] => x = y
    PROVE  Picks(IF Single(record[n]) THEN Append(s, record[n]) ELSE s, n)
  <1>0. \A x \in 1 .. n : x = n \/ x \in 1 .. n - 1
    OBVIOUS
  <1>1. CASE Single(record[n])
    <2> DEFINE t == Append(s, record[n])
               m == Len(s)
    <2>1. /\ m \in Nat /\ Len(t) = m + 1 /\ t[m + 1] = record[n]
          /\ \A c \in 1 .. m : t[c] = s[c]
      OBVIOUS
    <2> HIDE DEF t
    <2>2. \A c \in 1 .. m + 1 : c = m + 1 \/ c \in 1 .. m
      BY <2>1
    <2>3. n \in 1 .. n /\ 1 .. n - 1 \subseteq 1 .. n /\ m + 1 \in 1 .. m + 1 /\ 1 .. m \subseteq 1 .. m + 1
      BY <2>1
    <2> HIDE DEF m
    <2>4. ASSUME NEW c \in 1 .. m + 1 PROVE \E x \in 1 .. n : Single(record[x]) /\ t[c] = record[x]
      <3>1. CASE c = m + 1
        BY <1>1, <2>1, <2>3, <3>1
      <3>2. CASE c \in 1 .. m
        BY <2>1, <2>3, <3>2 DEF Picks, m
      <3> QED BY <2>2, <3>1, <3>2
    <2>5. ASSUME NEW x \in 1 .. n, Single(record[x]) PROVE \E c \in 1 .. m + 1 : t[c] = record[x]
      <3>1. CASE x = n
        BY <2>1, <2>3, <3>1
      <3>2. CASE x \in 1 .. n - 1
        BY <2>1, <2>3, <2>5, <3>2 DEF Picks, m
      <3> QED BY <1>0, <3>1, <3>2
    <2>6. ASSUME NEW c \in 1 .. m, NEW x \in 1 .. n, t[c] = record[x] PROVE x \in 1 .. n - 1
      <3>1. PICK y \in 1 .. n - 1 : s[c] = record[y]
        BY DEF Picks, m
      <3>2. x = y
        BY <2>1, <2>3, <2>6, <3>1
      <3> QED BY <3>1, <3>2
    <2>7. ASSUME NEW c \in 1 .. m + 1, NEW e \in 1 .. m + 1, NEW x \in 1 .. n, NEW y \in 1 .. n,
                 t[c] = record[x], t[e] = record[y]
          PROVE  c < e <=> x < y
      <3>1. CASE c = m + 1 /\ e = m + 1
        <4>1. x = n /\ y = n
          BY <2>1, <2>3, <2>7, <3>1
        <4> QED BY <3>1, <4>1, <2>1
      <3>2. CASE c = m + 1 /\ e \in 1 .. m
        <4>1. x = n /\ y \in 1 .. n - 1
          BY <2>1, <2>3, <2>6, <2>7, <3>2
        <4> QED BY <3>2, <4>1, <2>1
      <3>3. CASE c \in 1 .. m /\ e = m + 1
        <4>1. y = n /\ x \in 1 .. n - 1
          BY <2>1, <2>3, <2>6, <2>7, <3>3
        <4> QED BY <3>3, <4>1, <2>1
      <3>4. CASE c \in 1 .. m /\ e \in 1 .. m
        <4>1. x \in 1 .. n - 1 /\ y \in 1 .. n - 1 /\ s[c] = record[x] /\ s[e] = record[y]
          BY <2>1, <2>6, <2>7, <3>4
        <4> QED BY <3>4, <4>1 DEF Picks, m
      <3> QED BY <2>2, <3>1, <3>2, <3>3, <3>4
    <2>8. Picks(t, n)
      BY <2>1, <2>4, <2>5, <2>7 DEF Picks
    <2> QED BY <1>1, <2>8 DEF t
  <1>2. CASE ~Single(record[n])
    <2>1. \A c \in 1 .. Len(s) : \E x \in 1 .. n - 1 : Single(record[x]) /\ s[c] = record[x]
      BY DEF Picks
    <2>2. n \in 1 .. n /\ 1 .. n - 1 \subseteq 1 .. n
      OBVIOUS
    <2>3. \A c \in 1 .. Len(s) : \A x \in 1 .. n : s[c] = record[x] => x \in 1 .. n - 1
      BY <2>1, <2>2
    <2>4. \A x \in 1 .. n : Single(record[x]) => \E c \in 1 .. Len(s) : s[c] = record[x]
      BY <1>0, <1>2 DEF Picks
    <2>5. \A c, e \in 1 .. Len(s) : \A x, y \in 1 .. n :
            s[c] = record[x] /\ s[e] = record[y] => (c < e <=> x < y)
      BY <2>3 DEF Picks
    <2> QED BY <1>2, <2>1, <2>2, <2>4, <2>5 DEF Picks
  <1> QED BY <1>1, <1>2

\* The lines that count are those with one tag, in their order.
LEMMA CuratedPicks ==
    ASSUME Len(record) \in Nat,
           \A x, y \in 1 .. Len(record) : record[x] = record[y] => x = y
    PROVE  Len(Curated) \in Nat /\ Picks(Curated, Len(record))
  <1> DEFINE n == Len(record)
             X == {record[x] : x \in 1 .. n}
             V == Seq(X)
             A == (1 .. n) \X V
             next(i, s) == IF Single(record[i]) THEN Append(s, record[i]) ELSE s
             step == [a \in A |-> next(a[1], a[2])]
  <1>1. \A i \in 1 .. n : record[i] \in X
    OBVIOUS
  <1> HIDE DEF X, n
  <1>2. \A i \in 1 .. n : \A s \in V : next(i, s) \in V
    BY <1>1
  <1>3. \A i \in 1 .. n : \A s \in V : step[<<i, s>>] = next(i, s)
    <2> HIDE DEF next, V
    <2> QED OBVIOUS
  <1>4. <<>> \in V /\ n \in Nat
    BY DEF n
  <1> HIDE DEF step, next, V
  <1>a. PICK F \in [0 .. n -> V] : IsChain(F, n, <<>>, step)
    <2>1. \A i \in 1 .. n : \A s \in V : step[<<i, s>>] \in V
      BY <1>2, <1>3
    <2> QED BY <1>4, <2>1, ChainExists
  <1>5. F[0] = <<>> /\ \A i \in 1 .. n : F[i] = step[<<i, F[i - 1]>>]
    BY <1>a DEF IsChain
  <1>6. \A i \in 0 .. n : F[i] = PickAt(F, i)
    <2> SUFFICES ASSUME NEW i \in 0 .. n PROVE F[i] = PickAt(F, i)
      OBVIOUS
    <2>1. CASE i = 0
      BY <1>5, <2>1 DEF PickAt
    <2>2. CASE i # 0
      <3>1. i \in 1 .. n /\ F[i - 1] \in V
        BY <1>4, <1>5, <2>2
      <3>2. F[i] = next(i, F[i - 1])
        BY <1>3, <1>5, <3>1
      <3> QED BY <2>2, <3>2 DEF PickAt, next
    <2> QED BY <2>1, <2>2
  <1>7. F = [i \in 0 .. n |-> PickAt(F, i)]
    BY <1>6
  <1> DEFINE W == CHOOSE upTo : upTo = [i \in 0 .. n |-> PickAt(upTo, i)]
  <1>8. Curated = W[n]
    BY DEF Curated, PickAt, n
  <1>9. W = [i \in 0 .. n |-> PickAt(W, i)]
    BY <1>7
  <1> HIDE DEF W
  <1>10. \A i \in 0 .. n : W[i] = PickAt(W, i)
    BY <1>9
  <1> DEFINE S == {i \in 0 .. n : W[i] \in Seq(X) /\ Picks(W[i], i)}
  <1>11. 0 \in S
    <2>1. W[0] = <<>>
      BY <1>4, <1>10 DEF PickAt
    <2>2. <<>> \in Seq(X) /\ Picks(<<>>, 0)
      BY DEF Picks
    <2> QED BY <1>4, <2>1, <2>2
  <1>12. ASSUME NEW i \in 1 .. n, i - 1 \in S PROVE i \in S
    <2>1. W[i - 1] \in Seq(X) /\ Picks(W[i - 1], i - 1) /\ record[i] \in X
      BY <1>1, <1>12
    <2>2. W[i] = IF Single(record[i]) THEN Append(W[i - 1], record[i]) ELSE W[i - 1]
      BY <1>4, <1>10 DEF PickAt
    <2>3. \A x, y \in 1 .. i : record[x] = record[y] => x = y
      BY <1>4 DEF n
    <2>4. i \in Nat /\ i > 0
      OBVIOUS
    <2>5. Picks(W[i], i)
      BY <2>1, <2>2, <2>3, <2>4, PicksMore
    <2>6. W[i] \in Seq(X)
      BY <2>1, <2>2
    <2> QED BY <2>5, <2>6
  <1> HIDE DEF S
  <1>13. n \in S
    <2>1. \A i \in 0 .. n : i \in S
      BY <1>4, <1>11, <1>12, Induction
    <2> QED BY <1>4, <2>1
  <1> QED BY <1>8, <1>13 DEF S, n

-----------------------------------------------------------------------------
(* The walk                                                                 *)

\* A sequence of whatever.
IsSeq(s) == \E S : s \in Seq(S)

\* Every line of the aligner is close to its own line of the record.
AllFit == \A k \in 1 .. Len(aligned) : DriftOk(aligned[k], Shown[aligned[k].line])

\* The aligner's lines are lines of the record, in their order.
InOrder ==
    /\ \A k \in 1 .. Len(aligned) :
        /\ aligned[k].line \in 1 .. Len(record)
        /\ aligned[k].text = record[aligned[k].line].text
    /\ \A k, m \in 1 .. Len(aligned) : k < m => aligned[k].line < aligned[m].line

\* Before the walk nothing has landed; the aligner has placed earlier lines only.
Before ==
    /\ phase \in {"align", "estimate"} => cursor = 1 /\ landed = {}
    /\ phase = "align" => \A k \in 1 .. Len(aligned) : aligned[k].line < at
    /\ phase = "estimate" => at = 1

Walking == {"merge", "gate", "curated", "aligned", "floor"}

\* In the walk: what the cursor has passed has landed, and the next entry is for
\* this line or a later one.
Unmissed ==
    phase \in Walking /\ aligned # <<>> /\ AllFit =>
        /\ {pair[2] : pair \in landed} = 1 .. cursor - 1
        /\ cursor <= Len(aligned) => aligned[cursor].line >= at

\* The walk ends behind the record.
Ended == phase \in Walking \ {"merge"} /\ aligned # <<>> => at > Len(record)

Inv ==
    /\ record \in Records
    /\ IsSeq(aligned)
    /\ phase \in Walking \cup {"align", "estimate"}
    /\ at \in 1 .. Len(record) + 1
    /\ cursor \in 1 .. Len(aligned) + 1
    /\ InOrder
    /\ Before
    /\ Unmissed
    /\ Ended

\* What Append does to any sequence.
LEMMA AppendAny ==
    ASSUME NEW s, IsSeq(s), NEW x
    PROVE  /\ IsSeq(Append(s, x))
           /\ Len(s) \in Nat /\ Len(Append(s, x)) = Len(s) + 1
           /\ \A k \in 1 .. Len(s) : Append(s, x)[k] = s[k]
           /\ Append(s, x)[Len(s) + 1] = x
  <1>1. PICK S : s \in Seq(S) BY DEF IsSeq
  <1> DEFINE T == S \cup {x}
  <1>2. s \in Seq(T) BY <1>1
  <1>3. x \in T OBVIOUS
  <1>4. Append(s, x) \in Seq(T) BY <1>2, <1>3
  <1> QED BY <1>2, <1>3, <1>4 DEF IsSeq

\* The empty sequence is one, and only it has no elements.
LEMMA EmptyAny ==
    /\ IsSeq(<<>>) /\ Len(<<>>) = 0
    /\ \A s : IsSeq(s) => Len(s) \in Nat /\ DOMAIN s = 1 .. Len(s) /\ (s # <<>> => Len(s) > 0)
  <1>1. <<>> \in Seq({}) /\ Len(<<>>) = 0 OBVIOUS
  <1>2. ASSUME NEW s, IsSeq(s)
        PROVE  Len(s) \in Nat /\ DOMAIN s = 1 .. Len(s) /\ (s # <<>> => Len(s) > 0)
    <2>1. PICK S : s \in Seq(S) BY <1>2 DEF IsSeq
    <2> QED BY <2>1
  <1> QED BY <1>1, <1>2 DEF IsSeq

\* The second components when one pair is added.
LEMMA SecondOfUnion ==
    ASSUME NEW S, NEW x
    PROVE  {pair[2] : pair \in S \cup {x}} = {pair[2] : pair \in S} \cup {x[2]}
  <1>1. ASSUME NEW y
        PROVE  y \in {pair[2] : pair \in S \cup {x}}
               <=> y \in {pair[2] : pair \in S} \cup {x[2]}
    OBVIOUS
  <1> QED BY <1>1

\* The initial state.
LEMMA InitInv == Init => Inv
  BY EmptyAny, RecordsAreTimed DEF Init, Inv, InOrder, Before, Unmissed, Ended, Walking

\* The aligner places a line.
LEMMA PlaceKeeps == Inv /\ Place => Inv'
  <1> SUFFICES ASSUME Inv, Place PROVE Inv'
    OBVIOUS
  <1>1. PICK e : e.line = at /\ e.text = record[at].text /\ aligned' = Append(aligned, e)
    BY DEF Place
  <1>2. /\ IsSeq(aligned') /\ Len(aligned) \in Nat /\ Len(aligned') = Len(aligned) + 1
        /\ \A k \in 1 .. Len(aligned) : aligned'[k] = aligned[k]
        /\ aligned'[Len(aligned) + 1] = e
    BY <1>1, AppendAny DEF Inv
  <1>3. /\ phase = "align" /\ phase' = "align" /\ at <= Len(record) /\ at' = at + 1
        /\ record' = record /\ cursor' = cursor /\ landed' = landed
    BY DEF Place
  <1>4. Len(record) \in Nat
    BY RecordsAreTimed DEF Inv
  <1>5. InOrder'
    <2> DEFINE N == Len(aligned)
    <2>1. /\ \A k \in 1 .. N : /\ aligned[k].line \in 1 .. Len(record) /\ aligned[k].line < at
                              /\ aligned[k].text = record[aligned[k].line].text
          /\ \A k, m \in 1 .. N : k < m => aligned[k].line < aligned[m].line
      BY <1>3 DEF Inv, InOrder, Before
    <2>2. at \in 1 .. Len(record)
      BY <1>3, <1>4 DEF Inv
    <2>3. N \in Nat /\ Len(aligned') = N + 1 /\ (\A k \in 1 .. N : aligned'[k] = aligned[k])
          /\ aligned'[N + 1].line = at /\ aligned'[N + 1].text = record[at].text
      BY <1>1, <1>2
    <2> HIDE DEF N
    <2>4. \A k \in 1 .. N + 1 : /\ aligned'[k].line \in 1 .. Len(record)
                               /\ aligned'[k].text = record[aligned'[k].line].text
      BY <2>1, <2>2, <2>3
    <2>5. \A k, m \in 1 .. N + 1 : k < m => aligned'[k].line < aligned'[m].line
      <3> SUFFICES ASSUME NEW k \in 1 .. N + 1, NEW m \in 1 .. N + 1, k < m
                   PROVE  aligned'[k].line < aligned'[m].line
        OBVIOUS
      <3>1. k \in 1 .. N
        BY <2>3
      <3>2. CASE m = N + 1
        BY <2>1, <2>3, <3>1, <3>2
      <3>3. CASE m \in 1 .. N
        BY <2>1, <2>3, <3>1, <3>3
      <3> QED BY <2>3, <3>2, <3>3
    <2> QED BY <1>3, <2>3, <2>4, <2>5 DEF InOrder
  <1>6. Before'
    BY <1>1, <1>2, <1>3, <1>4 DEF Inv, InOrder, Before
  <1>7. Unmissed' /\ Ended'
    BY <1>3 DEF Unmissed, Ended, Walking
  <1>8. at' \in 1 .. Len(record') + 1 /\ cursor' \in 1 .. Len(aligned') + 1
    <2>1. at \in 1 .. Len(record) + 1 /\ cursor \in 1 .. Len(aligned) + 1
      BY DEF Inv
    <2> QED BY <1>2, <1>3, <1>4, <2>1
  <1> QED
    BY <1>2, <1>3, <1>5, <1>6, <1>7, <1>8 DEF Inv

\* The aligner drops a line, or is done.
LEMMA DropKeeps == Inv /\ (Drop \/ Aligned) => Inv'
  <1> SUFFICES ASSUME Inv, Drop \/ Aligned PROVE Inv'
    OBVIOUS
  <1>1. Len(record) \in Nat BY RecordsAreTimed DEF Inv
  <1>2. Len(aligned) \in Nat BY EmptyAny DEF Inv
  <1>3. /\ phase = "align" /\ phase' \in {"align", "estimate"}
        /\ record' = record /\ aligned' = aligned /\ cursor' = cursor /\ landed' = landed
        /\ at' \in 1 .. Len(record) + 1 /\ (phase' = "estimate" => at' = 1)
        /\ (phase' = "align" => at' = at + 1)
    BY <1>1 DEF Inv, Drop, Aligned
  <1>4. InOrder' /\ Unmissed' /\ Ended'
    BY <1>3 DEF Inv, InOrder, Unmissed, Ended, Walking
  <1>5. Before'
    <2>1. /\ cursor = 1 /\ landed = {} /\ at \in Nat
          /\ \A k \in 1 .. Len(aligned) : aligned[k].line < at /\ aligned[k].line \in Nat
      BY <1>1, <1>3 DEF Inv, Before, InOrder
    <2> QED BY <1>2, <1>3, <2>1 DEF Before
  <1> QED
    BY <1>3, <1>4, <1>5 DEF Inv, Walking

\* Whatever the estimate comes to, nothing has landed yet.
LEMMA EstimateKeeps == Inv /\ Estimate => Inv'
  <1> SUFFICES ASSUME Inv, Estimate PROVE Inv'
    OBVIOUS
  <1>1. /\ phase = "estimate" /\ at' = at /\ cursor' = cursor /\ landed' = landed
        /\ record' = record /\ aligned' = aligned
        /\ phase' = IF aligned = <<>> THEN "gate" ELSE "merge"
    BY DEF Estimate
  <1>2. at = 1 /\ cursor = 1 /\ landed = {}
    BY <1>1 DEF Inv, Before
  <1>3. Len(aligned) \in Nat BY EmptyAny DEF Inv
  <1>4. {pair[2] : pair \in landed'} = 1 .. cursor' - 1
    BY <1>1, <1>2
  <1> QED
    BY <1>1, <1>2, <1>3, <1>4 DEF Inv, InOrder, Before, Unmissed, Ended, Walking

\* One line of the record.  An entry that fits its own line is either of this
\* line, then the two match, or of a later one, then it is kept for that one.
LEMMA MergeKeeps == Inv /\ MergeLine => Inv'
  <1> SUFFICES ASSUME Inv, MergeLine PROVE Inv'
    OBVIOUS
  <1>1. /\ phase = "merge" /\ phase' = "merge" /\ at <= Len(record) /\ at' = at + 1
        /\ record' = record /\ aligned' = aligned /\ offset' = offset
    BY DEF MergeLine
  <1>2. Len(record) \in Nat BY RecordsAreTimed DEF Inv
  <1>3. Len(aligned) \in Nat BY EmptyAny DEF Inv
  <1>4. AllFit' = AllFit
    BY <1>1 DEF AllFit, DriftOk, Anchors, Shown, ShiftLrc
  <1>5. cursor' \in 1 .. Len(aligned') + 1
    BY <1>1, <1>3 DEF Inv, MergeLine, Unmatched, Drifted, Match, Facing
  <1>6. ASSUME aligned # <<>>, AllFit
        PROVE  /\ {pair[2] : pair \in landed'} = 1 .. cursor' - 1
               /\ cursor' <= Len(aligned) => aligned[cursor'].line >= at'
    <2>1. /\ {pair[2] : pair \in landed} = 1 .. cursor - 1
          /\ cursor <= Len(aligned) => aligned[cursor].line >= at
      BY <1>1, <1>6 DEF Inv, Unmissed, Walking
    <2>2. \A k \in 1 .. Len(aligned) :
            /\ aligned[k].line \in 1 .. Len(record)
            /\ aligned[k].text = record[aligned[k].line].text
            /\ DriftOk(aligned[k], Shown[aligned[k].line])
      BY <1>6 DEF Inv, InOrder, AllFit
    <2>3. at \in Nat /\ cursor \in 1 .. Len(aligned) + 1
      BY <1>2 DEF Inv
    <2>4. CASE Unmatched
      <3>1. cursor <= Len(aligned) => aligned[cursor].line # at
        BY <2>2, <2>3, <2>4, <1>3 DEF Unmatched, Facing
      <3> QED BY <1>1, <1>2, <1>3, <2>1, <2>2, <2>3, <2>4, <3>1 DEF Unmatched
    <2>5. CASE Drifted
      <3>1. cursor <= Len(aligned) /\ aligned[cursor].text = record[at].text
            /\ ~DriftOk(aligned[cursor], Shown[at])
        BY <2>5 DEF Drifted, Facing
      <3>2. aligned[cursor].line # at /\ aligned[cursor].line \in at + 1 .. Len(record)
        BY <1>2, <1>3, <2>1, <2>2, <2>3, <3>1
      <3>3. Shown[aligned[cursor].line].text = record[aligned[cursor].line].text
        BY <3>2, <2>3, RecordsAreTimed DEF Inv, Shown, ShiftLrc
      <3>4. Defer(aligned[cursor], at)
        <4> DEFINE own == aligned[cursor].line
        <4>1. cursor \in 1 .. Len(aligned) BY <1>3, <2>3, <3>1
        <4>2. Shown[own].text = record[at].text BY <2>2, <3>1, <3>3, <4>1
        <4>3. DriftOk(aligned[cursor], Shown[own]) BY <2>2, <4>1
        <4>4. own \in at + 1 .. Len(record) BY <3>2
        <4> HIDE DEF own
        <4> QED BY <4>2, <4>3, <4>4 DEF Defer
      <3>5. cursor' = cursor /\ landed' = landed
        BY <2>5, <3>4 DEF Drifted
      <3> QED BY <1>1, <1>2, <2>1, <2>3, <3>2, <3>5
    <2>6. CASE Match
      <3>1. cursor <= Len(aligned) /\ cursor' = cursor + 1
            /\ landed' = landed \cup {<<at, cursor>>}
        BY <2>6 DEF Match, Facing
      <3>2. {pair[2] : pair \in landed'} = {pair[2] : pair \in landed} \cup {cursor}
        <4>1. <<at, cursor>>[2] = cursor OBVIOUS
        <4> QED BY <3>1, <4>1, SecondOfUnion
      <3>3. {pair[2] : pair \in landed'} = 1 .. cursor' - 1
        <4>1. (1 .. cursor - 1) \cup {cursor} = 1 .. cursor /\ cursor' - 1 = cursor
          BY <1>3, <2>3, <3>1
        <4> QED BY <2>1, <3>2, <4>1
      <3>4. ASSUME cursor' <= Len(aligned) PROVE aligned[cursor'].line >= at'
        <4>1. aligned[cursor].line < aligned[cursor'].line
          <5>1. \A k, m \in 1 .. Len(aligned) : k < m => aligned[k].line < aligned[m].line
            BY DEF Inv, InOrder
          <5>2. cursor \in 1 .. Len(aligned) /\ cursor' \in 1 .. Len(aligned) /\ cursor < cursor'
            BY <1>3, <2>3, <3>1, <3>4
          <5> QED BY <5>1, <5>2
        <4> QED BY <1>1, <1>2, <1>3, <2>1, <2>2, <2>3, <3>1, <3>4, <4>1
      <3> QED BY <3>3, <3>4
    <2> QED BY <2>4, <2>5, <2>6 DEF MergeLine
  <1>7. Unmissed'
    BY <1>1, <1>4, <1>6 DEF Unmissed
  <1> QED
    BY <1>1, <1>2, <1>3, <1>5, <1>7 DEF Inv, InOrder, Before, Ended, Walking

\* The end of the walk, and the gate.
LEMMA EndKeeps == Inv /\ (Merged \/ Ship) => Inv'
  <1> SUFFICES ASSUME Inv, Merged \/ Ship PROVE Inv'
    OBVIOUS
  <1>1. /\ record' = record /\ aligned' = aligned /\ offset' = offset
        /\ at' = at /\ cursor' = cursor /\ landed' = landed
    BY DEF Merged, Ship
  <1>2. AllFit' = AllFit
    BY <1>1 DEF AllFit, DriftOk, Anchors, Shown, ShiftLrc
  <1>3. /\ phase' \in {"gate", "curated", "aligned", "floor"}
        /\ phase \in {"merge", "gate"}
        /\ phase = "merge" => at > Len(record)
    BY DEF Merged, Ship
  <1> QED
    BY <1>1, <1>2, <1>3 DEF Inv, InOrder, Before, Unmissed, Ended, Walking

\* Inv holds always.
LEMMA InvHolds == Spec => []Inv
  <1>1. Inv /\ [Next]_vars => Inv'
    <2> SUFFICES ASSUME Inv, [Next]_vars PROVE Inv'
      OBVIOUS
    <2>1. CASE UNCHANGED vars
      <3>1. AllFit' = AllFit
        BY <2>1 DEF vars, AllFit, DriftOk, Anchors, Shown, ShiftLrc
      <3> QED BY <2>1, <3>1 DEF vars, Inv, InOrder, Before, Unmissed, Ended
    <2> QED
      BY <2>1, PlaceKeeps, DropKeeps, EstimateKeeps, MergeKeeps, EndKeeps DEF Next
  <1> QED BY <1>1, InitInv, PTL DEF Spec

(***************************************************************************)
(* No aligner line that is close to its own line of the record is lost by  *)
(* merge_lrclib_word_tags when all are: for records of any length and any  *)
(* repetition, whichever lines were dropped, whatever the shift.           *)
(***************************************************************************)
THEOREM NothingGoodIsLost == Spec => []GoodTagsLand
  <1>1. Inv => GoodTagsLand
    <2> SUFFICES ASSUME Inv, Done, aligned # <<>>,
                        \A k \in DOMAIN aligned : DriftOk(aligned[k], Shown[aligned[k].line])
                 PROVE  {pair[2] : pair \in landed} = DOMAIN aligned
      BY DEF GoodTagsLand
    <2>1. Len(aligned) \in Nat /\ DOMAIN aligned = 1 .. Len(aligned)
      BY EmptyAny DEF Inv
    <2>2. AllFit
      BY <2>1 DEF AllFit
    <2>3. at > Len(record) /\ at \in Nat /\ Len(record) \in Nat
      BY RecordsAreTimed DEF Inv, Ended, Done, Walking
    <2>4. /\ {pair[2] : pair \in landed} = 1 .. cursor - 1
          /\ cursor <= Len(aligned) => aligned[cursor].line >= at
      BY <2>2 DEF Inv, Unmissed, Done, Walking
    <2>5. cursor = Len(aligned) + 1
      BY <2>1, <2>3, <2>4 DEF Inv, InOrder
    <2> QED BY <2>1, <2>4, <2>5
  <1> QED BY <1>1, InvHolds, PTL

-----------------------------------------------------------------------------
(* The estimate                                                             *)

\* The aligner's times are numbers.
Placed ==
    \A k \in 1 .. Len(aligned) : aligned[k].start \in Int /\ aligned[k].words \subseteq Int

\* The record is shifted by the median or not at all.
Estimated ==
    /\ phase \in {"align", "estimate"} => offset = 0
    /\ offset # 0 => Reliable(Deltas) /\ offset = Median(Deltas)

\* What has landed is close to the line it landed on, of the same text.
Landed ==
    \A pair \in landed :
        /\ pair[1] \in 1 .. Len(record) /\ pair[2] \in 1 .. Len(aligned)
        /\ aligned[pair[2]].text = record[pair[1]].text
        /\ DriftOk(aligned[pair[2]], Shown[pair[1]])

\* What is shipped whole was not rejected.
Passed == phase = "curated" => ~Rejected

Timing ==
    /\ delay \in Delays
    /\ Placed
    /\ Estimated
    /\ phase \in {"align", "estimate"} => landed = {}
    /\ Landed
    /\ Passed

\* The first tag of a line is one of its tags.
LEMMA FirstTimeIs ==
    ASSUME NEW r \in Records, NEW i \in 1 .. Len(r)
    PROVE  FirstTime(r[i]) \in r[i].times /\ r[i].times \subseteq Nat /\ FirstTime(r[i]) \in Nat
  <1>1. i \in DOMAIN r /\ r[i].times # {}
    BY RecordsAreTimed
  <1>2. r[i].times \in SUBSET Nat
    BY <1>1, TimesAreWhole
  <1>3. \E t \in r[i].times : \A u \in r[i].times : t <= u
    BY <1>1, <1>2, LeastNumber
  <1>4. FirstTime(r[i]) \in r[i].times
    BY <1>3 DEF FirstTime
  <1> QED BY <1>2, <1>4

\* At the start.
LEMMA TimingInit == Init => Timing
  BY EmptyAny DEF Init, Timing, Placed, Estimated, Landed, Passed

\* Each step.
LEMMA TimingKeeps == Inv /\ Timing /\ [Next]_vars => Timing'
  <1> SUFFICES ASSUME Inv, Timing, [Next]_vars PROVE Timing'
    OBVIOUS
  <1>0. Len(record) \in Nat /\ Len(aligned) \in Nat
    BY RecordsAreTimed, EmptyAny DEF Inv
  <1>1. CASE Place
    <2>0. PICK p \in Placings :
            \E e : /\ e.start = FirstTime(record[at]) + delay + p.start
                   /\ e.words = {FirstTime(record[at]) + delay + w : w \in p.words}
                   /\ aligned' = Append(aligned, e)
      BY <1>1 DEF Place
    <2>1. PICK e :
            /\ e.start = FirstTime(record[at]) + delay + p.start
            /\ e.words = {FirstTime(record[at]) + delay + w : w \in p.words}
            /\ aligned' = Append(aligned, e)
      BY <2>0
    <2>2. /\ Len(aligned') = Len(aligned) + 1
          /\ \A k \in 1 .. Len(aligned) : aligned'[k] = aligned[k]
          /\ aligned'[Len(aligned) + 1] = e
      BY <2>1, AppendAny DEF Inv
    <2>3. FirstTime(record[at]) \in Int /\ delay \in Int /\ p.start \in Int /\ p.words \subseteq Int
      <3>1. at \in 1 .. Len(record)
        BY <1>0, <1>1 DEF Inv, Place
      <3>2. FirstTime(record[at]) \in Nat
        BY <3>1, FirstTimeIs DEF Inv
      <3> QED BY <3>2, TimesAreWhole DEF Timing
    <2>4. e.start \in Int /\ e.words \subseteq Int
      BY <2>1, <2>3
    <2>5. Placed'
      BY <1>0, <2>2, <2>4 DEF Timing, Placed
    <2>6. /\ phase = "align" /\ phase' = "align" /\ offset' = offset /\ landed' = landed
          /\ delay' = delay
      BY <1>1 DEF Place
    <2> QED BY <2>5, <2>6 DEF Timing, Estimated, Landed, Passed
  <1>2. CASE Drop \/ Aligned
    <2>1. /\ phase = "align" /\ phase' \in {"align", "estimate"} /\ offset' = offset
          /\ landed' = landed /\ delay' = delay /\ aligned' = aligned
      BY <1>2 DEF Drop, Aligned
    <2> QED BY <2>1 DEF Timing, Placed, Estimated, Landed, Passed
  <1>3. CASE Estimate
    <2>1. /\ phase = "estimate" /\ phase' \in {"merge", "gate"} /\ landed' = landed
          /\ delay' = delay /\ aligned' = aligned /\ record' = record
          /\ offset' # 0 => Reliable(Deltas) /\ offset' = Median(Deltas)
      BY <1>3 DEF Estimate
    <2>2. Deltas' = Deltas
      <3>1. Curated' = Curated
        BY <2>1 DEF Curated
      <3> QED BY <2>1, <3>1 DEF Deltas
    <2>3. Reliable(Deltas)' = Reliable(Deltas)
      BY <2>1, <2>2 DEF Reliable, Curated
    <2>4. Estimated'
      BY <2>1, <2>2, <2>3 DEF Estimated
    <2> QED BY <2>1, <2>4 DEF Timing, Placed, Landed, Passed
  <1>4. CASE MergeLine \/ Merged \/ Ship \/ UNCHANGED vars
    <2>1. /\ delay' = delay /\ aligned' = aligned /\ record' = record /\ offset' = offset
      BY <1>4 DEF MergeLine, Merged, Ship, vars
    <2>2. Deltas' = Deltas /\ Reliable(Deltas)' = Reliable(Deltas) /\ Shown' = Shown
      <3>1. Curated' = Curated /\ Shown' = Shown
        BY <2>1 DEF Curated, Shown
      <3>2. Deltas' = Deltas
        BY <2>1, <3>1 DEF Deltas
      <3>3. Reliable(Deltas)' = Reliable(Deltas)
        BY <3>1, <3>2 DEF Reliable
      <3> QED BY <3>1, <3>2, <3>3
    <2>3. Placed'
      BY <2>1 DEF Timing, Placed
    <2>4. phase' \in {"align", "estimate"} => phase' = phase /\ landed' = landed
      BY <1>4 DEF MergeLine, Merged, Ship, vars
    <2>5. Estimated'
      BY <2>1, <2>2, <2>4 DEF Timing, Estimated
    <2>6. Landed'
      <3>1. \A pair \in landed' : pair \in landed \/ (pair = <<at, cursor>> /\ Match /\ MergeLine)
        BY <1>4 DEF MergeLine, Unmatched, Drifted, Match, Merged, Ship, vars
      <3>2. ASSUME Match, MergeLine
            PROVE  /\ at \in 1 .. Len(record) /\ cursor \in 1 .. Len(aligned)
                   /\ aligned[cursor].text = record[at].text
                   /\ DriftOk(aligned[cursor], Shown[at])
        BY <1>0, <3>2 DEF Inv, Match, MergeLine, Facing
      <3>3. SUFFICES ASSUME NEW pair \in landed'
                     PROVE  /\ pair[1] \in 1 .. Len(record) /\ pair[2] \in 1 .. Len(aligned)
                            /\ aligned[pair[2]].text = record[pair[1]].text
                            /\ DriftOk(aligned[pair[2]], Shown[pair[1]])
        BY <2>1, <2>2 DEF Landed, DriftOk, Anchors
      <3>4. CASE pair \in landed
        BY <3>4 DEF Timing, Landed
      <3>5. CASE pair = <<at, cursor>> /\ Match /\ MergeLine
        <4>1. pair[1] = at /\ pair[2] = cursor
          BY <3>5
        <4> QED BY <3>2, <3>5, <4>1
      <3> QED BY <3>1, <3>4, <3>5
    <2>7. Passed'
      <3>1. CASE MergeLine \/ Merged
        BY <3>1 DEF MergeLine, Merged, Passed
      <3>2. CASE Ship \/ UNCHANGED vars
        <4>1. landed' = landed
          BY <3>2 DEF Ship, vars
        <4>2. Rejected' = Rejected
          BY <2>1, <4>1 DEF Rejected, MatchedLines, Curated
        <4> QED BY <3>2, <4>2 DEF Timing, Passed, Ship, vars
      <3> QED BY <1>4, <3>1, <3>2
    <2> QED BY <2>1, <2>3, <2>4, <2>5, <2>6, <2>7 DEF Timing
  <1> QED BY <1>1, <1>2, <1>3, <1>4 DEF Next

\* Always.
LEMMA TimingHolds == Spec => [](Inv /\ Timing)
  <1>1. Spec => []Timing
    BY TimingInit, TimingKeeps, InvHolds, PTL DEF Spec
  <1> QED BY <1>1, InvHolds, PTL

\* In a record without repeats the text tells the line.
LEMMA TextTellsLine ==
    ASSUME record \in Records, NoRepeats
    PROVE  \A x, y \in 1 .. Len(record) : record[x].text = record[y].text => x = y
  <1> DEFINE n == Len(record)
             T == Texts(record)
             f == [x \in 1 .. n |-> record[x].text]
  <1>1. n \in Nat /\ DOMAIN record = 1 .. n
    BY RecordsAreTimed
  <1>2. f \in Surjection(1 .. n, T)
    BY <1>1 DEF Surjection, Texts
  <1>3. IsFiniteSet(1 .. n) /\ Cardinality(1 .. n) = n
    <2>1. 1 \in Int /\ n \in Int
      BY <1>1
    <2>2. IsFiniteSet(1 .. n) /\ Cardinality(1 .. n) = IF 1 > n THEN 0 ELSE n - 1 + 1
      BY <2>1, FS_Interval
    <2> QED BY <1>1, <2>2
  <1>4. Cardinality(T) = Cardinality(1 .. n)
    BY <1>3 DEF NoRepeats
  <1> HIDE DEF f, T
  <1>5. f \in Injection(1 .. n, T)
    BY <1>2, <1>3, <1>4, FS_SurjSameCardinalityImpliesInj
  <1>6. \A x, y \in 1 .. n : f[x] = f[y] => x = y
    BY <1>5, Fun_InjectionProperties
  <1> QED BY <1>6 DEF f

\* By how much the aligner's line is behind its line of the record.
Behind(y) == aligned[y].start - FirstTime(record[aligned[y].line])

\* The deltas are those of the telling lines, each once.
LEMMA DeltasTelling ==
    ASSUME Inv, NoRepeats
    PROVE  /\ Len(Curated) \in Nat /\ Len(Deltas) \in Nat
           /\ \E f \in Bijection(1 .. Len(Deltas), Telling) :
                \A k \in 1 .. Len(Deltas) : Deltas[k] = Behind(f[k])
  <1> DEFINE n == Len(record)
             m == Len(aligned)
             L == Curated
  <1>1. n \in Nat /\ m \in Nat
    BY RecordsAreTimed, EmptyAny DEF Inv
  <1>2. \A x, y \in 1 .. n : record[x].text = record[y].text => x = y
    BY TextTellsLine DEF Inv
  <1>3. Len(L) \in Nat /\ Picks(L, n)
    BY <1>1, <1>2, CuratedPicks
  <1>4. /\ \A y \in 1 .. m : aligned[y].line \in 1 .. n /\ aligned[y].text = record[aligned[y].line].text
        /\ \A y, v \in 1 .. m : y < v => aligned[y].line < aligned[v].line
    BY DEF Inv, InOrder
  <1> HIDE DEF L, n, m
  <1>5. ASSUME NEW c \in 1 .. Len(L), NEW y \in 1 .. m, L[c].text = aligned[y].text
        PROVE  L[c] = record[aligned[y].line] /\ Single(record[aligned[y].line])
    <2>1. PICK x \in 1 .. n : Single(record[x]) /\ L[c] = record[x]
      BY <1>3 DEF Picks
    <2>2. x = aligned[y].line
      BY <1>2, <1>4, <1>5, <2>1
    <2> QED BY <2>1, <2>2
  <1>6. ASSUME NEW c \in 1 .. Len(L), NEW e \in 1 .. Len(L), NEW y \in 1 .. m, NEW v \in 1 .. m,
               L[c].text = aligned[y].text, L[e].text = aligned[v].text
        PROVE  c < e <=> y < v
    <2>1. L[c] = record[aligned[y].line] /\ L[e] = record[aligned[v].line]
      BY <1>5, <1>6
    <2>2. aligned[y].line \in 1 .. n /\ aligned[v].line \in 1 .. n
      BY <1>4
    <2>3. c < e <=> aligned[y].line < aligned[v].line
      <3>1. \A x, z \in 1 .. n : L[c] = record[x] /\ L[e] = record[z] => (c < e <=> x < z)
        BY <1>3 DEF Picks
      <3> DEFINE a == aligned[y].line
                 b == aligned[v].line
      <3> HIDE DEF a, b
      <3>2. a \in 1 .. n /\ b \in 1 .. n /\ L[c] = record[a] /\ L[e] = record[b]
        BY <2>1, <2>2 DEF a, b
      <3>3. c < e <=> a < b
        BY <3>1, <3>2
      <3> QED BY <3>3 DEF a, b
    <2>4. y < v <=> aligned[y].line < aligned[v].line
      <3>1. y < v \/ v < y \/ y = v
        BY <1>1
      <3> QED BY <1>1, <1>4, <2>2, <3>1
    <2> QED BY <2>3, <2>4
  <1>7. InStep(L, aligned)
    BY <1>6 DEF InStep, m
  <1> DEFINE w == LcsPairs(L, aligned)
             corner == <<Len(L), m>>
             M == Matches(L, aligned, corner)
  <1>8. w \in Seq(Cells(L, aligned)) /\ Lists(w, M)
    BY <1>1, <1>3, <1>7, LcsPairsAll DEF m
  <1>9. \A p : p \in M <=> /\ p = <<p[1], p[2]>> /\ p[1] \in 1 .. Len(L) /\ p[2] \in 1 .. m
                           /\ L[p[1]].text = aligned[p[2]].text
    <2>1. corner[1] = Len(L) /\ corner[2] = m
      OBVIOUS
    <2> HIDE DEF corner
    <2> QED BY <2>1 DEF Matches
  <1>10. /\ Len(w) \in Nat
         /\ Deltas = [k \in 1 .. Len(w) |-> aligned[w[k][2]].start - FirstTime(L[w[k][1]])]
    BY <1>8 DEF Deltas, L
  <1>11. Len(Deltas) = Len(w)
    BY <1>10
  <1> HIDE DEF w, M
  <1> DEFINE f == [k \in 1 .. Len(w) |-> w[k][2]]
  <1>12. ASSUME NEW k \in 1 .. Len(w)
         PROVE  f[k] \in Telling /\ Deltas[k] = Behind(f[k])
    <2>1. /\ w[k][1] \in 1 .. Len(L) /\ w[k][2] \in 1 .. m /\ f[k] = w[k][2]
          /\ L[w[k][1]].text = aligned[w[k][2]].text
      BY <1>8, <1>9 DEF Lists
    <2>2. L[w[k][1]] = record[aligned[w[k][2]].line] /\ Single(record[aligned[w[k][2]].line])
      BY <1>5, <2>1
    <2> QED BY <1>10, <2>1, <2>2 DEF Telling, Behind, m
  <1>13. ASSUME NEW y \in Telling PROVE \E k \in 1 .. Len(w) : f[k] = y
    <2>1. y \in 1 .. m /\ Single(record[aligned[y].line])
      BY DEF Telling, m
    <2>2. PICK c \in 1 .. Len(L) : L[c] = record[aligned[y].line]
      BY <1>3, <1>4, <2>1 DEF Picks
    <2>3. <<c, y>> \in M
      BY <1>4, <1>9, <2>1, <2>2
    <2>4. PICK k \in 1 .. Len(w) : w[k] = <<c, y>>
      BY <1>8, <2>3 DEF Lists
    <2> QED BY <2>4
  <1>14. ASSUME NEW j \in 1 .. Len(w), NEW k \in 1 .. Len(w), f[j] = f[k] PROVE j = k
    <2>1. w[j] \in M /\ w[k] \in M /\ w[j][2] = w[k][2]
      BY <1>8, <1>14 DEF Lists
    <2>2. /\ w[j] = <<w[j][1], w[j][2]>> /\ w[k] = <<w[k][1], w[k][2]>>
          /\ w[j][1] \in 1 .. Len(L) /\ w[k][1] \in 1 .. Len(L) /\ w[j][2] \in 1 .. m
          /\ L[w[j][1]].text = aligned[w[j][2]].text /\ L[w[k][1]].text = aligned[w[j][2]].text
      BY <1>9, <2>1
    <2>3. ~(w[j][1] < w[k][1]) /\ ~(w[k][1] < w[j][1])
      <3> DEFINE a == w[j][1]
                 b == w[k][1]
                 y == w[j][2]
      <3>1. /\ a \in 1 .. Len(L) /\ b \in 1 .. Len(L) /\ y \in 1 .. m
            /\ L[a].text = aligned[y].text /\ L[b].text = aligned[y].text
        BY <2>2
      <3> HIDE DEF a, b, y
      <3>2. ~(y < y)
        BY <1>1, <3>1
      <3>3. (a < b <=> y < y) /\ (b < a <=> y < y)
        BY <1>6, <3>1
      <3>4. ~(a < b) /\ ~(b < a)
        BY <3>2, <3>3
      <3> QED BY <3>4 DEF a, b
    <2>4. w[j][1] = w[k][1]
      BY <1>3, <2>2, <2>3
    <2>5. w[j] = w[k]
      BY <2>1, <2>2, <2>4
    <2> QED BY <1>8, <2>5 DEF Lists
  <1> HIDE DEF f
  <1>15. f \in [1 .. Len(w) -> Telling]
    BY <1>12 DEF f
  <1>16. f \in Bijection(1 .. Len(w), Telling)
    BY <1>13, <1>14, <1>15, Fun_IsBij
  <1> QED BY <1>3, <1>10, <1>11, <1>12, <1>16 DEF L

\* The estimate, whatever phase it is used in.
LEMMA MostTell ==
    ASSUME Inv, Timing, NoRepeats, offset # 0,
           2 * Cardinality({k \in Telling : Accurate(aligned[k])}) > Cardinality(Telling)
    PROVE  Distance(offset, delay) <= 2 /\ offset \in Int
  <1> DEFINE K == Len(Deltas)
             N == 1 .. K
  <1>1. K \in Nat
    BY DeltasTelling
  <1>2. PICK f \in Bijection(N, Telling) : \A k \in N : Deltas[k] = Behind(f[k])
    BY DeltasTelling
  <1>3. delay \in Int
    BY TimesAreWhole DEF Timing
  <1>4. \A k \in N : f[k] \in Telling
    BY <1>2, Fun_BijectionProperties
  <1>5. ASSUME NEW y \in Telling
        PROVE  /\ aligned[y].start \in Int /\ FirstTime(record[aligned[y].line]) \in Int
               /\ Behind(y) \in Int
               /\ Accurate(aligned[y]) => delay - 2 <= Behind(y) /\ Behind(y) <= delay + 2
    <2>1. y \in 1 .. Len(aligned)
      BY DEF Telling
    <2>2. aligned[y].start \in Int /\ aligned[y].line \in 1 .. Len(record) /\ record \in Records
      BY <2>1 DEF Timing, Placed, Inv, InOrder
    <2>3. FirstTime(record[aligned[y].line]) \in Int
      BY <2>2, FirstTimeIs
    <2>4. Accurate(aligned[y]) => Distance(aligned[y].start, FirstTime(record[aligned[y].line]) + delay) <= 2
      BY DEF Accurate, Anchors, Sung
    <2> QED BY <1>3, <2>2, <2>3, <2>4 DEF Behind, Distance
  <1> DEFINE G == {k \in N : Accurate(aligned[f[k]])}
             A == {y \in Telling : Accurate(aligned[y])}
  <1>6. IsFiniteSet(N) /\ Cardinality(N) = K
    <2>1. 1 \in Int /\ K \in Int
      BY <1>1
    <2>2. IsFiniteSet(N) /\ Cardinality(N) = IF 1 > K THEN 0 ELSE K - 1 + 1
      BY <2>1, FS_Interval
    <2> QED BY <1>1, <2>2
  <1>7. Cardinality(Telling) = K
    BY <1>2, <1>6, FS_Bijection, Fun_ExistsBij
  <1>8. Cardinality(G) = Cardinality(A)
    <2> DEFINE g == [k \in G |-> f[k]]
    <2>1. /\ \A j, k \in N : f[j] = f[k] => j = k
          /\ \A y \in Telling : \E k \in N : f[k] = y
      BY <1>2, Fun_BijectionProperties
    <2>2. g \in [G -> A]
      BY <1>4
    <2>3. \A j, k \in G : g[j] = g[k] => j = k
      BY <2>1
    <2>4. \A y \in A : \E k \in G : g[k] = y
      BY <2>1
    <2>5. IsFiniteSet(G)
      <3>1. G \in SUBSET N
        OBVIOUS
      <3> HIDE DEF G, N
      <3> QED BY <1>6, <3>1, FS_Subset
    <2> HIDE DEF g, G, A
    <2>6. g \in Bijection(G, A)
      BY <2>2, <2>3, <2>4, Fun_IsBij
    <2> QED BY <2>5, <2>6, FS_Bijection, Fun_ExistsBij
  <1>9. 2 * Cardinality(G) > K
    BY <1>7, <1>8
  <1>10. \A k \in N : Deltas[k] \in Int
    BY <1>2, <1>4, <1>5
  <1>11. \A k \in G : delay - 2 <= Deltas[k] /\ Deltas[k] <= delay + 2
    BY <1>2, <1>4, <1>5
  <1>12. G \in SUBSET N
    OBVIOUS
  <1> HIDE DEF G, A
  <1>13. delay - 2 \in Int /\ delay + 2 \in Int
    BY <1>3
  <1>14. Median(Deltas) \in Int /\ delay - 2 <= Median(Deltas) /\ Median(Deltas) <= delay + 2
    BY <1>1, <1>9, <1>10, <1>11, <1>12, <1>13, MedianOfMost
  <1>15. offset = Median(Deltas)
    BY DEF Timing, Estimated
  <1> QED BY <1>3, <1>14, <1>15 DEF Distance

(***************************************************************************)
(* The shift is the delay of the audio, to a second, when most of the      *)
(* lines it is measured by are placed to a second: for records of any      *)
(* length without repeats, wherever the aligner puts the others and        *)
(* whichever it drops.                                                     *)
(***************************************************************************)
THEOREM ShiftIsMeasured == Spec => []ShiftIsTheDelay
  <1>1. Inv /\ Timing => ShiftIsTheDelay
    BY MostTell DEF ShiftIsTheDelay
  <1> QED BY <1>1, TimingHolds, PTL

(***************************************************************************)
(* A record that is shipped whole is on time, when the aligner is on time  *)
(* wherever it keeps a line: a shift is right, and without one the gate    *)
(* saw a line land, which it can only within the drift of the merge.       *)
(***************************************************************************)
THEOREM ShippedOnTime == Spec => []CuratedOnTime
  <1>1. ASSUME Inv, Timing, phase = "curated", NoRepeats, aligned # <<>>,
               Len(Curated) >= CoverageLines,
               \A k \in DOMAIN aligned : Accurate(aligned[k])
        PROVE  Distance(offset, delay) <= Drift + 2
    <2>1. /\ Len(aligned) \in Nat /\ DOMAIN aligned = 1 .. Len(aligned)
          /\ delay \in Int /\ Len(Curated) \in Nat /\ Len(Curated) > 0
      BY EmptyAny, TimesAreWhole, ThresholdsAreCounts, DeltasTelling, <1>1 DEF Inv, Timing
    <2>2. CASE offset # 0
      <3>1. {k \in Telling : Accurate(aligned[k])} = Telling
        BY <1>1, <2>1 DEF Telling
      <3>2. PICK f : f \in Bijection(1 .. Len(Deltas), Telling)
        BY <1>1, DeltasTelling
      <3>3. Len(Deltas) \in Nat /\ Len(Deltas) >= 2
        BY <1>1, <2>2, DeltasTelling DEF Timing, Estimated, Reliable
      <3>4. IsFiniteSet(1 .. Len(Deltas)) /\ Cardinality(1 .. Len(Deltas)) = Len(Deltas)
        <4>1. 1 \in Int /\ Len(Deltas) \in Int
          BY <3>3
        <4>2. /\ IsFiniteSet(1 .. Len(Deltas))
              /\ Cardinality(1 .. Len(Deltas)) = IF 1 > Len(Deltas) THEN 0 ELSE Len(Deltas) - 1 + 1
          BY <4>1, FS_Interval
        <4> QED BY <3>3, <4>2
      <3>5. Cardinality(Telling) = Len(Deltas)
        BY <3>2, <3>4, FS_Bijection, Fun_ExistsBij
      <3>6. 2 * Cardinality({k \in Telling : Accurate(aligned[k])}) > Cardinality(Telling)
        <4>1. \A A : A = Telling => 2 * Cardinality(A) > Cardinality(Telling)
          BY <3>3, <3>5
        <4> QED BY <3>1, <4>1
      <3>7. Distance(offset, delay) <= 2 /\ offset \in Int
        BY <1>1, <2>2, <3>6, MostTell
      <3> QED BY <2>1, <3>7 DEF Distance, Drift
    <2>3. CASE offset = 0
      <3>1. PICK pair \in landed : Single(record[pair[1]])
        <4>1. MatchedLines # 0
          <5>1. ~(10 * MatchedLines < 3 * Len(Curated))
            BY <1>1 DEF Timing, Passed, Rejected
          <5>2. 10 * 0 < 3 * Len(Curated)
            BY <2>1
          <5> QED BY <5>1, <5>2
        <4>2. {pair \in landed : Single(record[pair[1]])} # {}
          BY <4>1, FS_EmptySet DEF MatchedLines
        <4> QED BY <4>2
      <3> DEFINE i == pair[1]
                 k == pair[2]
      <3>2. /\ i \in 1 .. Len(record) /\ k \in 1 .. Len(aligned)
            /\ aligned[k].text = record[i].text /\ DriftOk(aligned[k], record[i])
        BY <1>1, <2>3, <3>1 DEF Timing, Landed, Shown
      <3> HIDE DEF i, k
      <3>3. aligned[k].line = i
        <4>1. aligned[k].line \in 1 .. Len(record) /\ aligned[k].text = record[aligned[k].line].text
          BY <1>1, <3>2 DEF Inv, InOrder
        <4> QED BY <1>1, <3>2, <4>1, TextTellsLine DEF Inv
      <3>4. PICK a \in Anchors(aligned[k]), t \in record[i].times : Distance(a, t) <= Drift
        BY <3>2 DEF DriftOk
      <3>5. a \in Int
        BY <1>1, <3>2, <3>4 DEF Timing, Placed, Anchors
      <3>6. FirstTime(record[i]) \in record[i].times /\ FirstTime(record[i]) \in Int /\ t \in Int
        <4>1. record \in Records
          BY <1>1 DEF Inv
        <4> QED BY <3>2, <3>4, <4>1, FirstTimeIs
      <3>7. t = FirstTime(record[i])
        <4>1. IsFiniteSet(record[i].times)
          BY <1>1, <3>2, RecordsAreTimed DEF Inv
        <4>2. \E x : record[i].times = {x}
          BY <3>1, <4>1, FS_Singleton DEF Single, i
        <4> QED BY <3>4, <3>6, <4>2
      <3>8. Distance(a, FirstTime(record[i]) + delay) <= 2
        BY <1>1, <2>1, <3>2, <3>3, <3>4 DEF Accurate, Sung
      <3> QED BY <2>1, <2>3, <3>4, <3>5, <3>6, <3>7, <3>8 DEF Distance, Drift
    <2> QED BY <2>2, <2>3
  <1>2. Inv /\ Timing => CuratedOnTime
    BY <1>1 DEF CuratedOnTime
  <1> QED BY <1>2, TimingHolds, PTL

-----------------------------------------------------------------------------
(* GpuHandler: the lines that the GPU handler recovers                      *)

\* What GpuHandler assumes of its constants.
Assumed == Budgets /\ Hearable /\ \A s \in Songs : Singable(s)

\* The greatest of some numbers that are bounded.
LEMMA GreatestIs ==
    ASSUME NEW b \in Int, NEW S \in SUBSET Int, S # {}, \A x \in S : x <= b
    PROVE  Max(S) \in S /\ \A x \in S : x <= Max(S)
  <1> DEFINE below == {b - x : x \in S}
  <1>1. below \in SUBSET Nat /\ below # {}
    <2>1. \A x \in S : b - x \in Nat
      OBVIOUS
    <2>2. PICK x : x \in S
      OBVIOUS
    <2>3. b - x \in below
      BY <2>2
    <2> QED BY <2>1, <2>3
  <1>2. PICK d \in below : \A e \in below : d <= e
    BY <1>1, LeastNumber
  <1>3. PICK m \in S : d = b - m
    BY <1>2
  <1>4. \A x \in S : m >= x
    <2> SUFFICES ASSUME NEW x \in S PROVE m >= x
      OBVIOUS
    <2>1. b - m <= b - x
      BY <1>2, <1>3
    <2> QED BY <2>1
  <1>5. Max(S) \in S /\ \A x \in S : Max(S) >= x
    BY <1>4 DEF Max
  <1> QED BY <1>5

\* The least of some numbers.
LEMMA LeastIs ==
    ASSUME NEW S \in SUBSET Nat, S # {}
    PROVE  Min(S) \in S /\ \A x \in S : Min(S) <= x
  BY LeastNumber DEF Min

\* The first of some phrases is one of them.
LEMMA FirstIs ==
    ASSUME NEW S, S # {}, \A p \in S : p.start \in Nat
    PROVE  First(S) \in S
  <1> DEFINE starts == {p.start : p \in S}
  <1>1. starts \in SUBSET Nat /\ starts # {}
    OBVIOUS
  <1>2. PICK t \in starts : \A u \in starts : t <= u
    BY <1>1, LeastNumber
  <1>3. \E p \in S : \A q \in S : p.start <= q.start
    BY <1>2
  <1> QED BY <1>3 DEF First

-----------------------------------------------------------------------------
(* What is accepted                                                         *)

\* Rows of the song whose words were heard well, in their order, none into another.
Neat(f) ==
    /\ f = [k \in DOMAIN f |-> f[k]]
    /\ DOMAIN f \subseteq Rows
    /\ \A k \in DOMAIN f :
        /\ Problem(k) /\ f[k].text = song.rows[k].text /\ f[k].heard = "good"
        /\ f[k].start \in Nat /\ f[k].end \in Nat
    /\ \A j, k \in DOMAIN f : j < k => f[j].end <= f[k].start

\* What may be accepted for a row.
Offered(k, candidates) ==
    \A p \in candidates : /\ p.text = song.rows[k].text /\ p.heard = "good"
                          /\ p.start \in Nat /\ p.end \in Nat

\* f has for row k what it had before or one of the candidates, and the rest as before.
Accepted(f, before, k, candidates) ==
    /\ DOMAIN f = DOMAIN before \/ (DOMAIN f = DOMAIN before \cup {k} /\ f[k] \in candidates)
    /\ k \in DOMAIN f => f[k] \in candidates \/ (k \in DOMAIN before /\ f[k] = before[k])
    /\ \A j \in DOMAIN before \ {k} : f[j] = before[j]

\* One row.
LEMMA AcceptNeat ==
    ASSUME NEW before, Neat(before), NEW k \in Rows, Problem(k), Rows \subseteq Nat,
           NEW candidates, Offered(k, candidates)
    PROVE  /\ Neat(Accept(before, k, candidates))
           /\ Accepted(Accept(before, k, candidates), before, k, candidates)
  <1> DEFINE fitting == {p \in candidates : song.rows[k].text \notin Odd /\ ~Clashes(k, p, before)}
             f == Accept(before, k, candidates)
  <1>1. CASE fitting = {}
    <2>1. f = before
      BY <1>1 DEF Accept
    <2> QED BY <2>1 DEF Accepted
  <1>2. CASE fitting # {}
    <2>1. First(fitting) \in fitting
      BY <1>2, FirstIs DEF Offered
    <2>2. PICK p \in candidates : p = First(fitting) /\ ~Clashes(k, p, before)
      BY <2>1
    <2>3. f = [j \in DOMAIN before \cup {k} |-> IF j = k THEN p ELSE before[j]]
      BY <1>2, <2>2 DEF Accept
    <2>4. /\ DOMAIN f = DOMAIN before \cup {k} /\ f[k] = p
          /\ f = [j \in DOMAIN f |-> f[j]]
          /\ \A j \in DOMAIN before \ {k} : f[j] = before[j]
      BY <2>3
    <2> HIDE DEF f, fitting
    <2>5. Accepted(f, before, k, candidates)
      BY <2>4 DEF Accepted
    <2>6. ASSUME NEW i \in DOMAIN f, NEW j \in DOMAIN f, i < j
          PROVE  f[i].end <= f[j].start
      <3>1. \A l \in DOMAIN before : (l < k => before[l].end <= p.start)
                                     /\ (l > k => p.end <= before[l].start)
        <4>1. \A l \in DOMAIN before : ~(l < k /\ before[l].end > p.start)
                                       /\ ~(l > k /\ before[l].start < p.end)
          BY <2>2 DEF Clashes
        <4>2. \A l \in DOMAIN before : before[l].end \in Nat /\ before[l].start \in Nat
          BY DEF Neat
        <4>3. p.start \in Nat /\ p.end \in Nat
          BY DEF Offered
        <4> QED BY <4>1, <4>2, <4>3
      <3>2. i \in Nat /\ j \in Nat /\ k \in Nat
        BY <2>4 DEF Neat
      <3>3. CASE i = k
        BY <2>4, <2>6, <3>1, <3>2, <3>3
      <3>4. CASE j = k
        BY <2>4, <2>6, <3>1, <3>2, <3>4
      <3>5. CASE i # k /\ j # k
        BY <2>4, <2>6, <3>5 DEF Neat
      <3> QED BY <3>3, <3>4, <3>5
    <2>7. Neat(f)
      <3>1. DOMAIN f \subseteq Rows
        BY <2>4 DEF Neat
      <3>2. ASSUME NEW l \in DOMAIN f
            PROVE  /\ Problem(l) /\ f[l].text = song.rows[l].text /\ f[l].heard = "good"
                   /\ f[l].start \in Nat /\ f[l].end \in Nat
        BY <2>4 DEF Neat, Offered
      <3> QED BY <2>4, <2>6, <3>1, <3>2 DEF Neat
    <2> QED BY <2>5, <2>7 DEF f
  <1> QED BY <1>1, <1>2

\* What has been accepted for a row is what was before or one of its candidates.
Gathered(f, rows, candidates, n) ==
    \A k \in DOMAIN f :
        \/ k \in DOMAIN recovered /\ f[k] = recovered[k]
        \/ \E i \in 1 .. n : k = rows[i] /\ f[k] \in candidates[k]

\* How the rows of a crop are accepted.
AcceptAt(upTo, rows, candidates, n) ==
    IF n = 0 THEN recovered
    ELSE Accept(upTo[n - 1], rows[n], candidates[rows[n]])

\* The rows of a crop.
LEMMA AcceptAllNeat ==
    ASSUME Neat(recovered), Rows \subseteq Nat, NEW rows, Len(rows) \in Nat, NEW candidates,
           \A i \in 1 .. Len(rows) : /\ rows[i] \in Rows /\ Problem(rows[i])
                                     /\ Offered(rows[i], candidates[rows[i]])
    PROVE  /\ Neat(AcceptAll(rows, candidates))
           /\ Gathered(AcceptAll(rows, candidates), rows, candidates, Len(rows))
  <1> DEFINE n == Len(rows)
             X == {recovered[k] : k \in DOMAIN recovered}
                  \cup UNION {candidates[rows[i]] : i \in 1 .. n}
             U == UNION {[D -> X] : D \in SUBSET Rows}
             V == {f \in U : Neat(f)}
             A == (1 .. n) \X V
             next(i, f) == Accept(f, rows[i], candidates[rows[i]])
             step == [a \in A |-> next(a[1], a[2])]
  <1>1. n \in Nat
    OBVIOUS
  <1>2. recovered \in V
    <2>1. \A k \in DOMAIN recovered : recovered[k] \in X
      OBVIOUS
    <2> HIDE DEF X
    <2>2. recovered \in [DOMAIN recovered -> X]
      BY <2>1 DEF Neat
    <2>3. recovered \in U
      BY <2>2 DEF Neat
    <2> QED BY <2>3
  <1>3. ASSUME NEW i \in 1 .. n, NEW f \in V
        PROVE  /\ Accepted(next(i, f), f, rows[i], candidates[rows[i]])
               /\ Neat(next(i, f)) /\ next(i, f) \in V
    <2>1. /\ Neat(next(i, f))
          /\ Accepted(next(i, f), f, rows[i], candidates[rows[i]])
      <3>1. Neat(f)
        OBVIOUS
      <3> HIDE DEF V
      <3> QED BY <3>1, AcceptNeat
    <2>2. candidates[rows[i]] \subseteq X
      OBVIOUS
    <2>3. f \in U
      OBVIOUS
    <2> DEFINE g == next(i, f)
    <2>4. g = [k \in DOMAIN g |-> g[k]] /\ DOMAIN g \in SUBSET Rows
      <3> HIDE DEF g
      <3> QED BY <2>1 DEF Neat, g
    <2> HIDE DEF g, X
    <2>5. \A k \in DOMAIN g : g[k] \in X
      BY <2>1, <2>2, <2>3 DEF Accepted, g
    <2>6. g \in [DOMAIN g -> X]
      BY <2>4, <2>5
    <2>7. g \in U
      BY <2>4, <2>6
    <2> QED BY <2>1, <2>7 DEF g
  <1>4. \A i \in 1 .. n : \A f \in V : step[<<i, f>>] = next(i, f)
    <2> HIDE DEF next, V
    <2> QED OBVIOUS
  <1>5. \A f \in V : Neat(f)
    OBVIOUS
  <1> HIDE DEF step, next, V, n
  <1>a. PICK F \in [0 .. n -> V] : IsChain(F, n, recovered, step)
    <2>1. \A i \in 1 .. n : \A f \in V : step[<<i, f>>] \in V
      BY <1>3, <1>4
    <2> QED BY <1>1, <1>2, <2>1, ChainExists
  <1>6. F[0] = recovered /\ \A i \in 1 .. n : F[i] = step[<<i, F[i - 1]>>]
    BY <1>a DEF IsChain
  <1>7. \A i \in 0 .. n : F[i] = AcceptAt(F, rows, candidates, i)
    <2> SUFFICES ASSUME NEW i \in 0 .. n PROVE F[i] = AcceptAt(F, rows, candidates, i)
      OBVIOUS
    <2>1. CASE i = 0
      BY <1>6, <2>1 DEF AcceptAt
    <2>2. CASE i # 0
      <3>1. i \in 1 .. n /\ F[i - 1] \in V
        BY <1>1, <1>a, <2>2
      <3>2. F[i] = next(i, F[i - 1])
        BY <1>4, <1>6, <3>1
      <3> QED BY <2>2, <3>2 DEF AcceptAt, next
    <2> QED BY <2>1, <2>2
  <1>8. F = [i \in 0 .. n |-> AcceptAt(F, rows, candidates, i)]
    BY <1>7
  <1> DEFINE W == CHOOSE upTo : upTo = [i \in 0 .. n |-> AcceptAt(upTo, rows, candidates, i)]
  <1>9. AcceptAll(rows, candidates) = W[n]
    BY DEF AcceptAll, AcceptAt, n
  <1>10. W = [i \in 0 .. n |-> AcceptAt(W, rows, candidates, i)]
    BY <1>8
  <1> HIDE DEF W
  <1>11. \A i \in 0 .. n : W[i] = AcceptAt(W, rows, candidates, i)
    BY <1>10
  <1> DEFINE S == {i \in 0 .. n : W[i] \in V /\ Gathered(W[i], rows, candidates, i)}
  <1>12. 0 \in S
    <2>1. W[0] = recovered
      BY <1>1, <1>11 DEF AcceptAt
    <2> QED BY <1>1, <1>2, <2>1 DEF Gathered
  <1>13. ASSUME NEW i \in 1 .. n, i - 1 \in S PROVE i \in S
    <2>1. W[i - 1] \in V /\ Gathered(W[i - 1], rows, candidates, i - 1)
      BY <1>13
    <2>2. W[i] = next(i, W[i - 1])
      BY <1>1, <1>11 DEF AcceptAt, next
    <2>3. W[i] \in V /\ Accepted(W[i], W[i - 1], rows[i], candidates[rows[i]])
      BY <1>3, <2>1, <2>2
    <2>4. Gathered(W[i], rows, candidates, i)
      <3> SUFFICES ASSUME NEW k \in DOMAIN W[i]
                   PROVE  \/ k \in DOMAIN recovered /\ W[i][k] = recovered[k]
                          \/ \E m \in 1 .. i : k = rows[m] /\ W[i][k] \in candidates[k]
        BY DEF Gathered
      <3>1. CASE k = rows[i] /\ W[i][k] \in candidates[rows[i]]
        BY <1>1, <3>1
      <3>2. CASE k \in DOMAIN W[i - 1] /\ W[i][k] = W[i - 1][k]
        BY <1>1, <2>1, <3>2 DEF Gathered
      <3> QED BY <2>3, <3>1, <3>2 DEF Accepted
    <2> QED BY <2>3, <2>4
  <1> HIDE DEF S
  <1>14. n \in S
    <2>1. \A i \in 0 .. n : i \in S
      BY <1>1, <1>12, <1>13, Induction
    <2> QED BY <1>1, <2>1
  <1> QED BY <1>5, <1>9, <1>14 DEF S, n

\* t has the members of the first n of rows that are in S, in their order.
Taken(t, rows, S, n) ==
    /\ \A c \in 1 .. Len(t) : \E x \in 1 .. n : rows[x] \in S /\ t[c] = rows[x]
    /\ \A x \in 1 .. n : rows[x] \in S => \E c \in 1 .. Len(t) : t[c] = rows[x]
    /\ \A c, e \in 1 .. Len(t) :
         c < e => \E x, y \in 1 .. n : x < y /\ t[c] = rows[x] /\ t[e] = rows[y]

\* How they are taken.
TakeAt(upTo, rows, S, n) ==
    IF n = 0 THEN <<>>
    ELSE IF rows[n] \in S THEN Append(upTo[n - 1], rows[n]) ELSE upTo[n - 1]

\* One more.
LEMMA TakenMore ==
    ASSUME NEW X, NEW t \in Seq(X), NEW n \in Nat, n > 0, NEW rows, rows[n] \in X, NEW S,
           Taken(t, rows, S, n - 1)
    PROVE  Taken(IF rows[n] \in S THEN Append(t, rows[n]) ELSE t, rows, S, n)
  <1>1. CASE rows[n] \notin S
    <2>1. \A x \in 1 .. n : rows[x] \in S => x \in 1 .. n - 1
      BY <1>1
    <2>2. \A x \in 1 .. n - 1 : x \in 1 .. n
      OBVIOUS
    <2>3. \A c \in 1 .. Len(t) : \E x \in 1 .. n : rows[x] \in S /\ t[c] = rows[x]
      BY <2>2 DEF Taken
    <2>4. \A x \in 1 .. n : rows[x] \in S => \E c \in 1 .. Len(t) : t[c] = rows[x]
      BY <2>1 DEF Taken
    <2>5. \A c, e \in 1 .. Len(t) :
            c < e => \E x, y \in 1 .. n : x < y /\ t[c] = rows[x] /\ t[e] = rows[y]
      BY <2>2 DEF Taken
    <2> QED BY <1>1, <2>3, <2>4, <2>5 DEF Taken
  <1>2. CASE rows[n] \in S
    <2> DEFINE u == Append(t, rows[n])
    <2>1. /\ Len(u) = Len(t) + 1 /\ Len(t) \in Nat
          /\ u[Len(t) + 1] = rows[n] /\ \A c \in 1 .. Len(t) : u[c] = t[c]
      OBVIOUS
    <2> HIDE DEF u
    <2>2. \A x \in 1 .. n - 1 : x \in 1 .. n /\ x < n
      OBVIOUS
    <2>3. n \in 1 .. n
      OBVIOUS
    <2>4. ASSUME NEW c \in 1 .. Len(u) PROVE \E x \in 1 .. n : rows[x] \in S /\ u[c] = rows[x]
      <3>1. CASE c = Len(t) + 1
        BY <1>2, <2>1, <2>3, <3>1
      <3>2. CASE c \in 1 .. Len(t)
        BY <2>1, <2>2, <3>2 DEF Taken
      <3> QED BY <2>1, <3>1, <3>2
    <2>5. ASSUME NEW x \in 1 .. n, rows[x] \in S PROVE \E c \in 1 .. Len(u) : u[c] = rows[x]
      <3>1. CASE x = n
        <4>1. Len(t) + 1 \in 1 .. Len(u)
          BY <2>1
        <4> QED BY <2>1, <3>1, <4>1
      <3>2. CASE x # n
        <4>0. x \in 1 .. n - 1
          BY <3>2
        <4>1. PICK c \in 1 .. Len(t) : t[c] = rows[x]
          BY <2>5, <4>0 DEF Taken
        <4>2. c \in 1 .. Len(u) /\ u[c] = rows[x]
          BY <2>1, <4>1
        <4> QED BY <4>2
      <3> QED BY <3>1, <3>2
    <2>6. ASSUME NEW c \in 1 .. Len(u), NEW e \in 1 .. Len(u), c < e
          PROVE  \E x, y \in 1 .. n : x < y /\ u[c] = rows[x] /\ u[e] = rows[y]
      <3>1. c \in 1 .. Len(t) /\ u[c] = t[c]
        BY <2>1, <2>6
      <3>2. CASE e = Len(t) + 1
        <4>1. PICK x \in 1 .. n - 1 : t[c] = rows[x]
          BY <3>1 DEF Taken
        <4> QED BY <2>1, <2>2, <2>3, <3>1, <3>2, <4>1
      <3>3. CASE e \in 1 .. Len(t)
        <4>1. PICK x \in 1 .. n - 1, y \in 1 .. n - 1 : x < y /\ t[c] = rows[x] /\ t[e] = rows[y]
          BY <2>6, <3>1, <3>3 DEF Taken
        <4> QED BY <2>1, <2>2, <3>1, <3>3, <4>1
      <3> QED BY <2>1, <3>2, <3>3
    <2>7. Taken(u, rows, S, n)
      BY <2>4, <2>5, <2>6 DEF Taken
    <2> QED BY <1>2, <2>7 DEF u
  <1> QED BY <1>1, <1>2

\* Those are the members in the set, in their order.
LEMMA ThoseAre ==
    ASSUME NEW rows, Len(rows) \in Nat, NEW S
    PROVE  /\ Those(rows, S) \in Seq({rows[x] : x \in 1 .. Len(rows)})
           /\ Taken(Those(rows, S), rows, S, Len(rows))
  <1> DEFINE n == Len(rows)
             X == {rows[x] : x \in 1 .. n}
             V == Seq(X)
             A == (1 .. n) \X V
             next(i, t) == IF rows[i] \in S THEN Append(t, rows[i]) ELSE t
             step == [a \in A |-> next(a[1], a[2])]
  <1>1. \A i \in 1 .. n : rows[i] \in X
    OBVIOUS
  <1>2. n \in Nat /\ <<>> \in V
    OBVIOUS
  <1> HIDE DEF X, n
  <1>3. \A i \in 1 .. n : \A t \in V : next(i, t) \in V
    BY <1>1
  <1>4. \A i \in 1 .. n : \A t \in V : step[<<i, t>>] = next(i, t)
    <2> HIDE DEF next, V
    <2> QED OBVIOUS
  <1> HIDE DEF step, next, V
  <1>a. PICK F \in [0 .. n -> V] : IsChain(F, n, <<>>, step)
    <2>1. \A i \in 1 .. n : \A t \in V : step[<<i, t>>] \in V
      BY <1>3, <1>4
    <2> QED BY <1>2, <2>1, ChainExists
  <1>5. F[0] = <<>> /\ \A i \in 1 .. n : F[i] = step[<<i, F[i - 1]>>]
    BY <1>a DEF IsChain
  <1>6. \A i \in 0 .. n : F[i] = TakeAt(F, rows, S, i)
    <2> SUFFICES ASSUME NEW i \in 0 .. n PROVE F[i] = TakeAt(F, rows, S, i)
      OBVIOUS
    <2>1. CASE i = 0
      BY <1>5, <2>1 DEF TakeAt
    <2>2. CASE i # 0
      <3>1. i \in 1 .. n /\ F[i - 1] \in V
        BY <1>2, <1>a, <2>2
      <3>2. F[i] = next(i, F[i - 1])
        BY <1>4, <1>5, <3>1
      <3> QED BY <2>2, <3>2 DEF TakeAt, next
    <2> QED BY <2>1, <2>2
  <1>7. F = [i \in 0 .. n |-> TakeAt(F, rows, S, i)]
    BY <1>6
  <1> DEFINE W == CHOOSE upTo : upTo = [i \in 0 .. n |-> TakeAt(upTo, rows, S, i)]
  <1>8. Those(rows, S) = W[n]
    BY DEF Those, TakeAt, n
  <1>9. W = [i \in 0 .. n |-> TakeAt(W, rows, S, i)]
    BY <1>7
  <1> HIDE DEF W
  <1>10. \A i \in 0 .. n : W[i] = TakeAt(W, rows, S, i)
    BY <1>9
  <1> DEFINE D == {i \in 0 .. n : W[i] \in V /\ Taken(W[i], rows, S, i)}
  <1>11. 0 \in D
    <2>1. W[0] = <<>>
      BY <1>2, <1>10 DEF TakeAt
    <2>2. Taken(<<>>, rows, S, 0)
      BY DEF Taken
    <2> QED BY <1>2, <2>1, <2>2
  <1>12. ASSUME NEW i \in 1 .. n, i - 1 \in D PROVE i \in D
    <2>1. W[i - 1] \in V /\ Taken(W[i - 1], rows, S, i - 1) /\ rows[i] \in X
      BY <1>1, <1>12
    <2>2. W[i] = IF rows[i] \in S THEN Append(W[i - 1], rows[i]) ELSE W[i - 1]
      BY <1>2, <1>10 DEF TakeAt
    <2>3. i \in Nat /\ i > 0 /\ W[i - 1] \in Seq(X)
      BY <2>1 DEF V
    <2>4. Taken(W[i], rows, S, i)
      BY <2>1, <2>2, <2>3, TakenMore
    <2>5. W[i] \in V
      BY <1>3, <2>1, <2>2 DEF next
    <2> QED BY <2>4, <2>5
  <1> HIDE DEF D
  <1>13. n \in D
    <2>1. \A i \in 0 .. n : i \in D
      BY <1>2, <1>11, <1>12, Induction
    <2> QED BY <1>2, <2>1
  <1> QED BY <1>8, <1>13 DEF D, V, X, n

-----------------------------------------------------------------------------
(* Crops                                                                    *)

\* A crop that may be decoded, as far as its length goes.
Fits(w) ==
    /\ w.start \in Nat /\ w.end \in Nat /\ w.start < w.end
    /\ w.end - w.start <= MaxCrop
    /\ song.duration # Unknown => w.end <= song.duration

\* Groups of rows that are not in left: they fit, end one after the other, the
\* last starts no later than what is left, and no row is in two.
Grouped(groups, left) ==
    /\ \A m \in 1 .. Len(groups) : Fits(groups[m])
    /\ \A m, n \in 1 .. Len(groups) : m < n => groups[m].end < groups[n].end
    /\ Len(groups) > 0 => \A k \in left : groups[Len(groups)].start <= Window(k).start
    /\ \A m \in 1 .. Len(groups) : \A i \in 1 .. Len(groups[m].rows) : groups[m].rows[i] \notin left
    /\ \A m, n \in 1 .. Len(groups) : m # n =>
         \A i \in 1 .. Len(groups[m].rows), j \in 1 .. Len(groups[n].rows) :
           groups[m].rows[i] # groups[n].rows[j]

\* Rows whose windows fit.
Open(open) ==
    /\ open \subseteq Nat
    /\ \A k \in open : Fits(Window(k)) /\ Window(k).rows = <<k>>

\* The records that groups are.
Crops(open) == [start : Nat, end : Nat, rows : Seq(open)]

\* A window is one.
LEMMA WindowIsCrop ==
    ASSUME NEW open, Open(open), NEW k \in open
    PROVE  Window(k) \in Crops(open)
  <1>1. /\ Window(k).start \in Nat /\ Window(k).end \in Nat
        /\ Window(k).rows = <<k>> /\ <<k>> \in Seq(open)
    BY DEF Open, Fits
  <1>2. Window(k) = [start |-> Window(k).start, end |-> Window(k).end,
                       rows |-> Window(k).rows]
    BY DEF Window
  <1> DEFINE w == Window(k)
  <1> HIDE DEF w
  <1>3. /\ w.start \in Nat /\ w.end \in Nat /\ w.rows \in Seq(open)
        /\ w = [start |-> w.start, end |-> w.end, rows |-> w.rows]
    BY <1>1, <1>2 DEF w
  <1>4. w \in Crops(open)
    BY <1>3 DEF Crops
  <1> QED BY <1>4 DEF w

\* One of the rows that are left is the first.
LEMMA EarliestIs ==
    ASSUME NEW left, left # {}, Open(left)
    PROVE  /\ Earliest(left) \in left
           /\ \A j \in left : Window(Earliest(left)).start <= Window(j).start
  <1> DEFINE S == {Window(k).start : k \in left}
  <1>1. \A k \in left : Window(k).start \in Nat /\ k \in Nat
    BY DEF Open, Fits
  <1>2. PICK s \in S : \A u \in S : s <= u
    <2>1. S \in SUBSET Nat /\ S # {}
      BY <1>1
    <2> HIDE DEF S
    <2> QED BY <2>1, LeastNumber
  <1> DEFINE T == {k \in left : Window(k).start = s}
  <1>3. PICK k \in T : \A j \in T : k <= j
    <2>1. T \in SUBSET Nat /\ T # {}
      BY <1>1, <1>2
    <2> HIDE DEF T
    <2> QED BY <2>1, LeastNumber
  <1>4. \A j \in left : \/ Window(k).start < Window(j).start
                        \/ Window(k).start = Window(j).start /\ k <= j
    <2> SUFFICES ASSUME NEW j \in left
                 PROVE  \/ Window(k).start < Window(j).start
                        \/ Window(k).start = Window(j).start /\ k <= j
      OBVIOUS
    <2>1. Window(k).start = s /\ s <= Window(j).start /\ Window(j).start \in Nat /\ s \in Nat
      BY <1>1, <1>2, <1>3
    <2>2. CASE Window(j).start = s
      BY <1>3, <2>1, <2>2
    <2>3. CASE Window(j).start # s
      BY <2>1, <2>3
    <2> QED BY <2>2, <2>3
  <1>5. k \in left
    BY <1>3
  <1> HIDE DEF T, S
  <1>6. \E l \in left : \A j \in left :
          \/ Window(l).start < Window(j).start
          \/ Window(l).start = Window(j).start /\ l <= j
    BY <1>4, <1>5
  <1> DEFINE e == Earliest(left)
  <1>7. /\ e \in left
        /\ \A j \in left : \/ Window(e).start < Window(j).start
                           \/ Window(e).start = Window(j).start /\ e <= j
    BY <1>6 DEF Earliest
  <1> HIDE DEF e
  <1>8. \A j \in left : Window(e).start <= Window(j).start
    BY <1>1, <1>7
  <1> QED BY <1>7, <1>8 DEF e

\* One more window.
LEMMA MergeKeepsGroups ==
    ASSUME NEW open, Open(open), NEW left \in SUBSET open, NEW groups \in Seq(Crops(open)),
           Grouped(groups, left), NEW k \in left,
           \A j \in left : Window(k).start <= Window(j).start
    PROVE  /\ Merge(groups, Window(k)) \in Seq(Crops(open))
           /\ Grouped(Merge(groups, Window(k)), left \ {k})
  <1> DEFINE w == Window(k)
             n == Len(groups)
             after == Merge(groups, w)
  <1>1. w \in Crops(open) /\ Fits(w) /\ w.rows = <<k>> /\ n \in Nat
    BY WindowIsCrop DEF Open
  <1>2. \A j \in left : w.start <= Window(j).start
    OBVIOUS
  <1>3. \A m \in 1 .. n : groups[m] \in Crops(open) /\ Fits(groups[m])
    BY DEF Grouped
  <1>d. \A m, l \in 1 .. n : m # l =>
          \A i \in 1 .. Len(groups[m].rows), j \in 1 .. Len(groups[l].rows) :
            groups[m].rows[i] # groups[l].rows[j]
    BY DEF Grouped
  <1> HIDE DEF w
  <1>4. CASE n > 0 /\ Joinable(groups[n], w)
    <2> DEFINE g == groups[n]
               h == [start |-> g.start, end |-> Most(g.end, w.end), rows |-> g.rows \o w.rows]
    <2>1. after = [groups EXCEPT ![n] = h]
      BY <1>4 DEF Merge
    <2>2. n \in 1 .. n /\ g \in Crops(open) /\ Fits(g)
      BY <1>1, <1>3, <1>4
    <2>3. h \in Crops(open)
      <3>1. g.rows \o w.rows \in Seq(open)
        BY <1>1, <2>2 DEF Crops
      <3>2. g.start \in Nat /\ Most(g.end, w.end) \in Nat
        BY <1>1, <2>2 DEF Fits, Most
      <3> HIDE DEF g
      <3> QED BY <3>1, <3>2 DEF Crops
    <2>4. Fits(h) /\ g.end <= h.end /\ h.start = g.start
      <3>1. /\ h.start = g.start /\ h.end = Most(g.end, w.end)
            /\ Most(w.end, g.end) - g.start <= MaxCrop
        BY <1>4 DEF Joinable
      <3> HIDE DEF h, g
      <3> QED BY <1>1, <2>2, <3>1 DEF Fits, Most
    <2>5. /\ Len(h.rows) = Len(g.rows) + 1 /\ Len(g.rows) \in Nat
          /\ \A i \in 1 .. Len(g.rows) : h.rows[i] = g.rows[i]
          /\ h.rows[Len(g.rows) + 1] = k
      <3>1. h.rows = g.rows \o <<k>> /\ g.rows \in Seq(open)
        BY <1>1, <2>2 DEF Crops
      <3> HIDE DEF g, h
      <3> QED BY <3>1
    <2> HIDE DEF g, h
    <2>6. /\ after \in Seq(Crops(open)) /\ Len(after) = n /\ after[n] = h
          /\ \A m \in 1 .. n - 1 : after[m] = groups[m]
      BY <2>1, <2>2, <2>3
    <2> HIDE DEF after
    <2>7. \A m \in 1 .. n - 1 : groups[m].end \in Nat /\ groups[m].end < g.end
      <3>1. \A m \in 1 .. n - 1 : m \in 1 .. n /\ m < n
        BY <1>1
      <3> QED BY <1>3, <2>2, <3>1 DEF Grouped, Fits, g
    <2>8. \A m \in 1 .. n : Fits(after[m])
      BY <1>3, <2>4, <2>6
    <2>9. \A m, l \in 1 .. n : m < l => after[m].end < after[l].end
      <3> SUFFICES ASSUME NEW m \in 1 .. n, NEW l \in 1 .. n, m < l
                   PROVE  after[m].end < after[l].end
        OBVIOUS
      <3>1. m \in 1 .. n - 1
        BY <1>1
      <3>2. CASE l = n
        <4>1. groups[m].end < g.end /\ groups[m].end \in Nat /\ g.end \in Nat /\ h.end \in Nat
          BY <2>2, <2>4, <2>7, <3>1 DEF Fits
        <4> QED BY <2>4, <2>6, <3>1, <3>2, <4>1
      <3>3. CASE l # n
        <4>1. l \in 1 .. n - 1
          BY <1>1, <3>3
        <4> QED BY <2>6, <3>1, <4>1 DEF Grouped
      <3> QED BY <3>2, <3>3
    <2>10. \A j \in left \ {k} : after[n].start <= Window(j).start
      BY <1>4, <2>4, <2>6 DEF Grouped, g
    <2>11. \A m \in 1 .. n : \A i \in 1 .. Len(after[m].rows) : after[m].rows[i] \notin left \ {k}
      <3> SUFFICES ASSUME NEW m \in 1 .. n, NEW i \in 1 .. Len(after[m].rows)
                   PROVE  after[m].rows[i] \notin left \ {k}
        OBVIOUS
      <3>1. CASE m = n
        <4>1. i \in 1 .. Len(g.rows) + 1
          BY <2>5, <2>6, <3>1
        <4>2. CASE i = Len(g.rows) + 1
          BY <2>5, <2>6, <3>1, <4>2
        <4>3. CASE i \in 1 .. Len(g.rows)
          BY <2>2, <2>5, <2>6, <3>1, <4>3 DEF Grouped, g
        <4> QED BY <2>5, <4>1, <4>2, <4>3
      <3>2. CASE m # n
        <4>1. m \in 1 .. n - 1
          BY <1>1, <3>2
        <4> QED BY <2>6, <4>1 DEF Grouped
      <3> QED BY <3>1, <3>2
    <2>12. ASSUME NEW m \in 1 .. n - 1,
                  NEW i \in 1 .. Len(groups[m].rows), NEW j \in 1 .. Len(h.rows)
           PROVE  groups[m].rows[i] # h.rows[j]
      <3>1. m \in 1 .. n /\ m # n
        BY <1>1
      <3>2. CASE j = Len(g.rows) + 1
        BY <2>5, <3>1, <3>2 DEF Grouped
      <3>3. CASE j \in 1 .. Len(g.rows)
        <4>1. n \in 1 .. n /\ j \in 1 .. Len(groups[n].rows)
          BY <2>2, <3>3 DEF g
        <4>2. groups[m].rows[i] # groups[n].rows[j]
          BY <3>1, <4>1 DEF Grouped
        <4>3. h.rows[j] = g.rows[j]
          BY <2>5, <3>3
        <4> QED BY <4>2, <4>3 DEF g
      <3> QED BY <2>5, <3>2, <3>3
    <2>13. \A m, l \in 1 .. n : m # l =>
             \A i \in 1 .. Len(after[m].rows), j \in 1 .. Len(after[l].rows) :
               after[m].rows[i] # after[l].rows[j]
      <3> SUFFICES ASSUME NEW m \in 1 .. n, NEW l \in 1 .. n, m # l,
                          NEW i \in 1 .. Len(after[m].rows), NEW j \in 1 .. Len(after[l].rows)
                   PROVE  after[m].rows[i] # after[l].rows[j]
        OBVIOUS
      <3>1. CASE m = n
        <4>1. l \in 1 .. n - 1 /\ after[l] = groups[l] /\ after[m] = h
          BY <1>1, <2>6, <3>1
        <4> QED BY <2>12, <4>1
      <3>2. CASE l = n
        <4>1. m \in 1 .. n - 1 /\ after[m] = groups[m] /\ after[l] = h
          BY <1>1, <2>6, <3>2
        <4> QED BY <2>12, <4>1
      <3>3. CASE m # n /\ l # n
        <4>1. m \in 1 .. n - 1 /\ l \in 1 .. n - 1 /\ m \in 1 .. n /\ l \in 1 .. n
          BY <1>1, <3>3
        <4>2. after[m] = groups[m] /\ after[l] = groups[l]
          BY <2>6, <4>1
        <4> QED BY <1>d, <4>1, <4>2
      <3> QED BY <3>1, <3>2, <3>3
    <2>14. Grouped(after, left \ {k})
      <3> DEFINE last == Len(after)
      <3>1. last = n
        BY <2>6
      <3> HIDE DEF last
      <3>2. /\ \A m \in 1 .. last : Fits(after[m])
            /\ \A m, l \in 1 .. last : m < l => after[m].end < after[l].end
            /\ last > 0 => \A j \in left \ {k} : after[last].start <= Window(j).start
            /\ \A m \in 1 .. last : \A i \in 1 .. Len(after[m].rows) : after[m].rows[i] \notin left \ {k}
            /\ \A m, l \in 1 .. last : m # l =>
                 \A i \in 1 .. Len(after[m].rows), j \in 1 .. Len(after[l].rows) :
                   after[m].rows[i] # after[l].rows[j]
        BY <2>8, <2>9, <2>10, <2>11, <2>13, <3>1
      <3> QED BY <3>2 DEF Grouped, last
    <2> QED BY <2>6, <2>14 DEF after, w
  <1>5. CASE ~(n > 0 /\ Joinable(groups[n], w))
    <2>1. after = Append(groups, w)
      BY <1>5 DEF Merge
    <2>2. /\ after \in Seq(Crops(open)) /\ Len(after) = n + 1 /\ after[n + 1] = w
          /\ \A m \in 1 .. n : after[m] = groups[m]
      BY <1>1, <2>1
    <2> HIDE DEF after
    <2>3. \A m \in 1 .. n : groups[m].end < w.end
      <3> SUFFICES ASSUME NEW m \in 1 .. n PROVE groups[m].end < w.end
        OBVIOUS
      <3> DEFINE g == groups[n]
      <3>1. n > 0 /\ n \in 1 .. n /\ Fits(g) /\ Fits(groups[m])
        BY <1>1, <1>3
      <3>2. g.start <= w.start
        BY <3>1 DEF Grouped, w
      <3>3. ~(w.start <= g.end) \/ ~(Most(w.end, g.end) - g.start <= MaxCrop)
        BY <1>5, <3>1 DEF Joinable
      <3>4. g.end < w.end
        <4> HIDE DEF g
        <4> QED BY <1>1, <3>1, <3>2, <3>3 DEF Fits, Most
      <3>5. m = n \/ groups[m].end < g.end
        BY <3>1 DEF Grouped
      <3> QED BY <1>1, <3>1, <3>4, <3>5 DEF Fits
    <2>4. \A m \in 1 .. n + 1 : Fits(after[m])
      BY <1>1, <1>3, <2>2
    <2>5. \A m, l \in 1 .. n + 1 : m < l => after[m].end < after[l].end
      <3> SUFFICES ASSUME NEW m \in 1 .. n + 1, NEW l \in 1 .. n + 1, m < l
                   PROVE  after[m].end < after[l].end
        OBVIOUS
      <3>1. m \in 1 .. n
        BY <1>1
      <3>2. CASE l = n + 1
        BY <2>2, <2>3, <3>1, <3>2
      <3>3. CASE l \in 1 .. n
        BY <2>2, <3>1, <3>3 DEF Grouped
      <3> QED BY <1>1, <3>2, <3>3
    <2>6. \A j \in left \ {k} : after[n + 1].start <= Window(j).start
      BY <1>2, <2>2
    <2>7. Len(w.rows) = 1 /\ w.rows[1] = k
      BY <1>1
    <2>8. \A m \in 1 .. n + 1 : \A i \in 1 .. Len(after[m].rows) : after[m].rows[i] \notin left \ {k}
      <3> SUFFICES ASSUME NEW m \in 1 .. n + 1, NEW i \in 1 .. Len(after[m].rows)
                   PROVE  after[m].rows[i] \notin left \ {k}
        OBVIOUS
      <3>1. CASE m = n + 1
        <4>0. after[m] = w
          BY <2>2, <3>1
        <4>1. i \in 1 .. Len(w.rows)
          BY <4>0
        <4>2. i = 1
          BY <2>7, <4>1
        <4> QED BY <2>2, <2>7, <3>1, <4>2
      <3>2. CASE m \in 1 .. n
        BY <2>2, <3>2 DEF Grouped
      <3> QED BY <1>1, <3>1, <3>2
    <2>9. ASSUME NEW m \in 1 .. n, NEW i \in 1 .. Len(groups[m].rows), NEW j \in 1 .. Len(w.rows)
          PROVE  groups[m].rows[i] # w.rows[j]
      <3>1. j = 1
        BY <2>7
      <3> QED BY <2>7, <3>1 DEF Grouped
    <2>10. \A m, l \in 1 .. n + 1 : m # l =>
             \A i \in 1 .. Len(after[m].rows), j \in 1 .. Len(after[l].rows) :
               after[m].rows[i] # after[l].rows[j]
      <3> SUFFICES ASSUME NEW m \in 1 .. n + 1, NEW l \in 1 .. n + 1, m # l,
                          NEW i \in 1 .. Len(after[m].rows), NEW j \in 1 .. Len(after[l].rows)
                   PROVE  after[m].rows[i] # after[l].rows[j]
        OBVIOUS
      <3>1. CASE m = n + 1
        <4>1. l \in 1 .. n /\ after[l] = groups[l] /\ after[m] = w
          BY <1>1, <2>2, <3>1
        <4> QED BY <2>9, <4>1
      <3>2. CASE l = n + 1
        <4>1. m \in 1 .. n /\ after[m] = groups[m] /\ after[l] = w
          BY <1>1, <2>2, <3>2
        <4> QED BY <2>9, <4>1
      <3>3. CASE m \in 1 .. n /\ l \in 1 .. n
        <4>1. after[m] = groups[m] /\ after[l] = groups[l]
          BY <2>2, <3>3
        <4> QED BY <1>d, <3>3, <4>1
      <3> QED BY <1>1, <3>1, <3>2, <3>3
    <2>11. Grouped(after, left \ {k})
      BY <2>2, <2>4, <2>5, <2>6, <2>8, <2>10 DEF Grouped
    <2> QED BY <2>2, <2>11 DEF after, w
  <1> QED BY <1>4, <1>5

\* How the windows of the open rows are merged.
GroupAt(upTo, open, n) ==
    IF n = 0 THEN [left |-> open, groups |-> <<>>]
    ELSE [left   |-> upTo[n - 1].left \ {Earliest(upTo[n - 1].left)},
          groups |-> Merge(upTo[n - 1].groups, Window(Earliest(upTo[n - 1].left)))]

\* The groups of some open rows.
LEMMA GroupsAre ==
    ASSUME NEW open, Open(open), IsFiniteSet(open)
    PROVE  Groups(open) \in Seq(Crops(open)) /\ Grouped(Groups(open), {})
  <1> DEFINE n == Cardinality(open)
             V == {v \in [left : SUBSET open, groups : Seq(Crops(open))] :
                     /\ Grouped(v.groups, v.left)
                     /\ IsFiniteSet(v.left)}
             VV == {v \in V : v.left # {}}
             A == (1 .. n) \X V
             k(v) == Earliest(v.left)
             next(v) == [left |-> v.left \ {k(v)}, groups |-> Merge(v.groups, Window(k(v)))]
             step == [a \in A |-> IF a[2].left = {} THEN a[2] ELSE next(a[2])]
             first == [left |-> open, groups |-> <<>>]
  <1>1. n \in Nat
    BY FS_CardinalityType
  <1>2. first \in V
    <2>1. Grouped(<<>>, open)
      BY DEF Grouped
    <2> QED BY <2>1
  <1>3. ASSUME NEW v \in V, v.left # {}
        PROVE  next(v) \in V /\ k(v) \in v.left /\ next(v).left = v.left \ {k(v)}
    <2>1. /\ v.left \in SUBSET open /\ v.groups \in Seq(Crops(open)) /\ Grouped(v.groups, v.left)
          /\ IsFiniteSet(v.left)
      OBVIOUS
    <2> DEFINE l == v.left
               g == v.groups
    <2> HIDE DEF l, g, V
    <2>2. Open(l)
      BY <2>1 DEF Open, l
    <2>3. /\ Earliest(l) \in l
          /\ \A j \in l : Window(Earliest(l)).start <= Window(j).start
      BY <1>3, <2>2, EarliestIs DEF l
    <2> DEFINE e == Earliest(l)
    <2> HIDE DEF e
    <2>4. /\ Merge(g, Window(e)) \in Seq(Crops(open))
          /\ Grouped(Merge(g, Window(e)), l \ {e})
      BY <2>1, <2>3, MergeKeepsGroups DEF l, g, e
    <2>5. IsFiniteSet(l \ {e})
      BY <2>1, FS_RemoveElement DEF l
    <2>6. [left |-> l \ {e}, groups |-> Merge(g, Window(e))] \in V
      BY <2>1, <2>4, <2>5 DEF V, l
    <2> QED BY <2>3, <2>6 DEF l, g, e
  <1>4. \A i \in 1 .. n : \A v \in V : step[<<i, v>>] = IF v.left = {} THEN v ELSE next(v)
    <2> HIDE DEF next, V
    <2> QED OBVIOUS
  <1>5. \A v \in V : v.left \in SUBSET open /\ IsFiniteSet(v.left)
    OBVIOUS
  <1>6. \A v \in V : v.groups \in Seq(Crops(open)) /\ Grouped(v.groups, v.left)
    OBVIOUS
  <1>7. \A v : v.left # {} => next(v).left = v.left \ {k(v)}
    OBVIOUS
  <1>8. first.left = open
    OBVIOUS
  <1> HIDE DEF step, next, V, n, k, first
  <1>a. PICK F \in [0 .. n -> V] : IsChain(F, n, first, step)
    <2>1. \A i \in 1 .. n : \A v \in V : step[<<i, v>>] \in V
      BY <1>3, <1>4
    <2> QED BY <1>1, <1>2, <2>1, ChainExists
  <1>9. F[0] = first /\ \A i \in 1 .. n : F[i] = step[<<i, F[i - 1]>>]
    BY <1>a DEF IsChain
  <1> DEFINE S == {i \in 0 .. n : Cardinality(F[i].left) = n - i}
  <1>10. \A i \in 0 .. n : i \in S
    <2>1. 0 \in S
      BY <1>1, <1>8, <1>9 DEF n
    <2>2. ASSUME NEW i \in 1 .. n, i - 1 \in S PROVE i \in S
      <3>1. F[i - 1] \in V /\ Cardinality(F[i - 1].left) = n - (i - 1)
        BY <1>1, <1>a, <2>2
      <3> DEFINE v == F[i - 1]
      <3>2. v.left # {}
        <4>1. Cardinality(v.left) # 0
          BY <1>1, <3>1
        <4> HIDE DEF v
        <4> QED BY <4>1, FS_EmptySet
      <3>3. F[i].left = v.left \ {k(v)} /\ k(v) \in v.left
        BY <1>3, <1>4, <1>9, <3>1, <3>2
      <3>4. IsFiniteSet(v.left)
        BY <1>5, <3>1
      <3> HIDE DEF v
      <3>5. Cardinality(F[i].left) = Cardinality(v.left) - 1
        BY <3>3, <3>4, FS_RemoveElement
      <3>6. Cardinality(F[i].left) = n - i
        BY <1>1, <3>1, <3>5 DEF v
      <3> QED BY <3>6
    <2> HIDE DEF S
    <2> QED BY <1>1, <2>1, <2>2, Induction
  <1>11. ASSUME NEW i \in 1 .. n PROVE F[i - 1] \in V /\ F[i - 1].left # {} /\ F[i] = next(F[i - 1])
    <2>1. i - 1 \in S /\ i - 1 \in 0 .. n
      BY <1>1, <1>10
    <2>2. F[i - 1] \in V
      BY <1>a, <2>1
    <2>3. Cardinality(F[i - 1].left) = n - (i - 1)
      BY <2>1
    <2>4. F[i - 1].left # {}
      <3>1. Cardinality(F[i - 1].left) # 0
        BY <1>1, <2>3
      <3> QED BY <3>1, FS_EmptySet
    <2> QED BY <1>4, <1>9, <2>2, <2>4
  <1>12. \A i \in 0 .. n : F[i] = GroupAt(F, open, i)
    <2> SUFFICES ASSUME NEW i \in 0 .. n PROVE F[i] = GroupAt(F, open, i)
      OBVIOUS
    <2>1. CASE i = 0
      BY <1>9, <2>1 DEF GroupAt, first
    <2>2. CASE i # 0
      <3>1. i \in 1 .. n
        BY <1>1, <2>2
      <3> QED BY <1>11, <2>2, <3>1 DEF GroupAt, next, k
    <2> QED BY <2>1, <2>2
  <1>13. F = [i \in 0 .. n |-> GroupAt(F, open, i)]
    BY <1>12
  <1> DEFINE c == Cardinality(open)
             W == CHOOSE upTo : upTo = [i \in 0 .. c |-> GroupAt(upTo, open, i)]
  <1>b. c = n
    BY DEF n
  <1>14. Groups(open) = W[c].groups
    BY DEF Groups, GroupAt
  <1> HIDE DEF c
  <1>15. W = [i \in 0 .. n |-> GroupAt(W, open, i)]
    <2>1. F = [i \in 0 .. c |-> GroupAt(F, open, i)]
      BY <1>13, <1>b
    <2>2. W = [i \in 0 .. c |-> GroupAt(W, open, i)]
      BY <2>1
    <2> HIDE DEF W
    <2> QED BY <1>b, <2>2
  <1> HIDE DEF W, S
  <1> DEFINE D == {i \in 0 .. n : W[i] = F[i]}
  <1>16. \A i \in 0 .. n : i \in D
    <2>1. 0 \in D
      BY <1>1, <1>12, <1>15 DEF GroupAt
    <2>2. ASSUME NEW i \in 1 .. n, i - 1 \in D PROVE i \in D
      <3>1. W[i - 1] = F[i - 1] /\ i \in 0 .. n
        BY <1>1, <2>2
      <3>2. W[i] = GroupAt(W, open, i) /\ F[i] = GroupAt(F, open, i)
        BY <1>12, <1>15, <3>1
      <3>3. GroupAt(W, open, i) = GroupAt(F, open, i)
        BY <3>1 DEF GroupAt
      <3> QED BY <3>1, <3>2, <3>3
    <2> HIDE DEF D
    <2> QED BY <1>1, <2>1, <2>2, Induction
  <1>17. n \in 0 .. n /\ W[n] = F[n]
    BY <1>1, <1>16
  <1>18. F[n] \in V
    BY <1>a, <1>17
  <1>19. F[n].left = {}
    <2>1. Cardinality(F[n].left) = 0
      BY <1>1, <1>10, <1>17 DEF S
    <2> QED BY <1>5, <1>18, <2>1, FS_EmptySet
  <1> QED BY <1>6, <1>14, <1>b, <1>17, <1>18, <1>19

\* A plan of crops: those of groups, in another order.
Planned(q) ==
    /\ \A m \in 1 .. Len(q) : Fits(q[m])
    /\ \A m, n \in 1 .. Len(q) : m # n =>
         /\ Span(q[m]) # Span(q[n])
         /\ \A i \in 1 .. Len(q[m].rows), j \in 1 .. Len(q[n].rows) : q[m].rows[i] # q[n].rows[j]

\* Any order of the groups is one.
LEMMA OrdersPlan ==
    ASSUME NEW open, NEW groups \in Seq(Crops(open)), Grouped(groups, {}),
           NEW q \in Orders(groups)
    PROVE  q \in Seq(Crops(open)) /\ Planned(q)
  <1> DEFINE S == ToSet(groups)
             N == Cardinality(S)
  <1>1. S = {groups[m] : m \in 1 .. Len(groups)} /\ Len(groups) \in Nat
    BY DEF ToSet
  <1>2. IsFiniteSet(S) /\ N \in Nat
    <2>1. IsFiniteSet(1 .. Len(groups))
      BY <1>1, FS_Interval
    <2>2. [m \in 1 .. Len(groups) |-> groups[m]] \in Surjection(1 .. Len(groups), S)
      BY <1>1 DEF Surjection
    <2>3. IsFiniteSet(S)
      BY <2>1, <2>2, FS_Surjection
    <2> QED BY <2>3, FS_CardinalityType
  <1>3. q \in [1 .. N -> S] /\ \A m, n \in 1 .. N : m # n => q[m] # q[n]
    <2>1. q \in SetToSeqs(S)
      BY DEF Orders
    <2>2. N = Cardinality(S)
      OBVIOUS
    <2> HIDE DEF N, S
    <2> QED BY <2>1, <2>2 DEF SetToSeqs
  <1>4. S \subseteq Crops(open)
    BY <1>1
  <1> HIDE DEF S, N
  <1>5. q \in Seq(Crops(open)) /\ Len(q) = N
    BY <1>2, <1>3, <1>4
  <1>6. \A m \in 1 .. N : \E a \in 1 .. Len(groups) : q[m] = groups[a]
    BY <1>1, <1>3
  <1>7. ASSUME NEW m \in 1 .. N, NEW n \in 1 .. N, m # n
        PROVE  /\ Span(q[m]) # Span(q[n])
               /\ \A i \in 1 .. Len(q[m].rows), j \in 1 .. Len(q[n].rows) : q[m].rows[i] # q[n].rows[j]
    <2>1. PICK a \in 1 .. Len(groups) : q[m] = groups[a]
      BY <1>6
    <2>2. PICK b \in 1 .. Len(groups) : q[n] = groups[b]
      BY <1>6
    <2>3. a # b
      BY <1>3, <1>7, <2>1, <2>2
    <2>4. groups[a].end # groups[b].end
      <3>1. groups[a].end \in Nat /\ groups[b].end \in Nat
        BY DEF Grouped, Fits
      <3>2. a < b => groups[a].end < groups[b].end
        BY DEF Grouped
      <3>3. b < a => groups[b].end < groups[a].end
        BY DEF Grouped
      <3>4. a < b \/ b < a
        BY <2>3
      <3> QED BY <3>1, <3>2, <3>3, <3>4
    <2>5. Span(groups[a]).end # Span(groups[b]).end
      BY <2>4 DEF Span
    <2>6. \A i \in 1 .. Len(groups[a].rows), j \in 1 .. Len(groups[b].rows) :
            groups[a].rows[i] # groups[b].rows[j]
      BY <2>3 DEF Grouped
    <2> QED BY <2>1, <2>2, <2>5, <2>6
  <1>8. \A m \in 1 .. N : Fits(q[m])
    BY <1>6 DEF Grouped
  <1> QED BY <1>5, <1>7, <1>8 DEF Planned

-----------------------------------------------------------------------------
(* Where a row may be                                                       *)

\* A place in the song: it does not start after the end.
Located(a) ==
    /\ a.start \in Nat /\ a.end \in Nat /\ a.start <= a.end
    /\ song.duration # Unknown => a.start < song.duration

\* The song is one of those assumed, and the anchors are places in it.
SongKnown == song \in Songs

Anchored ==
    /\ anchors = [k \in DOMAIN anchors |-> anchors[k]]
    /\ DOMAIN anchors \subseteq Rows /\ \A k \in DOMAIN anchors : Located(anchors[k])

\* What is assumed of the song.
LEMMA SongIs ==
    ASSUME Assumed, SongKnown
    PROVE  /\ Rows = 1 .. Len(song.rows) /\ Len(song.rows) \in Nat /\ Rows \subseteq Nat
           /\ IsFiniteSet(Rows)
           /\ \A k \in Rows : /\ song.rows[k].start \in Nat /\ song.rows[k].end \in Nat
                                /\ song.rows[k].start <= song.rows[k].end
                                /\ Words[song.rows[k].text] \in Nat
           /\ \A p \in song.phrases : Located(p)
           /\ IsFiniteSet(song.phrases)
           /\ song.duration # Unknown => song.duration \in Nat \ {0}
  <1>1. Singable(song)
    BY DEF Assumed, SongKnown
  <1>2. Len(song.rows) \in Nat /\ Rows = 1 .. Len(song.rows) /\ IsFiniteSet(song.phrases)
    BY <1>1 DEF Singable, Rows
  <1>3. Rows \subseteq Nat
    BY <1>2
  <1>4. IsFiniteSet(Rows)
    BY <1>2, FS_Interval
  <1>5. \A k \in Rows : /\ song.rows[k].start \in Nat /\ song.rows[k].end \in Nat
                          /\ song.rows[k].start <= song.rows[k].end
                          /\ Words[song.rows[k].text] \in Nat
    BY <1>1 DEF Singable, Rows, Timed, Assumed, Hearable
  <1>6. \A p \in song.phrases : Located(p)
    BY <1>1 DEF Singable, Timed, Located
  <1>7. song.duration # Unknown => song.duration \in Nat \ {0}
    BY <1>1 DEF Singable
  <1> QED BY <1>2, <1>3, <1>4, <1>5, <1>6, <1>7

\* The anchors next to a row.
LEMMA NextTo ==
    ASSUME Assumed, SongKnown, Anchored, NEW k \in Rows
    PROVE  /\ Lefts(k) # {} => /\ Max(Lefts(k)) \in Lefts(k)
                                 /\ \A j \in Lefts(k) : j <= Max(Lefts(k))
           /\ Rights(k) # {} => /\ Min(Rights(k)) \in Rights(k)
                                  /\ \A j \in Rights(k) : Min(Rights(k)) <= j
  <1>1. k \in Int /\ Lefts(k) \in SUBSET Int /\ Rights(k) \in SUBSET Nat
        /\ \A j \in Lefts(k) : j <= k
    BY SongIs DEF Anchored, Lefts, Rights
  <1>2. ASSUME Lefts(k) # {}
        PROVE  /\ Max(Lefts(k)) \in Lefts(k)
               /\ \A j \in Lefts(k) : j <= Max(Lefts(k))
    BY <1>1, <1>2, GreatestIs
  <1>3. ASSUME Rights(k) # {}
        PROVE  /\ Min(Rights(k)) \in Rights(k)
               /\ \A j \in Rights(k) : Min(Rights(k)) <= j
    BY <1>1, <1>3, LeastIs
  <1> QED BY <1>2, <1>3

\* The bounds are times.
LEMMA BoundsAre ==
    ASSUME Assumed, SongKnown, Anchored, NEW k \in Rows
    PROVE  /\ Lower(k) \in Nat
           /\ Upper(k) # Unknown => Upper(k) \in Nat
           /\ Rights(k) # {} => Upper(k) \in Nat
           /\ song.duration # Unknown => Upper(k) \in Nat /\ Upper(k) <= song.duration
           /\ Lefts(k) # {} => /\ anchors[Max(Lefts(k))].start \in Nat
                                 /\ anchors[Max(Lefts(k))].start <= Lower(k)
           /\ Rights(k) # {} => /\ anchors[Min(Rights(k))].end \in Nat
                                  /\ Upper(k) <= anchors[Min(Rights(k))].end
  <1>1. CASE Lefts(k) = {}
    <2>1. Lower(k) = 0
      BY <1>1 DEF Lower
    <2>2. CASE Rights(k) = {}
      BY <1>1, <2>1, <2>2, SongIs DEF Upper
    <2>3. CASE Rights(k) # {}
      <3>1. Min(Rights(k)) \in DOMAIN anchors
        BY <2>3, NextTo DEF Rights
      <3>2. Upper(k) = anchors[Min(Rights(k))].start
        BY <2>3 DEF Upper
      <3>3. Located(anchors[Min(Rights(k))])
        BY <3>1 DEF Anchored
      <3> QED BY <1>1, <2>1, <2>3, <3>2, <3>3, SongIs DEF Located
    <2> QED BY <2>2, <2>3
  <1>2. CASE Lefts(k) # {}
    <2>1. Max(Lefts(k)) \in DOMAIN anchors
      BY <1>2, NextTo DEF Lefts
    <2>2. Lower(k) = anchors[Max(Lefts(k))].end
      BY <1>2 DEF Lower
    <2>3. Located(anchors[Max(Lefts(k))])
      BY <2>1 DEF Anchored
    <2>4. CASE Rights(k) = {}
      BY <2>2, <2>3, <2>4, SongIs DEF Upper, Located
    <2>5. CASE Rights(k) # {}
      <3>1. Min(Rights(k)) \in DOMAIN anchors
        BY <2>5, NextTo DEF Rights
      <3>2. Upper(k) = anchors[Min(Rights(k))].start
        BY <2>5 DEF Upper
      <3>3. Located(anchors[Min(Rights(k))])
        BY <3>1 DEF Anchored
      <3> QED BY <2>2, <2>3, <3>2, <3>3, SongIs DEF Located
    <2> QED BY <2>4, <2>5
  <1> QED BY <1>1, <1>2

\* The place where a window looks is one.
LEMMA TargetIs ==
    ASSUME Assumed, SongKnown, NEW k \in Rows
    PROVE  /\ Target(k).start \in Nat /\ Target(k).end \in Nat
           /\ Target(k).start <= Target(k).end
  <1> DEFINE heard == {p \in Matching(k, song.phrases) :
                         /\ Apart(p.start, song.rows[k].start) <= Near
                         /\ Lower(k) <= p.start /\ p.start < p.end /\ p.end <= Upper(k)}
  <1>1. \A p \in heard : p \in song.phrases
    BY DEF Matching
  <1>2. CASE heard = {}
    <2>1. Target(k) = song.rows[k]
      BY <1>2 DEF Target
    <2> QED BY <2>1, SongIs
  <1>3. CASE heard # {}
    <2>1. Target(k) = First(heard)
      BY <1>3 DEF Target
    <2>2. \A p \in heard : p.start \in Nat
      BY <1>1, SongIs DEF Located
    <2> HIDE DEF heard
    <2>3. Target(k) \in heard
      BY <1>3, <2>1, <2>2, FirstIs
    <2>4. Located(Target(k))
      BY <1>1, <2>3, SongIs
    <2> QED BY <2>4 DEF Located
  <1> QED BY <1>2, <1>3

\* A window that is neither dropped nor too long fits.
LEMMA WindowSound ==
    ASSUME Assumed, SongKnown, Anchored, NEW k \in Rows, ~NoWindow(k), ~Beside(k),
           Window(k).end - Window(k).start <= MaxCrop
    PROVE  Fits(Window(k)) /\ Window(k).rows = <<k>>
  <1> DEFINE t     == Target(k)
             lo    == Lower(k)
             up    == Upper(k)
             span  == LineSpan(k)
             from  == Most(t.start, lo)
             to    == Least(up, Most(from + 1, Least(t.end, from + span)))
             left  == IF Lefts(k) # {} /\ from - lo <= Near
                        THEN Most(0, anchors[Max(Lefts(k))].start - 1) ELSE from
             right == IF Rights(k) # {} /\ up - to <= Near
                        THEN anchors[Min(Rights(k))].end + 1 ELSE to
             start == Least(Most(0, from - Near), left)
             end   == Most(to + Near, right)
             pad   == Most(0, 12 - (end - start)) \div 2
             last  == end + pad
             w     == Window(k)
  <1>1. w = [start |-> Most(0, start - pad),
             end   |-> IF song.duration = Unknown THEN last ELSE Least(last, song.duration),
             rows  |-> <<k>>]
    BY DEF Window
  <1>2. /\ t.start \in Nat /\ t.end \in Nat /\ t.start <= t.end
        /\ lo \in Nat
        /\ song.duration # Unknown => /\ song.duration \in Nat \ {0}
                                      /\ up \in Nat /\ up <= song.duration
        /\ Lefts(k) # {} => /\ anchors[Max(Lefts(k))].start \in Nat
                              /\ anchors[Max(Lefts(k))].start <= lo
        /\ Rights(k) # {} => /\ anchors[Min(Rights(k))].end \in Nat
                               /\ up <= anchors[Min(Rights(k))].end
    BY TargetIs, BoundsAre, SongIs
  <1>3. up \in Nat
    BY <1>2, BoundsAre DEF NoWindow
  <1>4. lo < up /\ t.start < up
    <2>1. ~(up <= lo) /\ ~(t.start >= up)
      BY DEF Beside
    <2> QED BY <1>2, <1>3, <2>1
  <1>5. span \in Nat
    <2>1. Words[song.rows[k].text] \in Nat
      BY SongIs
    <2> QED BY <2>1 DEF LineSpan, Least, Most
  <1>6. w.start = Most(0, start - pad) /\ w.rows = <<k>>
        /\ w.end = IF song.duration = Unknown THEN last ELSE Least(last, song.duration)
    <2> HIDE DEF w, start, pad, last
    <2> QED BY <1>1
  <1> HIDE DEF t, lo, up, span, w
  <1>7. /\ from \in Nat /\ from < up
        /\ to \in Nat /\ from < to /\ to <= up
    BY <1>2, <1>3, <1>4, <1>5 DEF Most, Least
  <1> HIDE DEF from, to
  <1>8. left \in Nat /\ right \in Nat /\ left <= from /\ to <= right
    <2>1. from >= lo
      BY <1>2, <1>3, <1>4 DEF from, Most
    <2>2. left \in Nat /\ left <= from
      <3>1. CASE Lefts(k) # {} /\ from - lo <= Near
        BY <1>2, <1>7, <2>1, <3>1 DEF Most
      <3>2. CASE ~(Lefts(k) # {} /\ from - lo <= Near)
        BY <1>7, <3>2
      <3> QED BY <3>1, <3>2
    <2>3. right \in Nat /\ to <= right
      <3>1. CASE Rights(k) # {} /\ up - to <= Near
        BY <1>2, <1>3, <1>7, <3>1
      <3>2. CASE ~(Rights(k) # {} /\ up - to <= Near)
        BY <1>7, <3>2
      <3> QED BY <3>1, <3>2
    <2> QED BY <2>2, <2>3
  <1> HIDE DEF left, right
  <1>9. start \in Nat /\ end \in Nat /\ start <= from /\ to < end
    BY <1>7, <1>8 DEF Most, Least, Near
  <1> HIDE DEF start, end
  <1>10. pad \in Nat
    BY <1>9 DEF Most
  <1> HIDE DEF pad
  <1>11. w.start \in Nat /\ w.start <= from /\ last \in Nat /\ to < last
    BY <1>6, <1>7, <1>9, <1>10 DEF Most
  <1> HIDE DEF last
  <1>12. CASE song.duration = Unknown
    <2>1. w.end = last
      BY <1>6, <1>12
    <2>2. w.end \in Nat /\ w.start < w.end
      BY <1>7, <1>11, <2>1
    <2> QED BY <1>6, <1>11, <1>12, <2>2 DEF Fits, w
  <1>13. CASE song.duration # Unknown
    <2>1. w.end = Least(last, song.duration)
      BY <1>6, <1>13
    <2>2. w.end \in Nat /\ w.start < w.end /\ w.end <= song.duration
      BY <1>2, <1>3, <1>7, <1>11, <1>13, <2>1 DEF Least
    <2> QED BY <1>6, <1>11, <2>2 DEF Fits, w
  <1> QED BY <1>12, <1>13

\* Another context is a place that does not pass the song's end.
LEMMA AlternateIs ==
    ASSUME Assumed, SongKnown, NEW group, group.start \in Int, group.end \in Int
    PROVE  /\ Alternate(group).start \in Int /\ Alternate(group).end \in Int
           /\ song.duration # Unknown => Alternate(group).end <= song.duration
  <1> DEFINE safe  == {p \in song.phrases : p.heard # "unsafe"}
             left  == {p.start : p \in {q \in safe : q.start < group.start /\ group.start - 6 <= q.end}}
             right == {p.end : p \in {q \in safe : q.end > group.end /\ q.start <= group.end + 6}}
             last  == IF right = {} THEN group.end ELSE Min(right) + 1
             a     == Alternate(group)
  <1>1. /\ a.start = IF left = {} THEN group.start ELSE Most(0, Max(left) - 1)
        /\ a.end = IF song.duration = Unknown THEN last ELSE Least(last, song.duration)
    BY DEF Alternate
  <1>2. \A p \in song.phrases : p.start \in Nat /\ p.end \in Nat
    BY SongIs DEF Located
  <1>3. left \in SUBSET Int /\ \A x \in left : x <= group.start
    BY <1>2
  <1>4. right \in SUBSET Nat
    BY <1>2
  <1> HIDE DEF left, right, a
  <1>5. a.start \in Int
    <2>1. CASE left = {}
      BY <1>1, <2>1
    <2>2. CASE left # {}
      <3>1. Max(left) \in Int
        BY <1>3, <2>2, GreatestIs
      <3> QED BY <1>1, <2>2, <3>1 DEF Most
    <2> QED BY <2>1, <2>2
  <1>6. last \in Int
    <2>1. CASE right = {}
      BY <2>1
    <2>2. CASE right # {}
      <3>1. Min(right) \in Nat
        BY <1>4, <2>2, LeastIs
      <3> QED BY <2>2, <3>1
    <2> QED BY <2>1, <2>2
  <1> HIDE DEF last
  <1>7. song.duration # Unknown => song.duration \in Nat
    BY SongIs
  <1>8. a.end \in Int /\ (song.duration # Unknown => a.end <= song.duration)
    BY <1>1, <1>6, <1>7 DEF Least
  <1> QED BY <1>5, <1>8 DEF a

\* Where a row may be, from some anchors.
LowerIn(a, k) == LET L == {j \in DOMAIN a : j < k} IN IF L = {} THEN 0 ELSE a[Max(L)].end
UpperIn(a, k) ==
    LET R == {j \in DOMAIN a : j > k} IN IF R = {} THEN song.duration ELSE a[Min(R)].start

\* Those of the handler, before and after a step that keeps the song.
LEMMA BoundsIn ==
    ASSUME song' = song
    PROVE  \A k : /\ Lower(k) = LowerIn(anchors, k) /\ Upper(k) = UpperIn(anchors, k)
                  /\ Lower(k)' = LowerIn(anchors', k) /\ Upper(k)' = UpperIn(anchors', k)
  <1>1. \A k : Lower(k) = LowerIn(anchors, k) /\ Upper(k) = UpperIn(anchors, k)
    BY DEF Lower, Upper, Lefts, Rights, LowerIn, UpperIn
  <1>2. \A k : Lower(k)' = LowerIn(anchors', k)
    BY DEF Lower, Lefts, LowerIn
  <1>3. \A k : Upper(k)' = UpperIn(anchors', k)
    BY DEF Upper, Rights, UpperIn
  <1> QED BY <1>1, <1>2, <1>3

\* A new anchor moves no bound of a row above it past where it starts, and none of its own.
LEMMA AnchorGrows ==
    ASSUME Assumed, SongKnown, Anchored, NEW r \in Rows, r \notin DOMAIN anchors, NEW p,
           NEW after, DOMAIN after = DOMAIN anchors \cup {r},
           \A j \in DOMAIN anchors : after[j] = anchors[j],
           after[r] = [start |-> p.start, end |-> p.end]
    PROVE  /\ LowerIn(after, r) = LowerIn(anchors, r) /\ UpperIn(after, r) = UpperIn(anchors, r)
           /\ \A k \in Rows : k < r =>
                /\ LowerIn(after, k) = LowerIn(anchors, k)
                /\ \/ UpperIn(after, k) = UpperIn(anchors, k)
                   \/ /\ UpperIn(after, k) = p.start
                      /\ \A j \in DOMAIN anchors : ~(k < j /\ j < r)
  <1>0. r \in Nat /\ DOMAIN anchors \subseteq Nat /\ Rows \subseteq Nat
    BY SongIs DEF Anchored
  <1>1. ASSUME NEW k \in Rows, k <= r
        PROVE  LowerIn(after, k) = LowerIn(anchors, k)
    <2> DEFINE L == {j \in DOMAIN anchors : j < k}
               M == {j \in DOMAIN after : j < k}
    <2>1. M = L
      BY <1>0, <1>1
    <2>2. L = Lefts(k)
      BY DEF Lefts
    <2>3. CASE L = {}
      BY <2>1, <2>3 DEF LowerIn
    <2>4. CASE L # {}
      <3>1. Max(L) \in L
        BY <2>2, <2>4, NextTo
      <3>2. after[Max(L)] = anchors[Max(L)]
        BY <3>1
      <3> HIDE DEF L, M
      <3>3. LowerIn(after, k) = after[Max(L)].end
        BY <2>1, <2>4 DEF LowerIn, L, M
      <3>4. LowerIn(anchors, k) = anchors[Max(L)].end
        BY <2>4 DEF LowerIn, L
      <3> QED BY <3>2, <3>3, <3>4
    <2> QED BY <2>3, <2>4
  <1>2. UpperIn(after, r) = UpperIn(anchors, r)
    <2> DEFINE R == {j \in DOMAIN anchors : j > r}
               M == {j \in DOMAIN after : j > r}
    <2>1. M = R
      BY <1>0
    <2>2. R = Rights(r)
      BY DEF Rights
    <2>3. CASE R = {}
      BY <2>1, <2>3 DEF UpperIn
    <2>4. CASE R # {}
      <3>1. Min(R) \in R
        BY <2>2, <2>4, NextTo
      <3>2. after[Min(R)] = anchors[Min(R)]
        BY <3>1
      <3> HIDE DEF R, M
      <3>3. UpperIn(after, r) = after[Min(R)].start
        BY <2>1, <2>4 DEF UpperIn, R, M
      <3>4. UpperIn(anchors, r) = anchors[Min(R)].start
        BY <2>4 DEF UpperIn, R
      <3> QED BY <3>2, <3>3, <3>4
    <2> QED BY <2>3, <2>4
  <1>3. ASSUME NEW k \in Rows, k < r
        PROVE  \/ UpperIn(after, k) = UpperIn(anchors, k)
               \/ /\ UpperIn(after, k) = p.start
                  /\ \A j \in DOMAIN anchors : ~(k < j /\ j < r)
    <2> DEFINE R == {j \in DOMAIN anchors : j > k}
               M == {j \in DOMAIN after : j > k}
    <2>1. M = R \cup {r} /\ M \in SUBSET Nat /\ M # {} /\ R \in SUBSET Nat /\ k \in Nat
      BY <1>0, <1>3
    <2>2. UpperIn(after, k) = after[Min(M)].start
      BY <2>1 DEF UpperIn
    <2>3. \A j \in DOMAIN anchors : j > k => j \in R
      OBVIOUS
    <2>4. R # {} => UpperIn(anchors, k) = anchors[Min(R)].start
      BY DEF UpperIn
    <2>5. \A j \in R : after[j] = anchors[j]
      OBVIOUS
    <2> HIDE DEF R, M
    <2>6. Min(M) \in M /\ \A j \in M : Min(M) <= j
      BY <2>1, LeastIs
    <2>7. CASE Min(M) = r
      <3>1. UpperIn(after, k) = p.start
        BY <2>2, <2>7
      <3>2. \A j \in DOMAIN anchors : ~(k < j /\ j < r)
        <4> SUFFICES ASSUME NEW j \in DOMAIN anchors, k < j, j < r PROVE FALSE
          OBVIOUS
        <4>1. j \in M /\ j \in Nat
          BY <1>0, <2>1, <2>3
        <4> QED BY <1>0, <2>6, <2>7, <4>1
      <3> QED BY <3>1, <3>2
    <2>8. CASE Min(M) # r
      <3>1. Min(M) \in R
        BY <2>1, <2>6, <2>8
      <3>2. Min(R) \in R /\ \A j \in R : Min(R) <= j
        BY <2>1, <3>1, LeastIs
      <3>3. Min(M) = Min(R)
        <4>1. Min(M) <= Min(R) /\ Min(R) <= Min(M)
          BY <2>1, <2>6, <3>1, <3>2
        <4>2. Min(M) \in Nat /\ Min(R) \in Nat
          BY <2>1, <3>1, <3>2
        <4> QED BY <4>1, <4>2
      <3> QED BY <2>2, <2>4, <2>5, <3>1, <3>3
    <2> QED BY <2>7, <2>8
  <1>4. LowerIn(after, r) = LowerIn(anchors, r)
    BY <1>0, <1>1
  <1>5. ASSUME NEW k \in Rows, k < r
        PROVE  /\ LowerIn(after, k) = LowerIn(anchors, k)
               /\ \/ UpperIn(after, k) = UpperIn(anchors, k)
                  \/ /\ UpperIn(after, k) = p.start
                     /\ \A j \in DOMAIN anchors : ~(k < j /\ j < r)
    BY <1>0, <1>1, <1>3, <1>5
  <1> QED BY <1>2, <1>4, <1>5

-----------------------------------------------------------------------------
(* The lyrics of the run                                                    *)

\* Rendered lyrics are rows that were kept or are new, in their order.
LEMMA RenderedAre ==
    ASSUME Assumed, SongKnown, NEW new, DOMAIN new \subseteq Rows, NEW l,
           l = Rendered(Kept, new)
    PROVE  /\ \A m, n \in DOMAIN l : m < n => l[m].row < l[n].row
           /\ Kept \subseteq {l[m].row : m \in DOMAIN l}
           /\ \A m \in DOMAIN l : l[m].row \in Kept \cup DOMAIN new
           /\ \A m \in DOMAIN l : l[m].new = (l[m].row \in DOMAIN new)
  <1> DEFINE N == Len(song.rows)
             rows == [k \in Rows |-> k]
             S == Kept \cup DOMAIN new
             in == Those(rows, S)
  <1>1. N \in Nat /\ Rows = 1 .. N
    BY SongIs
  <1>2. rows \in Seq(Nat) /\ Len(rows) = N
    BY <1>1
  <1>3. \A x \in 1 .. N : rows[x] = x
    BY <1>1
  <1>4. Kept \subseteq Rows
    BY DEF Kept
  <1>5. l = [m \in DOMAIN in |-> [row |-> in[m], new |-> in[m] \in DOMAIN new]]
    BY DEF Rendered
  <1> HIDE DEF rows
  <1>6. Taken(in, rows, S, N) /\ DOMAIN in = 1 .. Len(in) /\ Len(in) \in Nat
    <2>1. in \in Seq({rows[x] : x \in 1 .. Len(rows)}) /\ Taken(in, rows, S, Len(rows))
      BY <1>1, <1>2, ThoseAre
    <2> HIDE DEF in
    <2> QED BY <1>2, <2>1
  <1> HIDE DEF in, S, N
  <1>7. DOMAIN l = 1 .. Len(in)
        /\ \A m \in 1 .. Len(in) : l[m].row = in[m] /\ l[m].new = (in[m] \in DOMAIN new)
    BY <1>5, <1>6
  <1>8. ASSUME NEW m \in DOMAIN l, NEW n \in DOMAIN l, m < n PROVE l[m].row < l[n].row
    <2>1. m \in 1 .. Len(in) /\ n \in 1 .. Len(in)
      BY <1>7
    <2>2. \E x, y \in 1 .. N : x < y /\ in[m] = rows[x] /\ in[n] = rows[y]
      BY <1>6, <1>8, <2>1 DEF Taken
    <2>3. PICK x \in 1 .. N, y \in 1 .. N : x < y /\ in[m] = rows[x] /\ in[n] = rows[y]
      BY <2>2
    <2>4. l[m].row = x /\ l[n].row = y
      BY <1>3, <1>7, <2>1, <2>3
    <2> QED BY <2>3, <2>4
  <1>9. ASSUME NEW k \in Kept PROVE k \in {l[m].row : m \in DOMAIN l}
    <2>1. k \in 1 .. N /\ rows[k] \in S /\ rows[k] = k
      BY <1>1, <1>3, <1>4 DEF S
    <2>2. PICK c \in 1 .. Len(in) : in[c] = rows[k]
      BY <1>6, <2>1 DEF Taken
    <2> QED BY <1>7, <2>1, <2>2
  <1>10. ASSUME NEW m \in DOMAIN l PROVE l[m].row \in Kept \cup DOMAIN new
    BY <1>6, <1>7 DEF Taken, S
  <1> QED BY <1>7, <1>8, <1>9, <1>10

-----------------------------------------------------------------------------
(* The queue of crops                                                       *)

Entries == [start : Int, end : Int, rows : Seq(Rows), phase : {"primary", "alternate"}]

\* A crop may be decoded: it is no longer than the model's window, does not pass the
\* song's end, is planned, and its rows have bounds.
Bounded(e, plans, D) ==
    /\ e.end - e.start <= MaxCrop
    /\ song.duration # Unknown => e.end <= song.duration
    /\ Span(e) \in plans
    /\ \A i \in 1 .. Len(e.rows) : e.rows[i] \in D

Disjoint(e, f) == \A i \in 1 .. Len(e.rows), j \in 1 .. Len(f.rows) : e.rows[i] # f.rows[j]

\* The crops that wait: each once, each row in one, first contexts before second ones.
Queued(q, plans, D) ==
    /\ q \in Seq(Entries)
    /\ \A m \in 1 .. Len(q) : Bounded(q[m], plans, D)
    /\ \A m, n \in 1 .. Len(q) : m # n => Span(q[m]) # Span(q[n]) /\ Disjoint(q[m], q[n])
    /\ \A m, n \in 1 .. Len(q) : m < n /\ q[m].phase = "alternate" => q[n].phase = "alternate"

\* What each row was decoded in, and those of the crops that wait.
Rounds(q, d) ==
    /\ DOMAIN d = Rows
    /\ \A k \in Rows : d[k] \in {<<>>, <<"primary">>, <<"primary", "alternate">>}
    /\ \A m \in 1 .. Len(q) : \A i \in 1 .. Len(q[m].rows) :
         d[q[m].rows[i]] = IF q[m].phase = "primary" THEN <<>> ELSE <<"primary">>
    /\ (\E k \in Rows : d[k] = <<"primary", "alternate">>) =>
         \A m \in 1 .. Len(q) : q[m].phase = "alternate"

\* The sequence without its head.
LEMMA TailIs ==
    ASSUME NEW X, NEW q \in Seq(X), q # <<>>
    PROVE  /\ Len(q) \in Nat /\ Len(q) >= 1 /\ Tail(q) \in Seq(X) /\ Len(Tail(q)) = Len(q) - 1
           /\ Head(q) = q[1] /\ Head(q) \in X
           /\ \A m \in 1 .. Len(Tail(q)) : Tail(q)[m] = q[m + 1] /\ m + 1 \in 1 .. Len(q)
  OBVIOUS

\* The next crop leaves the queue.
LEMMA QueueTail ==
    ASSUME NEW q, NEW plans, NEW D, Queued(q, plans, D), q # <<>>
    PROVE  Queued(Tail(q), plans, D)
  <1> DEFINE t == Tail(q)
  <1>1. /\ Len(q) \in Nat /\ t \in Seq(Entries) /\ Len(t) = Len(q) - 1
        /\ \A m \in 1 .. Len(t) : t[m] = q[m + 1] /\ m + 1 \in 1 .. Len(q)
    BY TailIs DEF Queued
  <1> HIDE DEF t
  <1>2. \A m \in 1 .. Len(t) : Bounded(t[m], plans, D)
    BY <1>1 DEF Queued
  <1>3. ASSUME NEW m \in 1 .. Len(t), NEW n \in 1 .. Len(t), m # n
        PROVE  Span(t[m]) # Span(t[n]) /\ Disjoint(t[m], t[n])
    <2>1. m + 1 # n + 1 /\ m + 1 \in 1 .. Len(q) /\ n + 1 \in 1 .. Len(q)
          /\ t[m] = q[m + 1] /\ t[n] = q[n + 1]
      BY <1>1, <1>3
    <2>2. \A i, j \in 1 .. Len(q) : i # j => Span(q[i]) # Span(q[j]) /\ Disjoint(q[i], q[j])
      BY DEF Queued
    <2> QED BY <2>1, <2>2
  <1>4. ASSUME NEW m \in 1 .. Len(t), NEW n \in 1 .. Len(t), m < n, t[m].phase = "alternate"
        PROVE  t[n].phase = "alternate"
    <2>1. m + 1 < n + 1 /\ m + 1 \in 1 .. Len(q) /\ n + 1 \in 1 .. Len(q)
      BY <1>1, <1>4
    <2>2. q[m + 1].phase = "alternate" /\ t[n] = q[n + 1]
      BY <1>1, <1>4
    <2>3. \A i, j \in 1 .. Len(q) : i < j /\ q[i].phase = "alternate" => q[j].phase = "alternate"
      BY DEF Queued
    <2> QED BY <2>1, <2>2, <2>3
  <1> QED BY <1>1, <1>2, <1>3, <1>4 DEF Queued, t

\* A second context joins it.
LEMMA QueueMore ==
    ASSUME NEW q, NEW plans, NEW D, Queued(q, plans, D), NEW e \in Entries,
           e.phase = "alternate", Span(e) \notin plans, Bounded(e, plans \cup {Span(e)}, D),
           \A m \in 1 .. Len(q) : Disjoint(q[m], e)
    PROVE  Queued(q \o <<e>>, plans \cup {Span(e)}, D)
  <1> DEFINE t == q \o <<e>>
             n == Len(q)
  <1>1. /\ n \in Nat /\ t \in Seq(Entries) /\ Len(t) = n + 1 /\ t[n + 1] = e
        /\ \A m \in 1 .. n : t[m] = q[m]
    BY DEF Queued
  <1> HIDE DEF t, n
  <1>2. \A m \in 1 .. n : Bounded(q[m], plans, D)
    BY DEF Queued, n
  <1>3. \A m \in 1 .. n + 1 : Bounded(t[m], plans \cup {Span(e)}, D)
    <2>1. \A m \in 1 .. n : Bounded(t[m], plans \cup {Span(e)}, D)
      BY <1>1, <1>2 DEF Bounded
    <2> SUFFICES ASSUME NEW m \in 1 .. n + 1 PROVE Bounded(t[m], plans \cup {Span(e)}, D)
      OBVIOUS
    <2>2. CASE m = n + 1
      BY <1>1, <2>2
    <2>3. CASE m \in 1 .. n
      BY <2>1, <2>3
    <2> QED BY <1>1, <2>2, <2>3
  <1>4. \A m \in 1 .. n : Span(t[m]) # Span(e) /\ Disjoint(t[m], e) /\ Disjoint(e, t[m])
    <2>1. \A m \in 1 .. n : Span(t[m]) # Span(e)
      BY <1>1, <1>2 DEF Bounded
    <2> QED BY <1>1, <2>1 DEF Disjoint, n
  <1>5. \A m, l \in 1 .. n : m # l => Span(q[m]) # Span(q[l]) /\ Disjoint(q[m], q[l])
    BY DEF Queued, n
  <1>6. \A m, l \in 1 .. n : m < l /\ q[m].phase = "alternate" => q[l].phase = "alternate"
    BY DEF Queued, n
  <1>7. ASSUME NEW m \in 1 .. n + 1, NEW l \in 1 .. n + 1, m # l
        PROVE  Span(t[m]) # Span(t[l]) /\ Disjoint(t[m], t[l])
    <2>1. CASE m = n + 1
      <3>1. l \in 1 .. n
        BY <1>1, <1>7, <2>1
      <3> QED BY <1>1, <1>4, <2>1, <3>1
    <2>2. CASE l = n + 1
      <3>1. m \in 1 .. n
        BY <1>1, <1>7, <2>2
      <3> QED BY <1>1, <1>4, <2>2, <3>1
    <2>3. CASE m \in 1 .. n /\ l \in 1 .. n
      BY <1>1, <1>5, <1>7, <2>3
    <2> QED BY <1>1, <2>1, <2>2, <2>3
  <1>8. ASSUME NEW m \in 1 .. n + 1, NEW l \in 1 .. n + 1, m < l, t[m].phase = "alternate"
        PROVE  t[l].phase = "alternate"
    <2>1. CASE l = n + 1
      BY <1>1, <2>1
    <2>2. CASE l \in 1 .. n
      <3>1. m \in 1 .. n
        BY <1>1, <1>8, <2>2
      <3> QED BY <1>1, <1>6, <1>8, <2>2, <3>1
    <2> QED BY <1>1, <2>1, <2>2
  <1> QED BY <1>1, <1>3, <1>7, <1>8 DEF Queued, t

\* A crop leaves the queue unheard.
LEMMA RoundsTail ==
    ASSUME NEW q, NEW plans, NEW D, Queued(q, plans, D), q # <<>>, NEW d, Rounds(q, d)
    PROVE  Rounds(Tail(q), d)
  <1> DEFINE t == Tail(q)
  <1>1. /\ Len(q) \in Nat /\ Len(t) = Len(q) - 1
        /\ \A m \in 1 .. Len(t) : t[m] = q[m + 1] /\ m + 1 \in 1 .. Len(q)
    BY TailIs DEF Queued
  <1> HIDE DEF t
  <1> QED BY <1>1 DEF Rounds, t

\* Tuples of two lengths differ.
LEMMA TupleLength == \A a, b, c : <<a>> # <<b, c>> /\ <<>> # <<a>> /\ <<>> # <<b, c>>
  OBVIOUS

\* Short tuples, one longer.
LEMMA TupleLonger == \A a, b : <<a>> = Append(<<>>, a) /\ <<a, b>> = Append(<<a>>, b)
  <1>1. ASSUME NEW a, NEW b PROVE <<a, b>> = Append(<<a>>, b)
    OBVIOUS
  <1>2. ASSUME NEW a PROVE <<a>> = Append(<<>>, a)
    OBVIOUS
  <1> QED BY <1>1, <1>2

\* A crop is decoded.
LEMMA RoundsDecode ==
    ASSUME NEW q, NEW plans, NEW D, D \subseteq Rows, Queued(q, plans, D), q # <<>>,
           NEW d, Rounds(q, d), NEW e,
           e = [k \in Rows |-> IF k \in ToSet(Head(q).rows)
                                   THEN Append(d[k], Head(q).phase) ELSE d[k]]
    PROVE  /\ Rounds(Tail(q), e)
           /\ Head(q).phase = "primary" => \A i \in 1 .. Len(Head(q).rows) : e[Head(q).rows[i]] = <<"primary">>
  <1> DEFINE t == Tail(q)
             h == Head(q)
             T == ToSet(h.rows)
  <1>1. /\ Len(q) \in Nat /\ Len(q) >= 1 /\ Len(t) = Len(q) - 1 /\ h = q[1] /\ h \in Entries
        /\ \A m \in 1 .. Len(t) : t[m] = q[m + 1] /\ m + 1 \in 1 .. Len(q)
    BY TailIs DEF Queued
  <1>2. T = {h.rows[i] : i \in 1 .. Len(h.rows)}
    <2>1. h.rows \in Seq(Rows)
      BY <1>1 DEF Entries
    <2> HIDE DEF h
    <2> QED BY <2>1 DEF ToSet
  <1>3. h.phase \in {"primary", "alternate"} /\ 1 \in 1 .. Len(q)
    BY <1>1 DEF Entries
  <1>4. \A k \in Rows : e[k] = IF k \in T THEN Append(d[k], h.phase) ELSE d[k]
    OBVIOUS
  <1>5. DOMAIN e = Rows
    OBVIOUS
  <1> HIDE DEF t, h, T
  <1>6. \A k \in T : d[k] = IF h.phase = "primary" THEN <<>> ELSE <<"primary">>
    BY <1>1, <1>2, <1>3 DEF Rounds
  <1>7. T \subseteq Rows
    BY <1>1, <1>2, <1>3 DEF Queued, Bounded
  <1>8. \A k \in T : e[k] = IF h.phase = "primary" THEN <<"primary">> ELSE <<"primary", "alternate">>
    <2> SUFFICES ASSUME NEW k \in T
                 PROVE  e[k] = IF h.phase = "primary" THEN <<"primary">> ELSE <<"primary", "alternate">>
      OBVIOUS
    <2>1. e[k] = Append(d[k], h.phase)
      BY <1>4, <1>7
    <2>2. CASE h.phase = "primary"
      <3>1. d[k] = <<>>
        BY <1>6, <2>2
      <3>2. e[k] = Append(<<>>, "primary")
        BY <2>1, <2>2, <3>1
      <3> QED BY <2>2, <3>2, TupleLonger
    <2>3. CASE h.phase = "alternate"
      <3>1. d[k] = <<"primary">>
        BY <1>6, <2>3
      <3>2. e[k] = Append(<<"primary">>, "alternate")
        BY <2>1, <2>3, <3>1
      <3> QED BY <2>3, <3>2, TupleLonger
    <2> QED BY <1>3, <2>2, <2>3
  <1>9. \A k \in Rows : e[k] \in {<<>>, <<"primary">>, <<"primary", "alternate">>}
    BY <1>3, <1>4, <1>8 DEF Rounds
  <1>10. ASSUME NEW m \in 1 .. Len(t), NEW i \in 1 .. Len(t[m].rows)
         PROVE  e[t[m].rows[i]] = IF t[m].phase = "primary" THEN <<>> ELSE <<"primary">>
    <2>1. m + 1 \in 1 .. Len(q) /\ t[m] = q[m + 1] /\ m + 1 # 1
      BY <1>1
    <2>2. t[m].rows[i] \notin T
      BY <1>1, <1>2, <1>3, <2>1 DEF Queued, Disjoint
    <2>3. t[m].rows[i] \in Rows
      BY <2>1 DEF Queued, Bounded
    <2> QED BY <1>4, <2>1, <2>2, <2>3 DEF Rounds
  <1>11. ASSUME NEW k \in Rows, e[k] = <<"primary", "alternate">>, NEW m \in 1 .. Len(t)
         PROVE  t[m].phase = "alternate"
    <2>1. m + 1 \in 1 .. Len(q) /\ t[m] = q[m + 1] /\ 1 < m + 1
      BY <1>1
    <2>2. CASE h.phase = "alternate"
      BY <1>1, <1>3, <2>1, <2>2 DEF Queued
    <2>3. CASE h.phase = "primary"
      <3>1. <<"primary">> # <<"primary", "alternate">>
        BY TupleLength
      <3>2. k \notin T
        BY <1>8, <1>11, <2>3, <3>1
      <3>3. d[k] = <<"primary", "alternate">>
        BY <1>4, <1>11, <3>2
      <3> QED BY <2>1, <3>3 DEF Rounds
    <2> QED BY <1>3, <2>2, <2>3
  <1>12. Rounds(t, e)
    BY <1>5, <1>9, <1>10, <1>11 DEF Rounds
  <1>13. h.phase = "primary" => \A i \in 1 .. Len(h.rows) : e[h.rows[i]] = <<"primary">>
    BY <1>2, <1>8
  <1> QED BY <1>12, <1>13 DEF t, h

\* A second context joins the queue for rows that had their first one.
LEMMA RoundsMore ==
    ASSUME NEW q \in Seq(Entries), NEW d, Rounds(q, d), NEW e \in Entries, e.phase = "alternate",
           \A i \in 1 .. Len(e.rows) : d[e.rows[i]] = <<"primary">>
    PROVE  Rounds(q \o <<e>>, d)
  <1> DEFINE t == q \o <<e>>
             n == Len(q)
  <1>1. /\ n \in Nat /\ Len(t) = n + 1 /\ t[n + 1] = e
        /\ \A m \in 1 .. n : t[m] = q[m]
    OBVIOUS
  <1> HIDE DEF t, n
  <1>2. ASSUME NEW m \in 1 .. n + 1, NEW i \in 1 .. Len(t[m].rows)
        PROVE  d[t[m].rows[i]] = IF t[m].phase = "primary" THEN <<>> ELSE <<"primary">>
    <2>1. CASE m = n + 1
      BY <1>1, <2>1
    <2>2. CASE m \in 1 .. n
      BY <1>1, <2>2 DEF Rounds, n
    <2> QED BY <1>1, <2>1, <2>2
  <1>3. ASSUME NEW k \in Rows, d[k] = <<"primary", "alternate">>, NEW m \in 1 .. n + 1
        PROVE  t[m].phase = "alternate"
    <2>1. CASE m = n + 1
      BY <1>1, <2>1
    <2>2. CASE m \in 1 .. n
      BY <1>1, <1>3, <2>2 DEF Rounds, n
    <2> QED BY <1>1, <2>1, <2>2
  <1> QED BY <1>1, <1>2, <1>3 DEF Rounds, t

-----------------------------------------------------------------------------
(* The invariant                                                            *)

\* What was recovered lies between the anchors next to it.
Between ==
    \A k \in DOMAIN recovered :
        recovered[k].start >= Lower(k) /\ recovered[k].end <= Upper(k)

Early == {"separate", "transcribe", "align", "budget"}

\* No crop has been planned.
Untouched == queue = <<>> /\ bounds = <<>> /\ decoded = [k \in Rows |-> <<>>]

\* The pass over the full transcription: what it recovered is above the row it is at and
\* is an anchor, and no other doubtful row is.
FullSoFar ==
    /\ row \in Nat \ {0}
    /\ \A k \in DOMAIN recovered :
         k < row /\ k \in DOMAIN anchors /\ anchors[k].end = recovered[k].end
    /\ \A k \in DOMAIN anchors : Problem(k) => k \in DOMAIN recovered

\* The bounds of a row are those its anchors give, and it needs help.
BoundsKept ==
    /\ DOMAIN bounds \subseteq Rows
    /\ \A k \in DOMAIN bounds : /\ Problem(k)
                                /\ bounds[k].lower = Lower(k) /\ bounds[k].upper = Upper(k)

Spent == attempts \in Nat /\ attempts <= MaxCrops /\ audio \in Int /\ audio <= MaxAudio

Baseline == Rendered(Kept, <<>>)

\* What the aligner made, or that with what was recovered if nothing failed.
Sound(l) ==
    /\ l \in {Baseline, Rendered(Kept, recovered)}
    /\ error # "none" => l = Baseline

\* Nothing touches the aligner's lyrics before the end of the retries.
LyricsSoFar ==
    /\ pc \in Early => recovered = <<>> /\ row = 0
    /\ pc \in {"budget", "full", "crops"} => lrc = Baseline
    /\ pc \notin {"return", "done"} => error = "none"
    /\ pc = "return" => Sound(lrc)
    /\ pc = "done" /\ row # 0 => Sound(aligned_lrc)

\* The handler's inductive invariant.
HandlerInv ==
    /\ SongKnown /\ Anchored
    /\ Neat(recovered) /\ Between
    /\ pc \in Early \cup {"full"} => Untouched
    /\ pc = "full" => FullSoFar
    /\ LyricsSoFar
    /\ BoundsKept
    /\ Spent
    /\ Queued(queue, planned, DOMAIN bounds)
    /\ Rounds(queue, decoded)

\* What a step that keeps the song says of the next state.
LEMMA SongStays ==
    ASSUME song' = song
    PROVE  /\ SongKnown' <=> SongKnown
           /\ Rows' = Rows /\ Kept' = Kept
           /\ \A k : Problem(k)' <=> Problem(k)
           /\ Neat(recovered)' <=> Neat(recovered')
           /\ Queued(queue, planned, DOMAIN bounds)' <=> Queued(queue', planned', DOMAIN bounds')
           /\ Rounds(queue, decoded)' <=> Rounds(queue', decoded')
           /\ Baseline' = Baseline
           /\ Rendered(Kept, recovered)' = Rendered(Kept, recovered')
  <1>1. (SongKnown' <=> SongKnown) /\ Rows' = Rows /\ Kept' = Kept
    BY DEF SongKnown, Rows, Kept
  <1>2. \A k : Problem(k)' <=> Problem(k)
    BY DEF Problem
  <1>3. Neat(recovered)' <=> Neat(recovered')
    BY <1>1, <1>2 DEF Neat
  <1>4. Entries' = Entries
    BY <1>1 DEF Entries
  <1>5. Queued(queue, planned, DOMAIN bounds)' <=> Queued(queue', planned', DOMAIN bounds')
    BY <1>4 DEF Queued, Bounded
  <1>6. Rounds(queue, decoded)' <=> Rounds(queue', decoded')
    BY <1>1 DEF Rounds
  <1>7. Baseline' = Baseline
    BY <1>1 DEF Baseline, Rendered
  <1>8. Rendered(Kept, recovered)' = Rendered(Kept, recovered')
    BY <1>1 DEF Rendered
  <1> QED BY <1>1, <1>2, <1>3, <1>5, <1>6, <1>7, <1>8

\* And one that keeps the anchors, too.
LEMMA AnchorsStay ==
    ASSUME song' = song, anchors' = anchors
    PROVE  /\ Anchored' <=> Anchored
           /\ \A k : Lower(k)' = Lower(k) /\ Upper(k)' = Upper(k)
  <1>1. Anchored' <=> Anchored
    BY SongStays DEF Anchored, Located
  <1>2. \A k : Lower(k)' = Lower(k) /\ Upper(k)' = Upper(k)
    BY BoundsIn
  <1> QED BY <1>1, <1>2

\* And one that keeps what was recovered, and the bounds.
LEMMA WorkStays ==
    ASSUME song' = song, anchors' = anchors, recovered' = recovered, bounds' = bounds
    PROVE  /\ Neat(recovered)' <=> Neat(recovered)
           /\ Between' <=> Between
           /\ BoundsKept' <=> BoundsKept
           /\ Rendered(Kept, recovered)' = Rendered(Kept, recovered)
  <1>1. Neat(recovered)' <=> Neat(recovered)
    BY SongStays
  <1>2. Between' <=> Between
    BY AnchorsStay DEF Between
  <1>3. BoundsKept' <=> BoundsKept
    BY SongStays, AnchorsStay DEF BoundsKept
  <1>4. Rendered(Kept, recovered)' = Rendered(Kept, recovered)
    BY SongStays
  <1> QED BY <1>1, <1>2, <1>3, <1>4

\* And one that keeps the queue.
LEMMA QueueStays ==
    ASSUME song' = song, bounds' = bounds, queue' = queue, planned' = planned, decoded' = decoded
    PROVE  /\ Queued(queue, planned, DOMAIN bounds)' <=> Queued(queue, planned, DOMAIN bounds)
           /\ Rounds(queue, decoded)' <=> Rounds(queue, decoded)
           /\ Untouched' <=> Untouched
  BY SongStays DEF Untouched

-----------------------------------------------------------------------------
(* The steps                                                                *)

\* Before the first step.
LEMMA HandlerStarts == ASSUME Assumed, HandlerInit PROVE HandlerInv
  <1>1. /\ pc = "separate" /\ song \in Songs /\ anchors = <<>> /\ recovered = <<>> /\ bounds = <<>>
        /\ queue = <<>> /\ planned = {} /\ attempts = 0 /\ audio = 0 /\ row = 0 /\ error = "none"
        /\ decoded = [k \in Rows |-> <<>>]
    BY DEF HandlerInit, Rows
  <1>2. DOMAIN <<>> = {}
    OBVIOUS
  <1>3. SongKnown /\ Anchored
    <2>1. anchors = [k \in {} |-> anchors[k]]
      BY <1>1
    <2> QED BY <1>1, <1>2, <2>1 DEF SongKnown, Anchored
  <1>4. Neat(recovered) /\ Between /\ BoundsKept
    <2>1. recovered = [k \in {} |-> recovered[k]]
      BY <1>1
    <2> QED BY <1>1, <1>2, <2>1 DEF Neat, Between, BoundsKept
  <1>5. Untouched /\ LyricsSoFar
    BY <1>1 DEF Untouched, LyricsSoFar, Early
  <1>6. Spent
    BY <1>1 DEF Spent, Assumed, Budgets
  <1>7. Queued(queue, planned, DOMAIN bounds)
    BY <1>1 DEF Queued
  <1>8. Rounds(queue, decoded)
    <2>1. DOMAIN decoded = Rows /\ \A k \in Rows : decoded[k] = <<>>
      BY <1>1
    <2>2. ~\E k \in Rows : decoded[k] = <<"primary", "alternate">>
      BY <2>1, TupleLength
    <2> QED BY <1>1, <2>1, <2>2 DEF Rounds
  <1>9. pc = "separate"
    BY <1>1
  <1> QED BY <1>3, <1>4, <1>5, <1>6, <1>7, <1>8, <1>9 DEF HandlerInv

\* A step that changes only where the handler is, and the lyrics.
LEMMA OnlyLyrics ==
    ASSUME Assumed, HandlerInv,
           song' = song, anchors' = anchors, recovered' = recovered, bounds' = bounds,
           queue' = queue, planned' = planned, decoded' = decoded,
           attempts' = attempts, audio' = audio,
           pc' # "full", pc' \in Early => pc \in Early, LyricsSoFar'
    PROVE  HandlerInv'
  <1>1. (SongKnown /\ Anchored /\ Neat(recovered) /\ Between /\ BoundsKept)'
    BY SongStays, AnchorsStay, WorkStays DEF HandlerInv
  <1>2. (Queued(queue, planned, DOMAIN bounds) /\ Rounds(queue, decoded))'
    BY QueueStays DEF HandlerInv
  <1>3. Spent'
    BY DEF HandlerInv, Spent
  <1>4. pc' \in Early \cup {"full"} => Untouched'
    BY QueueStays DEF HandlerInv
  <1> QED BY <1>1, <1>2, <1>3, <1>4 DEF HandlerInv

\* The stages before the alignment.
LEMMA StagesKeep ==
    ASSUME Assumed, HandlerInv, Separate \/ Transcribe
    PROVE  HandlerInv'
  <1>1. /\ song' = song /\ anchors' = anchors /\ recovered' = recovered /\ bounds' = bounds
        /\ queue' = queue /\ planned' = planned /\ decoded' = decoded
        /\ attempts' = attempts /\ audio' = audio /\ row' = row /\ error' = error
    BY DEF Separate, Transcribe, plan, work, lyrics
  <1>2. /\ pc \in {"separate", "transcribe"}
        /\ pc' \in {"transcribe", "align", "done", "raised"}
    BY DEF Separate, Transcribe, Raises
  <1>3. recovered = <<>> /\ row = 0 /\ error = "none"
    BY <1>2 DEF HandlerInv, LyricsSoFar, Early
  <1>4. LyricsSoFar'
    BY <1>1, <1>2, <1>3 DEF LyricsSoFar, Early
  <1>5. pc' # "full" /\ pc \in Early
    BY <1>2 DEF Early
  <1> QED BY <1>1, <1>4, <1>5, OnlyLyrics

\* The end of the retries, whether they fail or not, leaves sound lyrics.
LEMMA RetriesEndKeeps ==
    ASSUME Assumed, HandlerInv, Finish \/ RetriesFail
    PROVE  HandlerInv'
  <1>1. /\ song' = song /\ anchors' = anchors /\ recovered' = recovered /\ bounds' = bounds
        /\ queue' = queue /\ planned' = planned /\ decoded' = decoded
        /\ attempts' = attempts /\ audio' = audio
        /\ pc \in {"full", "crops"} /\ pc' = "return"
    BY DEF Finish, RetriesFail, plan, work
  <1>2. /\ Baseline' = Baseline /\ Rendered(Kept, recovered)' = Rendered(Kept, recovered)
        /\ lrc = Baseline /\ error = "none"
    BY <1>1, SongStays, WorkStays DEF HandlerInv, LyricsSoFar
  <1>3. CASE Finish
    <2>1. lrc' \in {Baseline, Rendered(Kept, recovered)} /\ error' = "none"
      BY <1>2, <1>3 DEF Finish
    <2>2. Sound(lrc)'
      BY <1>2, <2>1 DEF Sound
    <2> QED BY <1>1, <2>2, OnlyLyrics DEF LyricsSoFar, Early
  <1>4. CASE RetriesFail
    <2>1. lrc' = Baseline
      BY <1>2, <1>4 DEF RetriesFail
    <2>2. Sound(lrc)'
      BY <1>2, <2>1 DEF Sound
    <2> QED BY <1>1, <2>2, OnlyLyrics DEF LyricsSoFar, Early
  <1> QED BY <1>3, <1>4

\* The lyrics are put into the result.
LEMMA ReturnKeeps ==
    ASSUME Assumed, HandlerInv, Return
    PROVE  HandlerInv'
  <1>1. /\ song' = song /\ anchors' = anchors /\ recovered' = recovered /\ bounds' = bounds
        /\ queue' = queue /\ planned' = planned /\ decoded' = decoded
        /\ attempts' = attempts /\ audio' = audio /\ error' = error
        /\ pc = "return" /\ pc' = "done" /\ aligned_lrc' = lrc
    BY DEF Return, plan, work
  <1>2. Sound(lrc)
    BY <1>1 DEF HandlerInv, LyricsSoFar
  <1>3. Baseline' = Baseline /\ Rendered(Kept, recovered)' = Rendered(Kept, recovered)
    BY <1>1, SongStays, WorkStays
  <1>4. Sound(aligned_lrc)'
    BY <1>1, <1>2, <1>3 DEF Sound
  <1> QED BY <1>1, <1>4, OnlyLyrics DEF LyricsSoFar, Early

\* The rows whose place is certain are anchors.
LEMMA CorroboratedAre ==
    ASSUME Assumed, SongKnown, NEW a, a = CorroboratedAnchors
    PROVE  /\ a = [k \in DOMAIN a |-> a[k]] /\ DOMAIN a \subseteq Rows
           /\ \A k \in DOMAIN a : Located(a[k]) /\ ~Problem(k)
  <1>0. a = [k \in DOMAIN a |-> a[k]]
    BY DEF CorroboratedAnchors
  <1>1. DOMAIN a = {j \in Rows : ~Problem(j) /\ Corroborating(j) # {}}
    BY DEF CorroboratedAnchors
  <1>2. ASSUME NEW k \in DOMAIN a PROVE Located(a[k])
    <2>1. a[k] = [start |-> First(Corroborating(k)).start, end |-> First(Corroborating(k)).end]
      BY <1>1 DEF CorroboratedAnchors
    <2>2. Corroborating(k) # {} /\ \A p \in Corroborating(k) : p \in song.phrases
      BY <1>1 DEF Corroborating, Matching
    <2>3. \A p \in Corroborating(k) : Located(p)
      BY <2>2, SongIs
    <2>4. First(Corroborating(k)) \in Corroborating(k)
      BY <2>2, <2>3, FirstIs DEF Located
    <2>5. Located(First(Corroborating(k)))
      BY <2>3, <2>4
    <2> QED BY <2>1, <2>5 DEF Located
  <1> QED BY <1>0, <1>1, <1>2

\* The lyrics are aligned, or not.
LEMMA AlignKeeps ==
    ASSUME Assumed, HandlerInv, Align
    PROVE  HandlerInv'
  <1>1. /\ song' = song /\ anchors' = anchors /\ recovered' = recovered /\ bounds' = bounds
        /\ queue' = queue /\ planned' = planned /\ decoded' = decoded
        /\ attempts' = attempts /\ audio' = audio /\ row' = row /\ pc = "align"
    BY DEF Align, plan, work
  <1>2. recovered = <<>> /\ row = 0 /\ error = "none"
    BY <1>1 DEF HandlerInv, LyricsSoFar, Early
  <1>3. Baseline' = Baseline
    BY <1>1, SongStays
  <1>4. CASE pc' = "done"
    BY <1>1, <1>2, <1>4, OnlyLyrics DEF LyricsSoFar, Early
  <1>5. CASE lrc' = Baseline /\ error' = error /\ pc' \in {"return", "budget"}
    <2>1. Sound(lrc)'
      BY <1>2, <1>3, <1>5 DEF Sound
    <2>2. LyricsSoFar'
      BY <1>1, <1>2, <1>3, <1>5, <2>1 DEF LyricsSoFar
    <2>3. pc' # "full" /\ pc \in Early
      BY <1>1, <1>5 DEF Early
    <2> QED BY <1>1, <2>2, <2>3, OnlyLyrics
  <1> QED BY <1>4, <1>5 DEF Align, Baseline

\* The retries get what time there is, or the alignment ends.
LEMMA BudgetKeeps ==
    ASSUME Assumed, HandlerInv, Budget
    PROVE  HandlerInv'
  <1>1. /\ song' = song /\ recovered' = recovered /\ bounds' = bounds
        /\ queue' = queue /\ planned' = planned /\ decoded' = decoded
        /\ attempts' = attempts /\ audio' = audio /\ pc = "budget" /\ lrc' = lrc
    BY DEF Budget
  <1>2. recovered = <<>> /\ row = 0 /\ error = "none" /\ lrc = Baseline /\ Untouched
    BY <1>1 DEF HandlerInv, LyricsSoFar, Early
  <1>3. CASE pc' = "done" /\ UNCHANGED <<row, anchors>>
    BY <1>1, <1>2, <1>3, OnlyLyrics DEF LyricsSoFar, Early
  <1>4. CASE pc' = "full" /\ row' = 1 /\ anchors' = CorroboratedAnchors /\ error' = error
    <2>1. SongKnown /\ SongKnown' /\ Rows' = Rows
      BY <1>1, SongStays DEF HandlerInv
    <2>2. /\ anchors' = [k \in DOMAIN anchors' |-> anchors'[k]] /\ DOMAIN anchors' \subseteq Rows
          /\ \A k \in DOMAIN anchors' : Located(anchors'[k]) /\ ~Problem(k)
      <3> DEFINE a == CorroboratedAnchors
      <3>1. a = [k \in DOMAIN a |-> a[k]] /\ DOMAIN a \subseteq Rows /\ \A k \in DOMAIN a : Located(a[k]) /\ ~Problem(k)
        BY <2>1, CorroboratedAre
      <3> HIDE DEF a
      <3> QED BY <1>4, <3>1 DEF a
    <2>3. Anchored'
      BY <1>1, <2>1, <2>2 DEF Anchored, Located
    <2>4. DOMAIN recovered' = {} /\ DOMAIN bounds' = {}
      BY <1>1, <1>2 DEF Untouched
    <2>5. Neat(recovered)'
      BY <1>1, SongStays DEF HandlerInv
    <2>6. Between' /\ BoundsKept'
      BY <2>4 DEF Between, BoundsKept
    <2>7. Untouched'
      BY <1>1, <1>2, QueueStays
    <2>8. FullSoFar'
      <3>1. \A k \in DOMAIN anchors' : ~Problem(k)'
        BY <1>1, <2>2, SongStays
      <3> QED BY <1>4, <2>4, <3>1 DEF FullSoFar
    <2>9. LyricsSoFar'
      <3>1. Baseline' = Baseline
        BY <1>1, SongStays
      <3>2. pc' \notin Early /\ pc' \notin {"return", "done"}
        BY <1>4 DEF Early
      <3> QED BY <1>1, <1>2, <1>4, <3>1, <3>2 DEF LyricsSoFar
    <2>10. Spent'
      BY <1>1 DEF HandlerInv, Spent
    <2>11. (Queued(queue, planned, DOMAIN bounds) /\ Rounds(queue, decoded))'
      BY <1>1, QueueStays DEF HandlerInv
    <2> QED BY <2>1, <2>3, <2>5, <2>6, <2>7, <2>8, <2>9, <2>10, <2>11 DEF HandlerInv
  <1> QED BY <1>3, <1>4 DEF Budget

\* What one row of the pass over the full transcription accepts.
NearBy ==
    {p \in Matching(row, song.phrases) :
        /\ Apart(p.start, song.rows[row].start) <= Near
        /\ Plausible(p, Lower(row), Upper(row))}

\* One row of the pass.
LEMMA FullPassKeeps ==
    ASSUME Assumed, HandlerInv, FullPass
    PROVE  HandlerInv'
  <1> DEFINE taken == IF Problem(row) /\ Upper(row) # Unknown
                        THEN Accept(recovered, row, NearBy) ELSE recovered
  <1>1. /\ pc = "full" /\ pc' = "full" /\ row \in Rows /\ row' = row + 1
        /\ song' = song /\ bounds' = bounds /\ queue' = queue /\ planned' = planned
        /\ decoded' = decoded /\ attempts' = attempts /\ audio' = audio
        /\ lrc' = lrc /\ error' = error
    BY DEF FullPass, lyrics
  <1>2. /\ recovered' = taken
        /\ anchors' = [k \in DOMAIN anchors \cup (DOMAIN taken \ DOMAIN recovered) |->
                         IF k \in DOMAIN anchors THEN anchors[k]
                         ELSE [start |-> taken[k].start, end |-> taken[k].end]]
    BY DEF FullPass, NearBy
  <1>3. /\ SongKnown /\ Anchored /\ Neat(recovered) /\ Between /\ Untouched /\ FullSoFar
        /\ lrc = Baseline /\ error = "none" /\ Spent
        /\ Queued(queue, planned, DOMAIN bounds) /\ Rounds(queue, decoded)
    BY <1>1 DEF HandlerInv, LyricsSoFar
  <1>4. row \in Nat /\ Rows \subseteq Nat /\ DOMAIN recovered \subseteq Rows
    BY <1>1, <1>3, SongIs DEF Neat
  <1> HIDE DEF taken
  <1>5. /\ SongKnown' /\ Untouched' /\ Spent'
        /\ (Queued(queue, planned, DOMAIN bounds) /\ Rounds(queue, decoded))'
        /\ LyricsSoFar' /\ BoundsKept'
    <2>1. SongKnown' /\ Untouched' /\ Spent' /\ (Queued(queue, planned, DOMAIN bounds) /\ Rounds(queue, decoded))'
      BY <1>1, <1>3, SongStays, QueueStays DEF Spent
    <2>2. LyricsSoFar'
      <3>1. Baseline' = Baseline /\ pc' \notin Early /\ pc' \notin {"return", "done"}
        BY <1>1, SongStays DEF Early
      <3> QED BY <1>1, <1>3, <3>1 DEF LyricsSoFar
    <2>3. BoundsKept'
      <3>1. DOMAIN bounds' = {}
        BY <2>1 DEF Untouched
      <3> QED BY <3>1 DEF BoundsKept
    <2> QED BY <2>1, <2>2, <2>3
  <1>6. CASE taken = recovered
    <2>1. anchors' = anchors
      <3>1. DOMAIN anchors \cup (DOMAIN taken \ DOMAIN recovered) = DOMAIN anchors
        BY <1>6
      <3>2. anchors' = [k \in DOMAIN anchors |-> anchors[k]]
        BY <1>2, <3>1
      <3> QED BY <1>3, <3>2 DEF Anchored
    <2>2. recovered' = recovered
      BY <1>2, <1>6
    <2>3. (Anchored /\ Neat(recovered) /\ Between)'
      BY <1>1, <1>3, <2>1, <2>2, AnchorsStay, WorkStays
    <2>4. FullSoFar'
      <3>1. \A k \in DOMAIN recovered : k < row + 1
        <4>1. \A k \in DOMAIN recovered : k < row /\ k \in Nat
          BY <1>3, <1>4 DEF FullSoFar
        <4> QED BY <1>4, <4>1
      <3>2. \A k \in DOMAIN anchors : Problem(k)' => k \in DOMAIN recovered
        BY <1>1, <1>3, SongStays DEF FullSoFar
      <3> QED BY <1>1, <1>3, <1>4, <2>1, <2>2, <3>1, <3>2 DEF FullSoFar
    <2> QED BY <1>1, <1>5, <2>3, <2>4 DEF HandlerInv
  <1>7. CASE taken # recovered
    <2>1. Problem(row) /\ Upper(row) # Unknown /\ taken = Accept(recovered, row, NearBy)
      BY <1>7 DEF taken
    <2>2. \A p \in NearBy : /\ p.text = song.rows[row].text /\ p.heard = "good" /\ Located(p)
                            /\ p.start >= Lower(row) /\ p.end <= Upper(row)
      <3>1. \A p \in NearBy : p \in song.phrases
        BY DEF NearBy, Matching
      <3>2. \A p \in NearBy : Located(p)
        BY <1>3, <3>1, SongIs
      <3> QED BY <3>2 DEF NearBy, Matching, Plausible, Within
    <2>3. Offered(row, NearBy)
      BY <2>2 DEF Offered, Located
    <2>4. Neat(taken) /\ Accepted(taken, recovered, row, NearBy)
      BY <1>1, <1>3, <1>4, <2>1, <2>3, AcceptNeat
    <2>5. row \notin DOMAIN recovered /\ row \notin DOMAIN anchors
      BY <1>3, <1>4, <2>1 DEF FullSoFar
    <2>6. /\ DOMAIN taken = DOMAIN recovered \cup {row} /\ taken[row] \in NearBy
          /\ \A j \in DOMAIN recovered : taken[j] = recovered[j]
      <3>1. \A j \in DOMAIN recovered : taken[j] = recovered[j]
        BY <2>4, <2>5 DEF Accepted
      <3>2. DOMAIN taken # DOMAIN recovered
        <4> SUFFICES ASSUME DOMAIN taken = DOMAIN recovered PROVE FALSE
          OBVIOUS
        <4>1. taken = [k \in DOMAIN taken |-> taken[k]] /\ recovered = [k \in DOMAIN recovered |-> recovered[k]]
          BY <1>3, <2>4 DEF Neat
        <4>2. taken = recovered
          BY <3>1, <4>1
        <4> QED BY <1>7, <4>2
      <3> QED BY <2>4, <3>1, <3>2 DEF Accepted
    <2> DEFINE p == taken[row]
    <2>7. /\ Located(p) /\ p.start >= Lower(row) /\ p.end <= Upper(row)
      BY <2>2, <2>6
    <2>8. /\ DOMAIN anchors' = DOMAIN anchors \cup {row}
          /\ \A j \in DOMAIN anchors : anchors'[j] = anchors[j]
          /\ anchors'[row] = [start |-> p.start, end |-> p.end]
          /\ anchors' = [k \in DOMAIN anchors' |-> anchors'[k]]
      <3>1. DOMAIN anchors \cup (DOMAIN taken \ DOMAIN recovered) = DOMAIN anchors \cup {row}
        BY <2>5, <2>6
      <3>2. anchors' = [k \in DOMAIN anchors \cup {row} |->
                          IF k \in DOMAIN anchors THEN anchors[k]
                          ELSE [start |-> taken[k].start, end |-> taken[k].end]]
        BY <1>2, <3>1
      <3> QED BY <2>5, <3>2
    <2>9. recovered' = taken
      BY <1>2
    <2> HIDE DEF p
    <2>10. Anchored'
      <3>1. Located(anchors'[row])
        BY <2>7, <2>8 DEF Located
      <3>2. \A j \in DOMAIN anchors' : Located(anchors'[j])
        BY <1>3, <2>8, <3>1 DEF Anchored
      <3>3. DOMAIN anchors' \subseteq Rows
        BY <1>1, <1>3, <2>8 DEF Anchored
      <3>4. Rows' = Rows
        BY <1>1, SongStays
      <3> QED BY <1>1, <2>8, <3>2, <3>3, <3>4 DEF Anchored, Located
    <2>11. Neat(recovered)'
      BY <1>1, <2>4, <2>9, SongStays
    <2>12. /\ LowerIn(anchors', row) = LowerIn(anchors, row) /\ UpperIn(anchors', row) = UpperIn(anchors, row)
           /\ \A k \in Rows : k < row =>
                /\ LowerIn(anchors', k) = LowerIn(anchors, k)
                /\ \/ UpperIn(anchors', k) = UpperIn(anchors, k)
                   \/ /\ UpperIn(anchors', k) = p.start
                      /\ \A j \in DOMAIN anchors : ~(k < j /\ j < row)
      BY <1>1, <1>3, <2>5, <2>8, AnchorGrows
    <2>13. \A k : /\ Lower(k) = LowerIn(anchors, k) /\ Upper(k) = UpperIn(anchors, k)
                  /\ Lower(k)' = LowerIn(anchors', k) /\ Upper(k)' = UpperIn(anchors', k)
      BY <1>1, BoundsIn
    <2>14. p.start >= LowerIn(anchors', row) /\ p.end <= UpperIn(anchors', row)
      BY <2>7, <2>12, <2>13
    <2>15. ASSUME NEW k \in DOMAIN recovered
           PROVE  recovered[k].start >= LowerIn(anchors', k) /\ recovered[k].end <= UpperIn(anchors', k)
      <3>1. k \in Rows /\ k < row /\ k \in DOMAIN anchors /\ anchors[k].end = recovered[k].end
        BY <1>3, <1>4 DEF FullSoFar
      <3>2. recovered[k].start >= Lower(k) /\ recovered[k].end <= Upper(k)
        BY <1>3 DEF Between
      <3>3. CASE UpperIn(anchors', k) = UpperIn(anchors, k)
        BY <2>12, <2>13, <3>1, <3>2, <3>3
      <3>4. CASE /\ UpperIn(anchors', k) = p.start
                 /\ \A j \in DOMAIN anchors : ~(k < j /\ j < row)
        <4>1. k \in Lefts(row) /\ Lefts(row) # {}
          BY <3>1 DEF Lefts
        <4> DEFINE m == Max(Lefts(row))
        <4>2. m \in Lefts(row) /\ k <= m
          BY <1>1, <1>3, <4>1, NextTo
        <4>3. m \in DOMAIN anchors /\ m < row /\ m \in Nat /\ k \in Nat
          BY <1>3, <1>4, <3>1, <4>2 DEF Lefts, Anchored
        <4> HIDE DEF m
        <4>4. m = k
          BY <3>4, <4>2, <4>3
        <4>5. Lower(row) = anchors[m].end
          BY <4>1 DEF Lower, m
        <4>6. recovered[k].end <= p.start
          BY <2>7, <3>1, <4>4, <4>5
        <4> QED BY <2>12, <2>13, <3>1, <3>2, <3>4, <4>6
      <3> QED BY <2>12, <3>1, <3>3, <3>4
    <2>16. Between'
      <3>1. \A k \in DOMAIN recovered' : \/ k = row /\ recovered'[k] = p
                                         \/ k \in DOMAIN recovered /\ recovered'[k] = recovered[k]
        BY <2>6, <2>9 DEF p
      <3>2. \A k \in DOMAIN recovered' :
              recovered'[k].start >= LowerIn(anchors', k) /\ recovered'[k].end <= UpperIn(anchors', k)
        BY <2>14, <2>15, <3>1
      <3> QED BY <2>13, <3>2 DEF Between
    <2>17. FullSoFar'
      <3>1. \A k \in DOMAIN recovered' :
              k < row + 1 /\ k \in DOMAIN anchors' /\ anchors'[k].end = recovered'[k].end
        <4> SUFFICES ASSUME NEW k \in DOMAIN taken
                     PROVE  k < row + 1 /\ k \in DOMAIN anchors' /\ anchors'[k].end = taken[k].end
          BY <2>9
        <4>1. CASE k = row
          BY <1>4, <2>8, <4>1 DEF p
        <4>2. CASE k \in DOMAIN recovered
          <5>1. k \in Nat /\ k < row /\ k \in DOMAIN anchors /\ anchors[k].end = recovered[k].end
            BY <1>3, <1>4, <4>2 DEF FullSoFar
          <5> QED BY <1>4, <2>6, <2>8, <4>2, <5>1
        <4> QED BY <2>6, <4>1, <4>2
      <3>2. \A k \in DOMAIN anchors' : Problem(k)' => k \in DOMAIN recovered'
        BY <1>1, <1>3, <2>6, <2>8, <2>9, SongStays DEF FullSoFar
      <3>3. row' \in Nat \ {0}
        BY <1>1, <1>4
      <3> QED BY <1>1, <3>1, <3>2, <3>3 DEF FullSoFar
    <2> QED BY <1>1, <1>5, <2>10, <2>11, <2>16, <2>17 DEF HandlerInv
  <1> QED BY <1>6, <1>7

\* A step amid the crops.
LEMMA AmidCrops ==
    ASSUME Assumed, HandlerInv, pc \in {"full", "crops"}, pc' = "crops",
           song' = song, anchors' = anchors, lrc' = lrc, error' = error,
           Neat(recovered'),
           \A k \in DOMAIN recovered' : recovered'[k].start >= Lower(k) /\ recovered'[k].end <= Upper(k),
           BoundsKept', Spent', Queued(queue', planned', DOMAIN bounds'), Rounds(queue', decoded')
    PROVE  HandlerInv'
  <1>1. SongKnown' /\ Anchored' /\ Neat(recovered)'
    BY SongStays, AnchorsStay DEF HandlerInv
  <1>2. Between'
    BY AnchorsStay DEF Between
  <1>3. LyricsSoFar'
    <2>1. /\ Baseline' = Baseline /\ lrc = Baseline /\ error = "none"
          /\ pc' \notin Early /\ pc' \notin {"return", "done"}
      BY SongStays DEF Early, HandlerInv, LyricsSoFar
    <2> QED BY <2>1 DEF LyricsSoFar
  <1>4. (Queued(queue, planned, DOMAIN bounds) /\ Rounds(queue, decoded))'
    BY SongStays
  <1>5. pc' \notin Early \cup {"full"} /\ pc' # "full"
    BY DEF Early
  <1> QED BY <1>1, <1>2, <1>3, <1>4, <1>5 DEF HandlerInv

\* The rows that are still open get their crops.
LEMMA PlanCropsKeeps ==
    ASSUME Assumed, HandlerInv, PlanCrops
    PROVE  HandlerInv'
  <1> DEFINE open == {k \in Pending : /\ ~NoWindow(k) /\ ~Beside(k)
                                        /\ Window(k).end - Window(k).start <= MaxCrop}
  <1>1. /\ pc = "full" /\ pc' = "crops"
        /\ song' = song /\ anchors' = anchors /\ recovered' = recovered
        /\ lrc' = lrc /\ error' = error
        /\ attempts' = attempts /\ audio' = audio /\ decoded' = decoded
        /\ bounds' = [k \in open |-> [lower |-> Lower(k), upper |-> Upper(k)]]
    BY DEF PlanCrops, lyrics
  <1>2. PICK q \in Orders(Groups(open)) :
          /\ queue' = [m \in DOMAIN q |->
                         [start |-> q[m].start, end |-> q[m].end, rows |-> q[m].rows, phase |-> "primary"]]
          /\ planned' = {Span(q[m]) : m \in DOMAIN q}
    BY DEF PlanCrops
  <1>3. SongKnown /\ Anchored /\ Neat(recovered) /\ Between /\ Untouched /\ Spent
    BY <1>1 DEF HandlerInv
  <1>4. /\ open \subseteq Rows
        /\ \A k \in open : /\ Problem(k) /\ ~NoWindow(k) /\ ~Beside(k)
                           /\ Window(k).end - Window(k).start <= MaxCrop
    BY DEF Pending
  <1> HIDE DEF open
  <1>5. Open(open) /\ IsFiniteSet(open)
    <2>1. \A k \in open : Fits(Window(k)) /\ Window(k).rows = <<k>>
      BY <1>3, <1>4, WindowSound
    <2>2. open \subseteq Nat
      BY <1>3, <1>4, SongIs
    <2>3. IsFiniteSet(open)
      BY <1>3, <1>4, SongIs, FS_Subset
    <2> QED BY <2>1, <2>2, <2>3 DEF Open
  <1>6. q \in Seq(Crops(open)) /\ Planned(q)
    <2>1. Groups(open) \in Seq(Crops(open)) /\ Grouped(Groups(open), {})
      BY <1>5, GroupsAre
    <2> QED BY <1>2, <2>1, OrdersPlan
  <1> DEFINE N == Len(q)
  <1>7. N \in Nat /\ DOMAIN q = 1 .. N /\ \A m \in 1 .. N : q[m] \in Crops(open)
    BY <1>6
  <1> HIDE DEF N
  <1>8. \A m \in 1 .. N : /\ q[m].start \in Nat /\ q[m].end \in Nat
                          /\ q[m].rows \in Seq(open) /\ q[m].rows \in Seq(Rows)
                          /\ \A i \in 1 .. Len(q[m].rows) : q[m].rows[i] \in open
    <2> SUFFICES ASSUME NEW m \in 1 .. N
                 PROVE  /\ q[m].start \in Nat /\ q[m].end \in Nat
                        /\ q[m].rows \in Seq(open) /\ q[m].rows \in Seq(Rows)
                        /\ \A i \in 1 .. Len(q[m].rows) : q[m].rows[i] \in open
      OBVIOUS
    <2>1. q[m].start \in Nat /\ q[m].end \in Nat /\ q[m].rows \in Seq(open)
      BY <1>7 DEF Crops
    <2> DEFINE r == q[m].rows
    <2>2. r \in Seq(open)
      BY <2>1
    <2> HIDE DEF r
    <2>3. r \in Seq(Rows) /\ \A i \in 1 .. Len(r) : r[i] \in open
      BY <1>4, <2>2
    <2> QED BY <2>1, <2>3 DEF r
  <1>9. \A m \in 1 .. N : /\ queue'[m] = [start |-> q[m].start, end |-> q[m].end, rows |-> q[m].rows,
                                          phase |-> "primary"]
                          /\ Span(queue'[m]) = Span(q[m])
                          /\ queue'[m].start = q[m].start /\ queue'[m].end = q[m].end
                          /\ queue'[m].rows = q[m].rows /\ queue'[m].phase = "primary"
    <2> SUFFICES ASSUME NEW m \in 1 .. N
                 PROVE  /\ queue'[m] = [start |-> q[m].start, end |-> q[m].end, rows |-> q[m].rows,
                                        phase |-> "primary"]
                        /\ Span(queue'[m]) = Span(q[m])
                        /\ queue'[m].start = q[m].start /\ queue'[m].end = q[m].end
                        /\ queue'[m].rows = q[m].rows /\ queue'[m].phase = "primary"
      OBVIOUS
    <2>1. queue'[m] = [start |-> q[m].start, end |-> q[m].end, rows |-> q[m].rows,
                       phase |-> "primary"]
      BY <1>2, <1>7
    <2>2. /\ queue'[m].start = q[m].start /\ queue'[m].end = q[m].end
          /\ queue'[m].rows = q[m].rows /\ queue'[m].phase = "primary"
      BY <2>1
    <2>3. Span(queue'[m]) = Span(q[m])
      BY <2>2 DEF Span
    <2> QED BY <2>1, <2>2, <2>3
  <1>10. queue' \in Seq(Entries) /\ Len(queue') = N
    <2>1. \A m \in 1 .. N : [start |-> q[m].start, end |-> q[m].end, rows |-> q[m].rows,
                             phase |-> "primary"] \in Entries
      <3> SUFFICES ASSUME NEW m \in 1 .. N
                   PROVE  [start |-> q[m].start, end |-> q[m].end, rows |-> q[m].rows,
                           phase |-> "primary"] \in Entries
        OBVIOUS
      <3>1. q[m].start \in Int /\ q[m].end \in Int /\ q[m].rows \in Seq(Rows)
        BY <1>8
      <3> QED BY <3>1 DEF Entries
    <2>2. queue' = [m \in 1 .. N |-> [start |-> q[m].start, end |-> q[m].end, rows |-> q[m].rows,
                                      phase |-> "primary"]]
      BY <1>2, <1>7
    <2> QED BY <1>7, <2>1, <2>2
  <1>11. DOMAIN bounds' = open
    BY <1>1
  <1>12. Queued(queue', planned', DOMAIN bounds')
    <2>1. \A m \in 1 .. N : Bounded(queue'[m], planned', open)
      <3> SUFFICES ASSUME NEW m \in 1 .. N PROVE Bounded(queue'[m], planned', open)
        OBVIOUS
      <3>1. Fits(q[m])
        BY <1>6 DEF Planned, N
      <3>2. Span(queue'[m]) \in planned'
        BY <1>2, <1>7, <1>9
      <3>3. queue'[m].start = q[m].start /\ queue'[m].end = q[m].end /\ queue'[m].rows = q[m].rows
        BY <1>9
      <3> QED BY <1>8, <3>1, <3>2, <3>3 DEF Bounded, Fits
    <2>2. ASSUME NEW m \in 1 .. N, NEW n \in 1 .. N, m # n
          PROVE  Span(queue'[m]) # Span(queue'[n]) /\ Disjoint(queue'[m], queue'[n])
      <3>1. /\ Span(q[m]) # Span(q[n])
            /\ \A i \in 1 .. Len(q[m].rows), j \in 1 .. Len(q[n].rows) : q[m].rows[i] # q[n].rows[j]
        BY <1>6, <2>2 DEF Planned, N
      <3>2. queue'[m].rows = q[m].rows /\ queue'[n].rows = q[n].rows
        BY <1>9
      <3>3. Span(queue'[m]) = Span(q[m]) /\ Span(queue'[n]) = Span(q[n])
        BY <1>9
      <3> QED BY <3>1, <3>2, <3>3 DEF Disjoint
    <2>3. \A m \in 1 .. N : queue'[m].phase # "alternate"
      BY <1>9
    <2> QED BY <1>10, <1>11, <2>1, <2>2, <2>3 DEF Queued
  <1>13. Rounds(queue', decoded')
    <2>1. DOMAIN decoded = Rows /\ \A k \in Rows : decoded[k] = <<>>
      BY <1>3 DEF Untouched
    <2>2. ~\E k \in Rows : decoded[k] = <<"primary", "alternate">>
      BY <2>1, TupleLength
    <2>3. ASSUME NEW m \in 1 .. N, NEW i \in 1 .. Len(queue'[m].rows)
          PROVE  queue'[m].phase = "primary" /\ decoded[queue'[m].rows[i]] = <<>>
      <3>1. queue'[m].rows = q[m].rows /\ queue'[m].phase = "primary"
        BY <1>9
      <3>2. queue'[m].rows[i] \in Rows
        BY <1>4, <1>8, <3>1
      <3> QED BY <2>1, <3>1, <3>2
    <2> QED BY <1>1, <1>10, <2>1, <2>2, <2>3 DEF Rounds
  <1>14. BoundsKept'
    <2>1. \A k \in open : bounds'[k].lower = Lower(k) /\ bounds'[k].upper = Upper(k)
      BY <1>1
    <2>2. \A k : /\ Lower(k)' = Lower(k) /\ Upper(k)' = Upper(k)
                 /\ (Problem(k)' <=> Problem(k))
      BY <1>1, SongStays, AnchorsStay
    <2>3. Rows' = Rows
      BY <1>1, SongStays
    <2> QED BY <1>4, <1>11, <2>1, <2>2, <2>3 DEF BoundsKept
  <1>15. Spent'
    BY <1>1, <1>3 DEF Spent
  <1>16. /\ Neat(recovered')
         /\ \A k \in DOMAIN recovered' : recovered'[k].start >= Lower(k) /\ recovered'[k].end <= Upper(k)
    BY <1>1, <1>3 DEF Between
  <1> QED BY <1>1, <1>12, <1>13, <1>14, <1>15, <1>16, AmidCrops

\* A crop that the budgets do not allow.
LEMMA SkipCropKeeps ==
    ASSUME Assumed, HandlerInv, SkipCrop
    PROVE  HandlerInv'
  <1>1. /\ pc = "crops" /\ pc' = "crops" /\ queue # <<>> /\ queue' = Tail(queue)
        /\ song' = song /\ anchors' = anchors /\ recovered' = recovered
        /\ lrc' = lrc /\ error' = error /\ bounds' = bounds /\ planned' = planned
        /\ attempts' = attempts /\ audio' = audio /\ decoded' = decoded
    BY DEF SkipCrop, plan, lyrics
  <1>2. /\ Neat(recovered) /\ Between /\ BoundsKept /\ Spent
        /\ Queued(queue, planned, DOMAIN bounds) /\ Rounds(queue, decoded)
    BY DEF HandlerInv
  <1>3. Queued(queue', planned', DOMAIN bounds') /\ Rounds(queue', decoded')
    BY <1>1, <1>2, QueueTail, RoundsTail
  <1>4. BoundsKept' /\ Spent'
    BY <1>1, <1>2, WorkStays DEF Spent
  <1> QED BY <1>1, <1>2, <1>3, <1>4, AmidCrops DEF Between

\* What taking a crop does, whatever it hears.
LEMMA TakeCropDoes ==
    ASSUME Assumed, HandlerInv, TakeCrop
    PROVE  /\ pc = "crops" /\ pc' = "crops" /\ queue # <<>>
           /\ song' = song /\ anchors' = anchors /\ bounds' = bounds
           /\ lrc' = lrc /\ error' = error
           /\ Head(queue) \in Entries /\ Bounded(Head(queue), planned, DOMAIN bounds)
           /\ Queued(Tail(queue), planned, DOMAIN bounds)
           /\ \A m \in 1 .. Len(Tail(queue)) : Disjoint(Tail(queue)[m], Head(queue))
           /\ Rounds(Tail(queue), decoded')
           /\ Head(queue).phase = "primary" =>
                \A i \in 1 .. Len(Head(queue).rows) : decoded'[Head(queue).rows[i]] = <<"primary">>
           /\ Spent'
  <1>1. /\ pc = "crops" /\ pc' = "crops" /\ queue # <<>>
        /\ song' = song /\ anchors' = anchors /\ bounds' = bounds
        /\ lrc' = lrc /\ error' = error
        /\ attempts' = attempts + 1 /\ audio' = audio + Head(queue).end - Head(queue).start
        /\ attempts < MaxCrops /\ ~(audio + Head(queue).end - Head(queue).start > MaxAudio)
        /\ decoded' = [k \in Rows |-> IF k \in ToSet(Head(queue).rows)
                                          THEN Append(decoded[k], Head(queue).phase) ELSE decoded[k]]
    BY DEF TakeCrop, Affordable, AudioSpent, lyrics
  <1>2. /\ BoundsKept /\ Spent /\ Queued(queue, planned, DOMAIN bounds) /\ Rounds(queue, decoded)
    BY DEF HandlerInv
  <1>3. /\ Len(queue) \in Nat /\ Len(queue) >= 1 /\ Head(queue) = queue[1] /\ Head(queue) \in Entries
        /\ \A m \in 1 .. Len(Tail(queue)) : Tail(queue)[m] = queue[m + 1] /\ m + 1 \in 1 .. Len(queue)
        /\ Len(Tail(queue)) \in Nat
    <2>1. queue \in Seq(Entries)
      BY <1>2 DEF Queued
    <2> QED BY <1>1, <2>1, TailIs
  <1>4. 1 \in 1 .. Len(queue) /\ Bounded(Head(queue), planned, DOMAIN bounds)
    BY <1>2, <1>3 DEF Queued
  <1>5. Queued(Tail(queue), planned, DOMAIN bounds)
    BY <1>1, <1>2, QueueTail
  <1>6. ASSUME NEW m \in 1 .. Len(Tail(queue)) PROVE Disjoint(Tail(queue)[m], Head(queue))
    <2>1. m + 1 \in 1 .. Len(queue) /\ m + 1 # 1 /\ Tail(queue)[m] = queue[m + 1]
      BY <1>3
    <2> QED BY <1>2, <1>3, <1>4, <2>1 DEF Queued
  <1>7. /\ Rounds(Tail(queue), decoded')
        /\ Head(queue).phase = "primary" =>
             \A i \in 1 .. Len(Head(queue).rows) : decoded'[Head(queue).rows[i]] = <<"primary">>
    <2>1. DOMAIN bounds \subseteq Rows
      BY <1>2 DEF BoundsKept
    <2> DEFINE d == decoded'
    <2>2. d = [k \in Rows |-> IF k \in ToSet(Head(queue).rows)
                                  THEN Append(decoded[k], Head(queue).phase) ELSE decoded[k]]
      BY <1>1
    <2> HIDE DEF d
    <2>3. /\ Rounds(Tail(queue), d)
          /\ Head(queue).phase = "primary" =>
               \A i \in 1 .. Len(Head(queue).rows) : d[Head(queue).rows[i]] = <<"primary">>
      BY <1>1, <1>2, <2>1, <2>2, RoundsDecode
    <2> QED BY <2>3 DEF d
  <1>8. Spent'
    <2>1. Head(queue).start \in Int /\ Head(queue).end \in Int
      BY <1>3 DEF Entries
    <2>2. MaxCrops \in Nat /\ MaxAudio \in Nat
      BY DEF Assumed, Budgets
    <2> DEFINE s == Head(queue).start
               e == Head(queue).end
    <2>3. s \in Int /\ e \in Int /\ attempts' = attempts + 1 /\ audio' = audio + e - s
          /\ attempts < MaxCrops /\ ~(audio + e - s > MaxAudio)
      BY <1>1, <2>1
    <2> HIDE DEF s, e
    <2> QED BY <1>2, <2>2, <2>3 DEF Spent
  <1> QED BY <1>1, <1>3, <1>4, <1>5, <1>6, <1>7, <1>8

\* A crop that cannot be decoded.
LEMMA CropFailsKeeps ==
    ASSUME Assumed, HandlerInv, CropFails
    PROVE  HandlerInv'
  <1>1. TakeCrop /\ queue' = Tail(queue) /\ recovered' = recovered /\ planned' = planned
    BY DEF CropFails
  <1>2. /\ pc = "crops" /\ pc' = "crops"
        /\ song' = song /\ anchors' = anchors /\ bounds' = bounds
        /\ lrc' = lrc /\ error' = error
        /\ Queued(Tail(queue), planned, DOMAIN bounds) /\ Rounds(Tail(queue), decoded') /\ Spent'
    BY <1>1, TakeCropDoes
  <1>3. Neat(recovered) /\ Between /\ BoundsKept
    BY DEF HandlerInv
  <1>4. BoundsKept'
    BY <1>1, <1>2, <1>3, WorkStays
  <1> QED BY <1>1, <1>2, <1>3, <1>4, AmidCrops DEF Between

\* What a crop hears are phrases with times.
LEMMA HeardIs ==
    ASSUME Assumed, NEW group, NEW heard \in Hearings(group)
    PROVE  \A p \in heard : p.start \in Nat /\ p.end \in Nat
  <1> DEFINE phrases == [text  : {song.rows[k].text : k \in ToSet(group.rows)},
                         spot  : {s \in Spots : s.start >= group.start /\ s.end <= group.end},
                         heard : {"good", "faint"}]
             Flat(h) == {[text |-> p.text, start |-> p.spot.start, end |-> p.spot.end,
                          heard |-> p.heard] : p \in h}
  <1>1. PICK h : h \in UNION {kSubset(n, phrases) : n \in 0 .. MaxHeard} /\ heard = Flat(h)
    BY DEF Hearings
  <1>2. h \subseteq phrases
    <2> HIDE DEF phrases
    <2> QED BY <1>1 DEF kSubset
  <1>3. \A p \in phrases : p.spot \in Spots
    OBVIOUS
  <1>4. \A s \in Spots : s.start \in Nat /\ s.end \in Nat
    BY DEF Assumed, Hearable, Timed
  <1> HIDE DEF phrases
  <1>5. \A p \in h : p.spot.start \in Nat /\ p.spot.end \in Nat
    BY <1>2, <1>3, <1>4
  <1> QED BY <1>1, <1>5

\* Another context for some rows of a group.
Second(e, group, rows, D) ==
    /\ e.phase = "alternate" /\ e.rows = rows /\ group.phase = "primary"
    /\ Span(e) \notin planned /\ Bounded(e, planned \cup {Span(e)}, D)

\* A second context is one more crop, or none.
LEMMA AlternatesAre ==
    ASSUME Assumed, SongKnown, NEW group \in Entries, NEW rows \in Seq(Rows),
           NEW D, \A i \in 1 .. Len(rows) : rows[i] \in D, NEW more, more = Alternates(group, rows)
    PROVE  more = <<>> \/ \E e \in Entries : more = <<e>> /\ Second(e, group, rows, D)
  <1> DEFINE a == Alternate(group)
             e == [start |-> a.start, end |-> a.end, rows |-> rows, phase |-> "alternate"]
             may == /\ group.phase = "primary" /\ rows # <<>> /\ a # Span(group) /\ a \notin planned
                    /\ a.end - a.start <= MaxCrop
  <1>1. more = IF may THEN <<e>> ELSE <<>>
    BY DEF Alternates
  <1>2. CASE ~may
    BY <1>1, <1>2
  <1>3. CASE may
    <2>1. a.start \in Int /\ a.end \in Int /\ (song.duration # Unknown => a.end <= song.duration)
      <3>1. group.start \in Int /\ group.end \in Int
        BY DEF Entries
      <3> QED BY <3>1, AlternateIs
    <2>2. a = [start |-> a.start, end |-> a.end]
      BY DEF Alternate
    <2>3. group.phase = "primary" /\ a \notin planned /\ a.end - a.start <= MaxCrop
      BY <1>3
    <2> HIDE DEF a
    <2>4. /\ e \in Entries /\ e.phase = "alternate" /\ e.rows = rows
          /\ e.start = a.start /\ e.end = a.end
      BY <2>1 DEF Entries
    <2>5. Span(e) = a
      BY <2>2, <2>4 DEF Span
    <2>6. more = <<e>>
      BY <1>1, <1>3
    <2> HIDE DEF e
    <2>7. Bounded(e, planned \cup {Span(e)}, D)
      BY <2>1, <2>3, <2>4 DEF Bounded
    <2> QED BY <2>3, <2>4, <2>5, <2>6, <2>7 DEF Second
  <1> QED BY <1>2, <1>3

\* A crop that is heard.
LEMMA CropKeeps ==
    ASSUME Assumed, HandlerInv, Crop
    PROVE  HandlerInv'
  <1> DEFINE group == Head(queue)
             rows == group.rows
             among(heard) == [k \in ToSet(rows) |->
                                {p \in Matching(k, heard) :
                                   Plausible(p, bounds[k].lower, bounds[k].upper)}]
             took(heard) == AcceptAll(rows, among(heard))
             faint(heard) == {k \in ToSet(rows) \ DOMAIN took(heard) :
                                \E p \in Matching(k, heard) :
                                  ConfidenceOnly(p, bounds[k].lower, bounds[k].upper)}
             joins(heard) == Alternates(group, Those(rows, faint(heard)))
  <1>1. PICK heard \in Hearings(group) :
          /\ recovered' = took(heard)
          /\ queue' = Enqueue(Tail(queue), joins(heard))
          /\ planned' = planned \cup {Span(joins(heard)[m]) : m \in DOMAIN joins(heard)}
    BY DEF Crop
  <1> DEFINE candidates == among(heard)
             some == faint(heard)
             again == Those(rows, some)
             more == Alternates(group, again)
  <1>2. /\ recovered' = AcceptAll(rows, candidates)
        /\ queue' = Tail(queue) \o more
        /\ planned' = planned \cup {Span(more[m]) : m \in DOMAIN more}
    BY <1>1 DEF Enqueue
  <1>3. \A k \in ToSet(rows) :
          \A p \in candidates[k] :
            /\ p.text = song.rows[k].text /\ p.heard = "good"
            /\ p.start \in Nat /\ p.end \in Nat
            /\ p.start >= bounds[k].lower /\ p.end <= bounds[k].upper
    <2>1. \A p \in heard : p.start \in Nat /\ p.end \in Nat
      BY HeardIs
    <2> QED BY <2>1 DEF Matching, Plausible, Within
  <1> HIDE DEF candidates, some, again, more
  <1>4. TakeCrop
    BY DEF Crop
  <1>5. /\ pc = "crops" /\ pc' = "crops" /\ queue # <<>>
        /\ song' = song /\ anchors' = anchors /\ bounds' = bounds
        /\ lrc' = lrc /\ error' = error
        /\ group \in Entries /\ Bounded(group, planned, DOMAIN bounds)
        /\ Queued(Tail(queue), planned, DOMAIN bounds)
        /\ \A m \in 1 .. Len(Tail(queue)) : Disjoint(Tail(queue)[m], group)
        /\ Rounds(Tail(queue), decoded')
        /\ group.phase = "primary" =>
             \A i \in 1 .. Len(rows) : decoded'[rows[i]] = <<"primary">>
        /\ Spent'
    BY <1>4, TakeCropDoes
  <1>6. SongKnown /\ Neat(recovered) /\ Between /\ BoundsKept
    BY DEF HandlerInv
  <1> HIDE DEF rows, group
  <1>7. /\ rows \in Seq(Rows) /\ Len(rows) \in Nat /\ ToSet(rows) = {rows[i] : i \in 1 .. Len(rows)}
        /\ \A i \in 1 .. Len(rows) : rows[i] \in Rows /\ rows[i] \in DOMAIN bounds /\ rows[i] \in ToSet(rows)
    <2>1. rows \in Seq(Rows)
      BY <1>5 DEF Entries, rows
    <2>2. Len(rows) \in Nat /\ ToSet(rows) = {rows[i] : i \in 1 .. Len(rows)}
      BY <2>1 DEF ToSet
    <2>3. \A i \in 1 .. Len(rows) : rows[i] \in Rows /\ rows[i] \in DOMAIN bounds
      BY <1>5, <2>1 DEF Bounded, rows
    <2> QED BY <2>1, <2>2, <2>3
  <1>8. \A i \in 1 .. Len(rows) : /\ Problem(rows[i]) /\ Offered(rows[i], candidates[rows[i]])
                                  /\ bounds[rows[i]].lower = Lower(rows[i])
                                  /\ bounds[rows[i]].upper = Upper(rows[i])
    BY <1>3, <1>6, <1>7 DEF BoundsKept, Offered
  <1>9. /\ Neat(recovered') /\ Gathered(recovered', rows, candidates, Len(rows))
    <2>1. Rows \subseteq Nat
      BY <1>6, SongIs
    <2> QED BY <1>2, <1>6, <1>7, <1>8, <2>1, AcceptAllNeat
  <1>10. \A k \in DOMAIN recovered' : recovered'[k].start >= Lower(k) /\ recovered'[k].end <= Upper(k)
    <2> SUFFICES ASSUME NEW k \in DOMAIN recovered'
                 PROVE  recovered'[k].start >= Lower(k) /\ recovered'[k].end <= Upper(k)
      OBVIOUS
    <2>1. CASE k \in DOMAIN recovered /\ recovered'[k] = recovered[k]
      BY <1>6, <2>1 DEF Between
    <2>2. CASE \E i \in 1 .. Len(rows) : k = rows[i] /\ recovered'[k] \in candidates[k]
      <3>1. PICK i \in 1 .. Len(rows) : k = rows[i] /\ recovered'[k] \in candidates[k]
        BY <2>2
      <3>2. k \in ToSet(rows) /\ bounds[k].lower = Lower(k) /\ bounds[k].upper = Upper(k)
        BY <1>7, <1>8, <3>1
      <3> QED BY <1>3, <3>1, <3>2
    <2> QED BY <1>9, <2>1, <2>2 DEF Gathered
  <1>11. BoundsKept'
    <2>1. \A k : /\ Lower(k)' = Lower(k) /\ Upper(k)' = Upper(k)
                 /\ (Problem(k)' <=> Problem(k))
      BY <1>5, SongStays, AnchorsStay
    <2>2. Rows' = Rows
      BY <1>5, SongStays
    <2> QED BY <1>5, <1>6, <2>1, <2>2 DEF BoundsKept
  <1>12. /\ again \in Seq(Rows)
         /\ \A c \in 1 .. Len(again) : \E x \in 1 .. Len(rows) : again[c] = rows[x]
    <2>1. /\ again \in Seq({rows[x] : x \in 1 .. Len(rows)})
          /\ Taken(again, rows, some, Len(rows))
      BY <1>7, ThoseAre DEF again
    <2> DEFINE X == {rows[x] : x \in 1 .. Len(rows)}
    <2>2. X \subseteq Rows
      BY <1>7
    <2>3. again \in Seq(X)
      BY <2>1
    <2>4. \A c \in 1 .. Len(again) : \E x \in 1 .. Len(rows) : again[c] = rows[x]
      BY <2>1 DEF Taken
    <2> HIDE DEF X
    <2>5. again \in Seq(Rows)
      BY <2>2, <2>3
    <2> QED BY <2>4, <2>5
  <1>13. Queued(queue', planned', DOMAIN bounds') /\ Rounds(queue', decoded')
    <2>1. \A c \in 1 .. Len(again) : again[c] \in DOMAIN bounds
      BY <1>7, <1>12
    <2>2. more = <<>> \/ \E e \in Entries : more = <<e>> /\ Second(e, group, again, DOMAIN bounds)
      <3>1. group \in Entries /\ SongKnown /\ again \in Seq(Rows)
        BY <1>5, <1>6, <1>12
      <3>2. more = Alternates(group, again)
        BY DEF more
      <3> QED BY <2>1, <3>1, <3>2, AlternatesAre
    <2>3. Tail(queue) \in Seq(Entries)
      BY <1>5 DEF Queued
    <2> DEFINE t == Tail(queue)
    <2> HIDE DEF t
    <2>4. CASE more = <<>>
      <3>1. queue' = t
        BY <1>2, <2>3, <2>4 DEF t
      <3>2. planned' = planned
        BY <1>2, <2>4
      <3> QED BY <1>5, <3>1, <3>2 DEF t
    <2>5. CASE \E e \in Entries : more = <<e>> /\ Second(e, group, again, DOMAIN bounds)
      <3>0. PICK e \in Entries : more = <<e>> /\ Second(e, group, again, DOMAIN bounds)
        BY <2>5
      <3>1. /\ more = <<e>> /\ e.phase = "alternate" /\ e.rows = again
            /\ group.phase = "primary"
            /\ Span(e) \notin planned
            /\ Bounded(e, planned \cup {Span(e)}, DOMAIN bounds)
        BY <3>0 DEF Second
      <3>2. queue' = t \o <<e>> /\ planned' = planned \cup {Span(e)}
        <4>1. DOMAIN more = {1} /\ more[1] = e
          BY <3>1
        <4>2. {Span(more[m]) : m \in DOMAIN more} = {Span(e)}
          BY <4>1
        <4> QED BY <1>2, <3>1, <4>2 DEF t
      <3>3. \A m \in 1 .. Len(t) : Disjoint(t[m], e)
        <4> SUFFICES ASSUME NEW m \in 1 .. Len(t), NEW i \in 1 .. Len(t[m].rows), NEW c \in 1 .. Len(e.rows)
                     PROVE  t[m].rows[i] # e.rows[c]
          BY DEF Disjoint
        <4>1. PICK x \in 1 .. Len(rows) : e.rows[c] = rows[x]
          BY <1>12, <3>1
        <4>2. Disjoint(t[m], group)
          BY <1>5 DEF t
        <4>3. t[m].rows[i] # rows[x]
          BY <4>2 DEF Disjoint, rows
        <4> QED BY <4>1, <4>3
      <3>4. Queued(queue', planned', DOMAIN bounds')
        <4>1. Queued(t, planned, DOMAIN bounds)
          BY <1>5 DEF t
        <4>2. Queued(t \o <<e>>, planned \cup {Span(e)}, DOMAIN bounds)
          BY <3>1, <3>3, <4>1, QueueMore
        <4> QED BY <1>5, <3>2, <4>2
      <3>5. Rounds(queue', decoded')
        <4>1. \A i \in 1 .. Len(e.rows) : decoded'[e.rows[i]] = <<"primary">>
          BY <1>5, <1>12, <3>1
        <4> DEFINE d == decoded'
        <4>2. t \in Seq(Entries) /\ Rounds(t, d) /\ \A i \in 1 .. Len(e.rows) : d[e.rows[i]] = <<"primary">>
          BY <1>5, <2>3, <4>1 DEF t
        <4> HIDE DEF d
        <4>3. Rounds(t \o <<e>>, d)
          BY <3>1, <4>2, RoundsMore
        <4> QED BY <3>2, <4>3 DEF d
      <3> QED BY <3>4, <3>5
    <2> QED BY <2>2, <2>4, <2>5
  <1> QED BY <1>5, <1>9, <1>10, <1>11, <1>13, AmidCrops

\* Nothing happens.
LEMMA HandlerStutters ==
    ASSUME Assumed, HandlerInv, UNCHANGED handlerVars
    PROVE  HandlerInv'
  <1>1. /\ song' = song /\ anchors' = anchors /\ recovered' = recovered /\ bounds' = bounds
        /\ queue' = queue /\ planned' = planned /\ decoded' = decoded
        /\ attempts' = attempts /\ audio' = audio /\ pc' = pc /\ row' = row
        /\ lrc' = lrc /\ error' = error /\ aligned_lrc' = aligned_lrc
    BY DEF handlerVars
  <1>2. (SongKnown /\ Anchored /\ Neat(recovered) /\ Between /\ BoundsKept)'
    BY <1>1, SongStays, AnchorsStay, WorkStays DEF HandlerInv
  <1>3. (Queued(queue, planned, DOMAIN bounds) /\ Rounds(queue, decoded))' /\ (Untouched' <=> Untouched)
    BY <1>1, QueueStays DEF HandlerInv
  <1>4. Spent'
    BY <1>1 DEF HandlerInv, Spent
  <1>5. FullSoFar' <=> FullSoFar
    BY <1>1, SongStays DEF FullSoFar
  <1>6. LyricsSoFar'
    <2>1. Baseline' = Baseline /\ Rendered(Kept, recovered)' = Rendered(Kept, recovered)
      BY <1>1, SongStays, WorkStays
    <2>2. LyricsSoFar
      BY DEF HandlerInv
    <2>3. (Sound(lrc)' <=> Sound(lrc)) /\ (Sound(aligned_lrc)' <=> Sound(aligned_lrc))
      BY <1>1, <2>1 DEF Sound
    <2> QED BY <1>1, <2>1, <2>2, <2>3 DEF LyricsSoFar
  <1> QED BY <1>1, <1>2, <1>3, <1>4, <1>5, <1>6 DEF HandlerInv

\* Every step keeps the invariant.
LEMMA HandlerStep ==
    ASSUME Assumed, HandlerInv, [HandlerNext]_handlerVars
    PROVE  HandlerInv'
  <1>1. CASE Separate \/ Transcribe
    BY <1>1, StagesKeep
  <1>2. CASE Align
    BY <1>2, AlignKeeps
  <1>3. CASE Budget
    BY <1>3, BudgetKeeps
  <1>4. CASE FullPass
    BY <1>4, FullPassKeeps
  <1>5. CASE PlanCrops
    BY <1>5, PlanCropsKeeps
  <1>6. CASE SkipCrop
    BY <1>6, SkipCropKeeps
  <1>7. CASE Crop
    BY <1>7, CropKeeps
  <1>8. CASE CropFails
    BY <1>8, CropFailsKeeps
  <1>9. CASE Finish \/ RetriesFail
    BY <1>9, RetriesEndKeeps
  <1>10. CASE Return
    BY <1>10, ReturnKeeps
  <1>11. CASE UNCHANGED handlerVars
    BY <1>11, HandlerStutters
  <1> QED BY <1>1, <1>2, <1>3, <1>4, <1>5, <1>6, <1>7, <1>8, <1>9, <1>10, <1>11
          DEF HandlerNext

\* The invariant holds throughout a run.
LEMMA HandlerAlways == HandlerSpec => []HandlerInv
  <1> Assumed
    BY BudgetAssumption, SongsAssumption DEF Assumed
  <1>1. HandlerInit => HandlerInv
    BY HandlerStarts
  <1>2. HandlerInv /\ [HandlerNext]_handlerVars => HandlerInv'
    BY HandlerStep
  <1> QED BY <1>1, <1>2, PTL DEF HandlerSpec

-----------------------------------------------------------------------------
(* What holds of the handler                                                *)

\* A line is recovered only where its own words were heard well, between the lines
\* next to it whose place is certain, and no two recovered lines overlap.
THEOREM RecoveredWhereSung == HandlerSpec => []RecoveredAreSung
  <1>1. HandlerInv => RecoveredAreSung
    BY DEF HandlerInv, Neat, Between, RecoveredAreSung
  <1> QED BY <1>1, HandlerAlways, PTL

\* The crops of a run stay within its budgets, and no two that wait are the same.
THEOREM CropsWithinBudget == HandlerSpec => []BudgetKept
  <1>1. ASSUME HandlerInv PROVE BudgetKept
    <2>1. attempts <= MaxCrops /\ audio <= MaxAudio
      BY <1>1 DEF HandlerInv, Spent
    <2>2. Queued(queue, planned, DOMAIN bounds) /\ DOMAIN queue = 1 .. Len(queue)
      BY <1>1 DEF HandlerInv, Queued
    <2> QED BY <2>1, <2>2 DEF BudgetKept, Queued, Bounded
  <1> QED BY <1>1, HandlerAlways, PTL

\* No line is decoded in a second context while another waits for its first one.
THEOREM FirstContextsGoFirst == HandlerSpec => []FirstContextsFirst
  <1>1. ASSUME HandlerInv PROVE FirstContextsFirst
    <2>1. Rounds(queue, decoded) /\ DOMAIN queue = 1 .. Len(queue)
      BY <1>1 DEF HandlerInv, Queued
    <2>2. "alternate" \notin ToSet(<<>>) /\ "alternate" \notin ToSet(<<"primary">>)
      BY DEF ToSet
    <2>3. \A k \in Rows : "alternate" \in ToSet(decoded[k]) => decoded[k] = <<"primary", "alternate">>
      BY <2>1, <2>2 DEF Rounds
    <2> QED BY <2>1, <2>3 DEF FirstContextsFirst, Rounds
  <1> QED BY <1>1, HandlerAlways, PTL

\* Once the retries have begun, the run's lyrics hold every line the aligner kept, and no
\* other but those recovered; when the retries fail, at whatever point, they are what
\* the aligner made.
THEOREM KeptLinesSurvive == HandlerSpec => []BaselineSurvives
  <1> Assumed
    BY BudgetAssumption, SongsAssumption DEF Assumed
  <1>1. ASSUME HandlerInv PROVE BaselineSurvives
    <2> DEFINE l == aligned_lrc
    <2> SUFFICES ASSUME pc = "done", row # 0
                 PROVE  /\ \A m, n \in DOMAIN l : m < n => l[m].row < l[n].row
                        /\ Kept \subseteq {l[m].row : m \in DOMAIN l}
                        /\ \A m \in DOMAIN l : IF l[m].new THEN l[m].row \in DOMAIN recovered
                                                           ELSE l[m].row \in Kept
                        /\ error # "none" => l = Rendered(Kept, <<>>)
      BY DEF BaselineSurvives
    <2>1. SongKnown /\ DOMAIN recovered \subseteq Rows /\ DOMAIN <<>> = {}
      BY <1>1 DEF HandlerInv, Neat
    <2>2. Sound(l)
      BY <1>1 DEF HandlerInv, LyricsSoFar
    <2>3. PICK new \in {<<>>, recovered} : l = Rendered(Kept, new)
      BY <2>2 DEF Sound, Baseline
    <2>4. error # "none" => l = Rendered(Kept, <<>>)
      BY <2>2 DEF Sound, Baseline
    <2> HIDE DEF l
    <2>5. DOMAIN new \subseteq Rows
      BY <2>1
    <2>6. /\ \A m, n \in DOMAIN l : m < n => l[m].row < l[n].row
          /\ Kept \subseteq {l[m].row : m \in DOMAIN l}
          /\ \A m \in DOMAIN l : l[m].row \in Kept \cup DOMAIN new
          /\ \A m \in DOMAIN l : l[m].new = (l[m].row \in DOMAIN new)
      BY <2>1, <2>3, <2>5, RenderedAre
    <2>7. \A m \in DOMAIN l : IF l[m].new THEN l[m].row \in DOMAIN recovered
                                           ELSE l[m].row \in Kept
      BY <2>1, <2>6
    <2> QED BY <2>4, <2>6, <2>7
  <1> QED BY <1>1, HandlerAlways, PTL

=============================================================================
