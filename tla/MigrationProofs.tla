-------------------------- MODULE MigrationProofs ----------------------------
(***************************************************************************)
(* Proofs about the migration: the order of the tables, what its           *)
(* statements may take away, and what a migrator makes of a database; with *)
(* the lemmas on numbers, lists and sets that the proofs about the rest of *)
(* the server share.                                                       *)
(***************************************************************************)
EXTENDS Migration, FiniteSetTheorems, SequenceTheorems, WellFoundedInduction, TLAPS

\* A set of numbers has a least one.
LEMMA LeastNumber ==
  ASSUME NEW S \in SUBSET Nat, S # {}
  PROVE  \E n \in S : \A m \in S : n <= m
<1> DEFINE R == OpToRel(<, Nat)
<1>1. \E n \in S : \A m \in S : ~(<<m, n>> \in R)
  <2> HIDE DEF R
  <2> QED BY NatLessThanWellFounded, WFMin DEF R
<1>2. \A m, n \in Nat : m < n => <<m, n>> \in R
  BY DEF OpToRel
<1> HIDE DEF R
<1>3. PICK n \in S : \A m \in S : ~(<<m, n>> \in R)
  BY <1>1
<1>4. \A m \in S : ~(m < n)
  BY <1>2, <1>3
<1>5. QED
  BY <1>4

\* Induction, for a set.
LEMMA UpToN ==
  ASSUME NEW N \in Nat, NEW S, 0 \in S, \A n \in 1 .. N : n - 1 \in S => n \in S
  PROVE  \A n \in 0 .. N : n \in S
<1> DEFINE bad == {n \in 0 .. N : n \notin S}
<1> SUFFICES ASSUME bad # {} PROVE FALSE
  OBVIOUS
<1>1. bad \in SUBSET Nat
  OBVIOUS
<1>2. PICK n \in bad : \A m \in bad : n <= m
  <2> HIDE DEF bad
  <2>1. QED
    BY <1>1, LeastNumber
<1>3. n \in 1 .. N /\ n - 1 \in 0 .. N
  BY <1>2
<1>4. n - 1 \notin bad
  BY <1>2, <1>3
<1>5. QED
  BY <1>2, <1>3, <1>4

\* What holds of a function's first value and passes from one to the next.
LEMMA Stays ==
  ASSUME NEW N \in Nat, NEW D, NEW g, g[0] \in D,
         \A n \in 1 .. N : g[n - 1] \in D => g[n] \in D
  PROVE  \A n \in 0 .. N : g[n] \in D
<1> DEFINE S == {n \in 0 .. N : g[n] \in D}
<1>1. 0 \in S /\ \A n \in 1 .. N : n - 1 \in S => n \in S
  OBVIOUS
<1>2. \A n \in 0 .. N : n \in S
  <2> HIDE DEF S
  <2>1. QED
    BY <1>1, UpToN
<1>3. QED
  BY <1>2

\* The ways from one value to the next.
Nexts(N, D) == [(1 .. N) \X D -> D]

\* Some function starts with d and goes on so.
Recursive(N, D, d, next) ==
  \E f \in [0 .. N -> D] : f[0] = d /\ \A n \in 1 .. N : f[n] = next[<<n, f[n - 1]>>]

\* A function can be defined by recursion on its argument.
LEMMA Recursion ==
  ASSUME NEW N \in Nat, NEW D, NEW d \in D, NEW next \in Nexts(N, D)
  PROVE  Recursive(N, D, d, next)
<1> USE DEF Recursive
<1> DEFINE Follows(f, m) == f[0] = d /\ \A n \in 1 .. m : f[n] = next[<<n, f[n - 1]>>]
           S == {m \in 0 .. N : \E f \in [0 .. m -> D] : Follows(f, m)}
<1>1. 0 \in S
  <2> DEFINE f == [n \in 0 .. 0 |-> d]
  <2>1. f \in [0 .. 0 -> D] /\ f[0] = d
    OBVIOUS
  <2> HIDE DEF f
  <2>2. Follows(f, 0)
    BY <2>1
  <2>3. QED
    BY <2>1, <2>2
<1>2. ASSUME NEW m \in 1 .. N, m - 1 \in S PROVE m \in S
  <2>1. PICK f \in [0 .. m - 1 -> D] : Follows(f, m - 1)
    BY <1>2
  <2> DEFINE g == [n \in 0 .. m |-> IF n < m THEN f[n] ELSE next[<<m, f[m - 1]>>]]
  <2>2. f[m - 1] \in D
    OBVIOUS
  <2>3. g \in [0 .. m -> D]
    BY <2>2 DEF Nexts
  <2>4. \A n \in 0 .. m - 1 : g[n] = f[n]
    OBVIOUS
  <2>5. g[m] = next[<<m, f[m - 1]>>]
    OBVIOUS
  <2> HIDE DEF g
  <2>6. Follows(g, m)
    BY <2>1, <2>4, <2>5
  <2>7. QED
    BY <2>3, <2>6
<1>3. N \in S
  <2> HIDE DEF S
  <2>1. QED
    BY <1>1, <1>2, UpToN
<1>4. QED
  BY <1>3

\* The values of Only's recursion, and what follows from them.
OnlyUpto(s, wanted, T, g) ==
  /\ g \in [0 .. Len(s) -> Seq(T)]
  /\ g[0] = <<>>
  /\ \A n \in 1 .. Len(s) :
       g[n] = IF s[n] \in wanted THEN Append(g[n - 1], s[n]) ELSE g[n - 1]
  /\ g[Len(s)] = Only(s, wanted)

\* Only has such values.
LEMMA OnlyRecursion ==
  ASSUME NEW T, NEW s \in Seq(T), NEW wanted
  PROVE  \E g : OnlyUpto(s, wanted, T, g)
<1> DEFINE N == Len(s)
           D == Seq(T)
           none == <<>>
           With(i, x) == IF s[i] \in wanted THEN Append(x, s[i]) ELSE x
           Upto(f) == [i \in 0 .. N |-> IF i = 0 THEN none ELSE With(i, f[i - 1])]
           next == [p \in (1 .. N) \X D |-> With(p[1], p[2])]
<1>0. N \in Nat /\ none \in D
  OBVIOUS
<1>1. \A i \in 1 .. N, x \in D : With(i, x) \in D
  OBVIOUS
<1>2. (\E f : f = Upto(f)) => \E g : g = Upto(g) /\ Only(s, wanted) = g[N]
  BY DEF Only
<1> HIDE DEF N, D, none, With
<1>3. next \in Nexts(N, D)
  BY <1>1 DEF Nexts
<1>a. \A i \in 1 .. N, x \in D : next[<<i, x>>] = With(i, x)
  OBVIOUS
<1> HIDE DEF next
<1>4. PICK f \in [0 .. N -> D] :
        f[0] = none /\ \A n \in 1 .. N : f[n] = next[<<n, f[n - 1]>>]
  <2>1. Recursive(N, D, none, next)
    BY <1>0, <1>3, Recursion
  <2>2. QED
    BY <2>1 DEF Recursive
<1>5. f = Upto(f)
  <2>1. \A n \in 1 .. N : f[n - 1] \in D /\ n # 0
    BY <1>0
  <2>2. \A n \in 1 .. N : f[n] = With(n, f[n - 1])
    BY <1>a, <1>4, <2>1
  <2>3. \A n \in 0 .. N : f[n] = IF n = 0 THEN none ELSE With(n, f[n - 1])
    BY <1>0, <1>4, <2>2
  <2>4. QED
    BY <2>3
<1>6. PICK g : g = Upto(g) /\ Only(s, wanted) = g[N]
  BY <1>2, <1>5
<1>7. g[0] = none /\ \A n \in 1 .. N : g[n] = With(n, g[n - 1])
  BY <1>0, <1>6
<1>8. g[0] \in D /\ \A n \in 1 .. N : g[n - 1] \in D => g[n] \in D
  BY <1>0, <1>1, <1>7
<1>9. \A n \in 0 .. N : g[n] \in D
  BY <1>0, <1>8, Stays
<1>10. g \in [0 .. N -> D]
  BY <1>6, <1>9
<1>11. OnlyUpto(s, wanted, T, g)
  BY <1>6, <1>7, <1>10 DEF OnlyUpto, N, D, none, With
<1>12. QED
  BY <1>11

\* How many members of a set of places are up to n.
CountUpTo(W, n) == Cardinality({j \in 1 .. n : j \in W})

\* One more counts if it is in the set.
LEMMA Counts ==
  ASSUME NEW W
  PROVE  /\ CountUpTo(W, 0) = 0
         /\ \A n \in Nat : CountUpTo(W, n) \in Nat
         /\ \A n \in Nat \ {0} :
              /\ n \in W => CountUpTo(W, n) = CountUpTo(W, n - 1) + 1
              /\ n \notin W => CountUpTo(W, n) = CountUpTo(W, n - 1)
<1> DEFINE V(n) == {j \in 1 .. n : j \in W}
<1>1. V(0) = {}
  OBVIOUS
<1>2. \A n \in Nat : IsFiniteSet(V(n))
  <2>1. \A n \in Nat : V(n) \subseteq 1 .. n /\ IsFiniteSet(1 .. n)
    BY FS_Interval
  <2>2. QED
    BY <2>1, FS_Subset
<1>3. ASSUME NEW n \in Nat \ {0}
      PROVE  /\ n \in W => V(n) = V(n - 1) \cup {n}
             /\ n \notin W => V(n) = V(n - 1)
  OBVIOUS
<1>4. \A n \in Nat \ {0} : n \notin V(n - 1) /\ n - 1 \in Nat
  OBVIOUS
<1>5. \A n \in Nat : Cardinality(V(n)) \in Nat
  BY <1>2, FS_CardinalityType
<1>6. ASSUME NEW n \in Nat \ {0}
      PROVE Cardinality(V(n - 1) \cup {n}) = Cardinality(V(n - 1)) + 1
  <2>1. IsFiniteSet(V(n - 1)) /\ n \notin V(n - 1)
    BY <1>2, <1>4
  <2> HIDE DEF V
  <2>2. QED
    BY <2>1, FS_AddElement
<1>7. Cardinality(V(0)) = 0
  BY <1>1, FS_EmptySet
<1> HIDE DEF V
<1>8. \A n : CountUpTo(W, n) = Cardinality(V(n))
  BY DEF CountUpTo, V
<1>9. QED
  BY <1>3, <1>5, <1>6, <1>7, <1>8

\* Where the wanted elements are.
PlacesOf(s, wanted) == {j \in DOMAIN s : s[j] \in wanted}

\* A wanted element is found at the place that the number of wanted ones up to
\* it gives.
LEMMA OnlyPlaces ==
  ASSUME NEW T, NEW s \in Seq(T), NEW wanted
  PROVE  /\ Only(s, wanted) \in Seq(T)
         /\ Len(Only(s, wanted)) = CountUpTo(PlacesOf(s, wanted), Len(s))
         /\ \A i \in PlacesOf(s, wanted) :
              /\ CountUpTo(PlacesOf(s, wanted), i) \in 1 .. Len(Only(s, wanted))
              /\ Only(s, wanted)[CountUpTo(PlacesOf(s, wanted), i)] = s[i]
<1> DEFINE N == Len(s)
           W == PlacesOf(s, wanted)
           w == [n \in 0 .. N |-> CountUpTo(W, n)]
<1>0. N \in Nat
  OBVIOUS
<1>a. W \subseteq 1 .. N /\ \A n \in 1 .. N : s[n] \in wanted <=> n \in W
  BY DEF PlacesOf
<1>1. PICK g : OnlyUpto(s, wanted, T, g)
  BY OnlyRecursion
<1>b. /\ g \in [0 .. N -> Seq(T)] /\ g[0] = <<>> /\ g[N] = Only(s, wanted)
      /\ \A n \in 1 .. N : /\ n \in W => g[n] = Append(g[n - 1], s[n])
                           /\ n \notin W => g[n] = g[n - 1]
  BY <1>a, <1>1 DEF OnlyUpto
<1>c. \A n \in 1 .. N : s[n] \in T
  OBVIOUS
<1> HIDE DEF W, N
<1>2. /\ w[0] = 0 /\ \A n \in 0 .. N : w[n] \in Nat
      /\ \A n \in 1 .. N : /\ n \in W => w[n] = w[n - 1] + 1
                           /\ n \notin W => w[n] = w[n - 1]
  <2>1. \A n \in 0 .. N : n \in Nat /\ w[n] = CountUpTo(W, n)
    BY <1>0
  <2>2. 0 \in 0 .. N /\ \A n \in 1 .. N : n \in 0 .. N /\ n - 1 \in 0 .. N /\ n \in Nat \ {0}
    BY <1>0
  <2> HIDE DEF w
  <2>3. w[0] = 0
    BY <2>1, <2>2, Counts
  <2>4. \A n \in 0 .. N : w[n] \in Nat
    BY <2>1, Counts
  <2>5. ASSUME NEW n \in 1 .. N
        PROVE  /\ n \in W => w[n] = w[n - 1] + 1
               /\ n \notin W => w[n] = w[n - 1]
    <3>1. w[n] = CountUpTo(W, n) /\ w[n - 1] = CountUpTo(W, n - 1) /\ n \in Nat \ {0}
      BY <2>1, <2>2
    <3>2. QED
      BY <3>1, Counts
  <2>6. QED
    BY <2>3, <2>4, <2>5
<1> DEFINE S == {n \in 0 .. N :
                   /\ Len(g[n]) = w[n]
                   /\ \A i \in 1 .. n : i \in W =>
                        w[i] \in 1 .. Len(g[n]) /\ g[n][w[i]] = s[i]}
<1> HIDE DEF w
<1>3. 0 \in S
  <2>1. Len(g[0]) = w[0] /\ 0 \in 0 .. N /\ \A i \in 1 .. 0 : FALSE
    BY <1>0, <1>b, <1>2
  <2>2. QED
    BY <2>1
<1>4. ASSUME NEW n \in 1 .. N, n - 1 \in S PROVE n \in S
  <2>1. g[n - 1] \in Seq(T) /\ Len(g[n - 1]) = w[n - 1] /\ w[n - 1] \in Nat /\ s[n] \in T
    BY <1>0, <1>b, <1>c, <1>2, <1>4
  <2>2. CASE n \in W
    <3>1. g[n] = Append(g[n - 1], s[n]) /\ w[n] = w[n - 1] + 1
      BY <1>b, <1>2, <2>2
    <3>3. Len(g[n]) = w[n] /\ g[n][w[n]] = s[n] /\ \A j \in 1 .. Len(g[n - 1]) : g[n][j] = g[n - 1][j]
      BY <2>1, <3>1
    <3>5. ASSUME NEW i \in 1 .. n, i \in W
          PROVE  w[i] \in 1 .. Len(g[n]) /\ g[n][w[i]] = s[i]
      <4>1. CASE i = n
        BY <2>1, <3>1, <3>3, <4>1
      <4>2. CASE i # n
        <5>1. i \in 1 .. n - 1
          BY <1>0, <4>2
        <5>2. w[i] \in 1 .. Len(g[n - 1]) /\ g[n - 1][w[i]] = s[i]
          BY <1>4, <3>5, <5>1
        <5>3. QED
          BY <2>1, <3>1, <3>3, <5>2
      <4>3. QED
        BY <4>1, <4>2
    <3>6. QED
      BY <1>0, <3>3, <3>5
  <2>3. CASE n \notin W
    <3>1. g[n] = g[n - 1] /\ w[n] = w[n - 1]
      BY <1>b, <1>2, <2>3
    <3>2. \A i \in 1 .. n : i \in W => i \in 1 .. n - 1
      BY <1>0, <2>3
    <3>3. QED
      BY <1>0, <1>4, <3>1, <3>2
  <2>4. QED
    BY <2>2, <2>3
<1>5. \A n \in 0 .. N : n \in S
  <2> HIDE DEF S
  <2>1. QED
    BY <1>0, <1>3, <1>4, UpToN
<1>6. N \in S
  BY <1>0, <1>5
<1>9. w[N] = CountUpTo(W, N) /\ \A i \in W : i \in 1 .. N /\ w[i] = CountUpTo(W, i)
  BY <1>0, <1>a DEF w
<1>10. QED
  BY <1>0, <1>b, <1>6, <1>9 DEF W, N

----------------------------------------------------------------------------
(* The migration: recursive definitions and the order of the tables. *)

\* Only yields a sequence.
LEMMA OnlyIsSeq ==
  ASSUME NEW T, NEW s \in Seq(T), NEW wanted
  PROVE  Only(s, wanted) \in Seq(T)
  BY OnlyPlaces

\* A bounded set of numbers has a greatest one.
LEMMA GreatestNumber ==
  ASSUME NEW N \in Nat, NEW S \in SUBSET (1 .. N), S # {}
  PROVE  Max(S) \in S /\ \A m \in S : m <= Max(S)
<1> DEFINE T == {t \in 0 .. N : N - t \in S}
<1>1. T \in SUBSET Nat /\ T # {}
  <2>1. PICK m \in S : TRUE
    OBVIOUS
  <2>2. N - (N - m) = m /\ N - m \in 0 .. N
    OBVIOUS
  <2>3. N - m \in T /\ \A t \in T : t \in Nat
    BY <2>2
  <2> HIDE DEF T
  <2>4. QED
    BY <2>3
<1>2. PICK t \in T : \A u \in T : t <= u
  <2> HIDE DEF T
  <2>1. QED
    BY <1>1, LeastNumber
<1>3. PICK n \in S : n = N - t /\ t \in 0 .. N
  BY <1>2
<1>4. ASSUME NEW m \in S PROVE n >= m
  <2>1. N - (N - m) = m /\ N - m \in 0 .. N
    OBVIOUS
  <2>2. t <= N - m
    BY <1>2, <2>1
  <2>3. QED
    BY <1>3, <2>2
<1>5. QED
  BY <1>4 DEF Max

\* Every name has its position.
LEMMA PositionIsOfName ==
  ASSUME NEW c, c.tables \in Seq(TableConfig), NEW n \in Names(c)
  PROVE  PositionOf(c, n) \in DOMAIN c.tables /\ c.tables[PositionOf(c, n)].name = n
<1> DEFINE S == {i \in Positions(c) : c.tables[i].name = n}
<1>1. Len(c.tables) \in Nat /\ S \in SUBSET (1 .. Len(c.tables)) /\ S # {}
  BY DEF Names, Positions
<1>2. Max(S) \in S
  <2> HIDE DEF S
  <2>1. QED
    BY <1>1, GreatestNumber
<1>3. QED
  BY <1>2 DEF PositionOf, Positions

\* The elements of a sequence are of its set.
LEMMA ElementsOfSeq ==
  ASSUME NEW T, NEW s \in Seq(T)
  PROVE  /\ \A i \in 1 .. Len(s) : s[i] \in T
         /\ \A i \in DOMAIN s : s[i] \in T
OBVIOUS

\* What a foreign key refers to.
Target(c, d) == PositionOf(c, c.tables[d[1]].references[d[2]])

\* The foreign keys of a table to tables that are not done.
Waiting(c, i, done) == {d \in Deps(c, i) : Target(c, d) \notin done}

\* The tables that may come next.
Free(c, nodes, done) == {i \in nodes \ done : Waiting(c, i, done) = {}}

\* The elements of a list, and those before its k-th.
Members(q) == {q[k] : k \in 1 .. Len(q)}
Prior(q, k) == {q[j] : j \in 1 .. k - 1}

LeastIn(x, S) == x \in S /\ \A y \in S : x <= y

\* Every element of the list is the least of those that may come next.
Listed(c, nodes, q) == \A k \in 1 .. Len(q) : LeastIn(q[k], Free(c, nodes, Prior(q, k)))

\* The state of the loop of sort_tables_topologically: the degree of a table is
\* the number of its foreign keys that wait, and the queue has those that may
\* come next.
Loop(c, nodes) ==
  {s \in [degree : [nodes -> Int], queue : SUBSET nodes, result : Seq(nodes)] :
     /\ \A i \in nodes : s.degree[i] = Cardinality(Waiting(c, i, Members(s.result)))
     /\ s.queue = Free(c, nodes, Members(s.result))
     /\ \A i \in Members(s.result) : Waiting(c, i, Members(s.result)) = {}
     /\ Listed(c, nodes, s.result)}

\* The foreign keys of a table are finitely many.
LEMMA DepsFinite ==
  ASSUME NEW c, c.tables \in Seq(TableConfig), NEW i
  PROVE  IsFiniteSet(Deps(c, i))
<1> DEFINE keys(j) == {j} \X DOMAIN c.tables[j].references
           all == {keys(j) : j \in Positions(c)}
<1>0. \A b \in Int : IsFiniteSet(1 .. b)
  BY FS_Interval
<1>1. IsFiniteSet(Positions(c))
  <2>1. Positions(c) = 1 .. Len(c.tables) /\ Len(c.tables) \in Int
    BY DEF Positions
  <2>2. QED
    BY <1>0, <2>1
<1>2. ASSUME NEW j \in Positions(c) PROVE IsFiniteSet(keys(j))
  <2> DEFINE q == c.tables[j].references
  <2>1. q \in Seq(STRING)
    <3>1. c.tables[j] \in TableConfig
      BY DEF Positions
    <3>2. QED
      BY <3>1 DEF TableConfig
  <2> HIDE DEF q
  <2>2. DOMAIN q = 1 .. Len(q) /\ Len(q) \in Int
    BY <2>1
  <2>3. IsFiniteSet(DOMAIN q) /\ IsFiniteSet({j})
    BY <1>0, <2>2, FS_Singleton
  <2>4. IsFiniteSet({j} \X DOMAIN q)
    BY <2>3, FS_Product
  <2>5. QED
    BY <2>4 DEF q
<1>3. IsFiniteSet(all) /\ \A T \in all : IsFiniteSet(T)
  <2>1. \A T \in all : IsFiniteSet(T)
    BY <1>2
  <2> HIDE DEF keys
  <2>2. IsFiniteSet(all)
    <3> DEFINE f == [j \in Positions(c) |-> keys(j)]
    <3>1. f \in Surjection(Positions(c), all)
      BY DEF Surjection
    <3> HIDE DEF f, all
    <3>2. QED
      BY <1>1, <3>1, FS_Surjection
  <2>3. QED
    BY <2>1, <2>2
<1>4. IsFiniteSet(UNION all)
  <2> HIDE DEF all
  <2>1. QED
    BY <1>3, FS_UNION
<1>5. Deps(c, i) \in SUBSET UNION all
  BY DEF Deps
<1> HIDE DEF all
<1>6. QED
  BY <1>4, <1>5, FS_Subset

\* What a list grows by.
LEMMA MembersAppend ==
  ASSUME NEW T, NEW q \in Seq(T), NEW p \in T
  PROVE  /\ Append(q, p) \in Seq(T) /\ Len(Append(q, p)) = Len(q) + 1
         /\ Members(Append(q, p)) = Members(q) \cup {p}
         /\ \A k \in 1 .. Len(q) : Append(q, p)[k] = q[k] /\ Prior(Append(q, p), k) = Prior(q, k)
         /\ Append(q, p)[Len(q) + 1] = p
         /\ Prior(Append(q, p), Len(q) + 1) = Members(q)
<1> DEFINE a == Append(q, p)
<1>1. /\ a \in Seq(T) /\ Len(a) = Len(q) + 1 /\ Len(q) \in Nat
      /\ \A k \in 1 .. Len(q) : a[k] = q[k]
      /\ a[Len(q) + 1] = p
  OBVIOUS
<1> HIDE DEF a
<1>2. Members(a) = Members(q) \cup {p}
  <2>1. \A k \in 1 .. Len(a) : k \in 1 .. Len(q) \/ k = Len(q) + 1
    BY <1>1
  <2>2. \A k \in 1 .. Len(q) : k \in 1 .. Len(a)
    BY <1>1
  <2>3. Len(q) + 1 \in 1 .. Len(a)
    BY <1>1
  <2>4. QED
    BY <1>1, <2>1, <2>2, <2>3 DEF Members
<1>3. ASSUME NEW k \in 1 .. Len(q) PROVE Prior(a, k) = Prior(q, k)
  <2>1. \A j \in 1 .. k - 1 : j \in 1 .. Len(q)
    BY <1>1
  <2>2. QED
    BY <1>1, <2>1 DEF Prior
<1>4. Prior(a, Len(q) + 1) = Members(q)
  <2>1. 1 .. Len(q) + 1 - 1 = 1 .. Len(q)
    BY <1>1
  <2>2. QED
    BY <1>1, <2>1 DEF Prior, Members
<1>5. QED
  BY <1>1, <1>2, <1>3, <1>4 DEF a

\* Once a table is done, the keys to it wait no more.
LEMMA WaitingAfter ==
  ASSUME NEW c, c.tables \in Seq(TableConfig), NEW i, NEW done, NEW p, p \notin done
  PROVE  /\ Waiting(c, i, done \cup {p}) \subseteq Waiting(c, i, done)
         /\ Cardinality(Waiting(c, i, done)) \in Nat
         /\ Cardinality(Waiting(c, i, done \cup {p})) =
              Cardinality(Waiting(c, i, done)) - Cardinality(DepsOn(c, i, p))
         /\ Cardinality(Waiting(c, i, done)) = 0 <=> Waiting(c, i, done) = {}
<1> DEFINE W == Waiting(c, i, done)
           V == Waiting(c, i, done \cup {p})
           D == DepsOn(c, i, p)
<1>1. V = W \ D /\ W \cap D = D
  BY DEF Waiting, DepsOn, Target
<1>2. IsFiniteSet(W)
  <2>1. W \subseteq Deps(c, i)
    BY DEF Waiting
  <2> HIDE DEF W
  <2>2. QED
    BY <2>1, DepsFinite, FS_Subset
<1> HIDE DEF W, V, D
<1>3. Cardinality(V) = Cardinality(W) - Cardinality(D)
  BY <1>1, <1>2, FS_Difference
<1>4. Cardinality(W) \in Nat /\ (Cardinality(W) = 0 <=> W = {})
  BY <1>2, FS_CardinalityType, FS_EmptySet
<1>5. QED
  BY <1>1, <1>3, <1>4 DEF W, V, D

\* A turn of the loop keeps it, and lists one more table unless there is none.
LEMMA TurnLoops ==
  ASSUME NEW c, c.tables \in Seq(TableConfig), NEW nodes \in SUBSET Nat, NEW s \in Loop(c, nodes)
  PROVE  /\ Turn(c, s) \in Loop(c, nodes)
         /\ s.queue = {} => Turn(c, s) = s
         /\ s.queue # {} => Len(Turn(c, s).result) = Len(s.result) + 1
<1>1. CASE s.queue = {}
  BY <1>1 DEF Turn
<1>2. CASE s.queue # {}
  <2> DEFINE p == Min(s.queue)
             done == Members(s.result)
             degree == [i \in DOMAIN s.degree |-> s.degree[i] - Cardinality(DepsOn(c, i, p))]
             queue == (s.queue \ {p}) \cup {i \in DOMAIN degree : degree[i] = 0 /\ s.degree[i] # 0}
             result == Append(s.result, p)
             t == [degree |-> degree, queue |-> queue, result |-> result]
  <2>1. Turn(c, s) = t
    BY <1>2 DEF Turn
  <2>2. /\ s.degree \in [nodes -> Int] /\ s.queue \in SUBSET nodes /\ s.result \in Seq(nodes)
        /\ \A i \in nodes : s.degree[i] = Cardinality(Waiting(c, i, done))
        /\ s.queue = Free(c, nodes, done)
        /\ \A i \in done : Waiting(c, i, done) = {}
        /\ Listed(c, nodes, s.result)
    BY DEF Loop
  <2>3. LeastIn(p, s.queue)
    <3>1. \E x \in s.queue : \A y \in s.queue : x =< y
      BY <1>2, <2>2, LeastNumber
    <3>2. QED
      BY <3>1 DEF Min, LeastIn
  <2> HIDE DEF p
  <2>4. p \in nodes /\ p \notin done /\ Waiting(c, p, done) = {}
    BY <2>2, <2>3 DEF Free, LeastIn
  <2>5. /\ result \in Seq(nodes) /\ Len(result) = Len(s.result) + 1
        /\ Members(result) = done \cup {p}
        /\ \A k \in 1 .. Len(s.result) : result[k] = s.result[k] /\ Prior(result, k) = Prior(s.result, k)
        /\ result[Len(s.result) + 1] = p /\ Prior(result, Len(s.result) + 1) = done
    BY <2>2, <2>4, MembersAppend
  <2>a. Len(s.result) \in Nat
    BY <2>2
  <2>b. DOMAIN s.degree = nodes /\ DOMAIN degree = nodes
    BY <2>2
  <2> HIDE DEF result, done
  <2>6. \A i \in nodes :
          /\ Waiting(c, i, done \cup {p}) \subseteq Waiting(c, i, done)
          /\ degree[i] = Cardinality(Waiting(c, i, done \cup {p})) /\ degree[i] \in Int
          /\ s.degree[i] # 0 <=> Waiting(c, i, done) # {}
    <3> SUFFICES ASSUME NEW i \in nodes
                 PROVE  /\ Waiting(c, i, done \cup {p}) \subseteq Waiting(c, i, done)
                        /\ degree[i] = Cardinality(Waiting(c, i, done \cup {p})) /\ degree[i] \in Int
                        /\ s.degree[i] # 0 <=> Waiting(c, i, done) # {}
      OBVIOUS
    <3>1. degree[i] = s.degree[i] - Cardinality(DepsOn(c, i, p))
      BY <2>b
    <3>2. s.degree[i] = Cardinality(Waiting(c, i, done))
      BY <2>2
    <3>3. /\ Waiting(c, i, done \cup {p}) \subseteq Waiting(c, i, done)
          /\ Cardinality(Waiting(c, i, done)) \in Nat
          /\ Cardinality(Waiting(c, i, done \cup {p})) =
               Cardinality(Waiting(c, i, done)) - Cardinality(DepsOn(c, i, p))
          /\ Cardinality(Waiting(c, i, done)) = 0 <=> Waiting(c, i, done) = {}
      BY <2>4, WaitingAfter
    <3>4. Cardinality(Waiting(c, i, done \cup {p})) \in Int
      <4>1. Waiting(c, i, done \cup {p}) \subseteq Deps(c, i)
        BY DEF Waiting
      <4>2. IsFiniteSet(Waiting(c, i, done \cup {p}))
        BY <4>1, DepsFinite, FS_Subset
      <4>3. QED
        BY <4>2, FS_CardinalityType
    <3> HIDE DEF degree
    <3>5. QED
      BY <3>1, <3>2, <3>3, <3>4
  <2>7. degree \in [nodes -> Int]
    BY <2>b, <2>6
  <2> HIDE DEF degree
  <2>8. \A i \in nodes : degree[i] = 0 <=> Waiting(c, i, done \cup {p}) = {}
    <3> SUFFICES ASSUME NEW i \in nodes
                 PROVE  degree[i] = 0 <=> Waiting(c, i, done \cup {p}) = {}
      OBVIOUS
    <3> DEFINE V == Waiting(c, i, done \cup {p})
    <3>1. V \subseteq Deps(c, i) /\ degree[i] = Cardinality(V)
      BY <2>6 DEF Waiting
    <3> HIDE DEF V
    <3>2. IsFiniteSet(V)
      BY <3>1, DepsFinite, FS_Subset
    <3>3. Cardinality(V) = 0 <=> V = {}
      BY <3>2, FS_EmptySet
    <3>4. QED
      BY <3>1, <3>3 DEF V
  <2>9. queue = Free(c, nodes, done \cup {p})
    <3>1. ASSUME NEW i \in queue PROVE i \in Free(c, nodes, done \cup {p})
      <4>1. CASE i \in s.queue \ {p}
        BY <2>2, <2>6, <4>1 DEF Free
      <4>2. CASE i \in nodes /\ degree[i] = 0 /\ s.degree[i] # 0
        BY <2>2, <2>4, <2>6, <2>8, <4>2 DEF Free
      <4>3. QED
        BY <2>b, <3>1, <4>1, <4>2
    <3>2. ASSUME NEW i \in Free(c, nodes, done \cup {p}) PROVE i \in queue
      <4>1. i \in nodes /\ i \notin done /\ i # p /\ Waiting(c, i, done \cup {p}) = {}
        BY <3>2 DEF Free
      <4>2. CASE Waiting(c, i, done) = {}
        BY <2>2, <4>1, <4>2 DEF Free
      <4>3. CASE Waiting(c, i, done) # {}
        BY <2>b, <2>6, <2>8, <4>1, <4>3
      <4>4. QED
        BY <4>2, <4>3
    <3>3. QED
      BY <3>1, <3>2
  <2>10. queue \in SUBSET nodes
    BY <2>9 DEF Free
  <2> HIDE DEF queue
  <2>11. \A i \in done \cup {p} : i \in nodes => Waiting(c, i, done \cup {p}) = {}
    BY <2>2, <2>4, <2>6
  <2>12. \A i \in done : i \in nodes
    BY <2>2, ElementsOfSeq DEF Members, done
  <2>13. Listed(c, nodes, result)
    <3> SUFFICES ASSUME NEW k \in 1 .. Len(result)
                 PROVE  LeastIn(result[k], Free(c, nodes, Prior(result, k)))
      BY DEF Listed
    <3>1. k \in 1 .. Len(s.result) \/ k = Len(s.result) + 1
      BY <2>5, <2>a
    <3>2. CASE k \in 1 .. Len(s.result)
      BY <2>2, <2>5, <3>2 DEF Listed
    <3>3. CASE k = Len(s.result) + 1
      BY <2>2, <2>3, <2>5, <3>3
    <3>4. QED
      BY <3>1, <3>2, <3>3
  <2>14. t \in Loop(c, nodes)
    <3>1. t.degree = degree /\ t.queue = queue /\ t.result = result
      OBVIOUS
    <3>2. t \in [degree : [nodes -> Int], queue : SUBSET nodes, result : Seq(nodes)]
      BY <2>5, <2>7, <2>10
    <3> HIDE DEF t
    <3>3. Members(t.result) = done \cup {p} /\ Listed(c, nodes, t.result)
      BY <2>5, <2>13, <3>1
    <3>4. \A i \in nodes : t.degree[i] = Cardinality(Waiting(c, i, Members(t.result)))
      BY <2>6, <3>1, <3>3
    <3>5. t.queue = Free(c, nodes, Members(t.result))
      BY <2>9, <3>1, <3>3
    <3>6. \A i \in Members(t.result) : Waiting(c, i, Members(t.result)) = {}
      BY <2>4, <2>11, <2>12, <3>3
    <3>7. QED
      BY <3>2, <3>3, <3>4, <3>5, <3>6 DEF Loop
  <2>15. Len(t.result) = Len(s.result) + 1
    BY <2>5
  <2>16. QED
    BY <1>2, <2>1, <2>14, <2>15
<1>3. QED
  BY <1>1, <1>2

NodesOf(c) == {PositionOf(c, n) : n \in Names(c)}

\* The first state of the loop.
LoopStart(c) ==
  LET degree == [i \in NodesOf(c) |-> Cardinality(Deps(c, i))]
  IN [degree |-> degree, queue |-> {i \in NodesOf(c) : degree[i] = 0}, result |-> <<>>]

LEMMA LoopStarts ==
  ASSUME NEW c, c.tables \in Seq(TableConfig)
  PROVE  LoopStart(c) \in Loop(c, NodesOf(c))
<1> DEFINE nodes == NodesOf(c)
           degree == [i \in nodes |-> Cardinality(Deps(c, i))]
           queue == {i \in nodes : degree[i] = 0}
           s == [degree |-> degree, queue |-> queue, result |-> <<>>]
<1>1. s = LoopStart(c)
  BY DEF LoopStart
<1> HIDE DEF nodes
<1>2. \A i \in nodes : /\ Cardinality(Deps(c, i)) \in Int
                       /\ Cardinality(Deps(c, i)) = 0 <=> Deps(c, i) = {}
  <2> SUFFICES ASSUME NEW i \in nodes
               PROVE  /\ Cardinality(Deps(c, i)) \in Int
                      /\ Cardinality(Deps(c, i)) = 0 <=> Deps(c, i) = {}
    OBVIOUS
  <2>1. IsFiniteSet(Deps(c, i))
    BY DepsFinite
  <2>2. QED
    BY <2>1, FS_CardinalityType, FS_EmptySet
<1>3. \A i : Waiting(c, i, {}) = Deps(c, i)
  BY DEF Waiting
<1>4. degree \in [nodes -> Int] /\ \A i \in nodes : degree[i] = Cardinality(Waiting(c, i, {}))
  BY <1>2, <1>3
<1>5. queue = Free(c, nodes, {})
  BY <1>2, <1>3 DEF Free
<1>6. queue \in SUBSET nodes
  OBVIOUS
<1> HIDE DEF degree, queue
<1>7. Members(<<>>) = {} /\ Listed(c, nodes, <<>>) /\ <<>> \in Seq(nodes)
  BY DEF Members, Listed
<1>8. s \in Loop(c, nodes)
  <2>1. s.degree = degree /\ s.queue = queue /\ s.result = <<>>
    OBVIOUS
  <2>2. s \in [degree : [nodes -> Int], queue : SUBSET nodes, result : Seq(nodes)]
    BY <1>4, <1>6, <1>7
  <2> HIDE DEF s
  <2>3. QED
    BY <1>4, <1>5, <1>7, <2>1, <2>2 DEF Loop
<1>9. QED
  BY <1>1, <1>8 DEF nodes

\* After as many turns as there are tables the loop has listed them all, or
\* those that are left all wait.
LEMMA SortedLoops ==
  ASSUME NEW c, c.tables \in Seq(TableConfig)
  PROVE  /\ NodesOf(c) \in SUBSET (1 .. Len(c.tables))
         /\ \E s \in Loop(c, NodesOf(c)) :
              Sorted(c) = s.result /\ (Len(s.result) = Len(c.tables) \/ s.queue = {})
<1> DEFINE N == Len(c.tables)
           nodes == {PositionOf(c, n) : n \in Names(c)}
           degree == [i \in nodes |-> Cardinality(Deps(c, i))]
           start == [degree |-> degree, queue |-> {i \in nodes : degree[i] = 0},
                     result |-> <<>>]
           After(f) == [n \in 0 .. N |-> IF n = 0 THEN start ELSE Turn(c, f[n - 1])]
           D == Loop(c, NodesOf(c))
           next == [p \in (1 .. N) \X D |-> Turn(c, p[2])]
<1>1. N \in Nat /\ DOMAIN c.tables = 1 .. N /\ NodesOf(c) \in SUBSET (1 .. N)
  BY PositionIsOfName DEF NodesOf
<1>2. start \in D
  <2>1. start = LoopStart(c)
    BY DEF LoopStart, NodesOf
  <2> HIDE DEF start
  <2>2. QED
    BY <2>1, LoopStarts
<1>3. (\E f : f = After(f)) => \E g : g = After(g) /\ Sorted(c) = g[N].result
  BY DEF Sorted
<1>c. Len(start.result) = 0
  OBVIOUS
<1> HIDE DEF N, start, nodes
<1>4. \A x \in D : /\ Turn(c, x) \in D
                   /\ x.queue = {} => Turn(c, x) = x
                   /\ x.queue # {} => Len(Turn(c, x).result) = Len(x.result) + 1
  <2>1. NodesOf(c) \in SUBSET Nat
    BY <1>1
  <2>2. QED
    BY <2>1, TurnLoops
<1>b. N \in Nat
  BY <1>1
<1> HIDE DEF D
<1>5. next \in Nexts(N, D)
  BY <1>4 DEF Nexts
<1>6. \A i \in 1 .. N, x \in D : next[<<i, x>>] = Turn(c, x)
  OBVIOUS
<1> HIDE DEF next
<1>7. PICK f \in [0 .. N -> D] :
        f[0] = start /\ \A n \in 1 .. N : f[n] = next[<<n, f[n - 1]>>]
  <2>1. Recursive(N, D, start, next)
    BY <1>b, <1>2, <1>5, Recursion
  <2>2. QED
    BY <2>1 DEF Recursive
<1>8. f = After(f)
  <2>1. \A n \in 1 .. N : f[n - 1] \in D /\ n # 0
    BY <1>1
  <2>2. \A n \in 1 .. N : f[n] = Turn(c, f[n - 1])
    BY <1>6, <1>7, <2>1
  <2>3. \A n \in 0 .. N : f[n] = IF n = 0 THEN start ELSE Turn(c, f[n - 1])
    BY <1>1, <1>7, <2>2
  <2>4. QED
    BY <2>3
<1>9. PICK g : g = After(g) /\ Sorted(c) = g[N].result
  BY <1>3, <1>8
<1>10. g[0] = start /\ \A n \in 1 .. N : g[n] = Turn(c, g[n - 1])
  BY <1>1, <1>9
<1>11. g[0] \in D /\ \A n \in 1 .. N : g[n - 1] \in D => g[n] \in D
  BY <1>2, <1>4, <1>10
<1>12. \A n \in 0 .. N : g[n] \in D
  BY <1>1, <1>11, Stays
<1> DEFINE S == {n \in 0 .. N : Len(g[n].result) = n \/ g[n].queue = {}}
<1>13. 0 \in S
  BY <1>b, <1>c, <1>10
<1>14. ASSUME NEW n \in 1 .. N, n - 1 \in S PROVE n \in S
  <2>1. n \in 0 .. N /\ n - 1 \in 0 .. N /\ n - 1 + 1 = n
    BY <1>b
  <2>2. g[n - 1] \in D /\ g[n] = Turn(c, g[n - 1])
    BY <1>10, <1>12, <2>1
  <2>3. CASE g[n - 1].queue = {}
    BY <1>4, <2>1, <2>2, <2>3
  <2>4. CASE g[n - 1].queue # {}
    <3>1. Len(g[n - 1].result) = n - 1
      BY <1>14, <2>4
    <3>2. Len(g[n].result) = n - 1 + 1
      BY <1>4, <2>2, <2>4, <3>1
    <3>3. QED
      BY <2>1, <3>2
  <2>5. QED
    BY <2>3, <2>4
<1>15. N \in S
  <2>1. N \in 0 .. N
    BY <1>b
  <2> HIDE DEF S
  <2>2. QED
    BY <1>b, <1>13, <1>14, <2>1, UpToN
<1>16. g[N] \in D
  BY <1>b, <1>12
<1>17. QED
  BY <1>1, <1>9, <1>15, <1>16 DEF N, D

\* A list without repetitions of numbers up to N is as long as N only if it
\* has them all.
LEMMA FullList ==
  ASSUME NEW N \in Nat, NEW q \in Seq(1 .. N), \A k, l \in 1 .. Len(q) : q[k] = q[l] => k = l
  PROVE  Len(q) = N <=> Members(q) = 1 .. N
<1> DEFINE L == Len(q)
           M == Members(q)
<1>1. L \in Nat /\ M \in SUBSET (1 .. N) /\ \A k \in 1 .. L : q[k] \in M
  BY ElementsOfSeq DEF Members
<1>2. q \in Bijection(1 .. L, M)
  <2>1. q \in [1 .. L -> M] /\ \A t \in M : \E k \in 1 .. L : q[k] = t
    BY DEF Members
  <2> HIDE DEF M
  <2>2. QED
    BY <2>1 DEF Bijection, Injection, Surjection, IsInjective
<1> HIDE DEF L, M
<1>3. /\ IsFiniteSet(1 .. N) /\ Cardinality(1 .. N) = N
      /\ IsFiniteSet(1 .. L) /\ Cardinality(1 .. L) = L
  <2>1. \A b \in Nat : IsFiniteSet(1 .. b) /\ Cardinality(1 .. b) = b
    <3> SUFFICES ASSUME NEW b \in Nat PROVE IsFiniteSet(1 .. b) /\ Cardinality(1 .. b) = b
      OBVIOUS
    <3>1. \A a, d \in Int : IsFiniteSet(a .. d) /\ Cardinality(a .. d) = IF a > d THEN 0 ELSE d - a + 1
      BY FS_Interval
    <3>2. QED
      BY <3>1
  <2>2. QED
    BY <1>1, <2>1
<1>4. IsFiniteSet(M) /\ Cardinality(M) = L
  <2>1. ExistsBijection(1 .. L, M)
    BY <1>2 DEF ExistsBijection
  <2>2. QED
    BY <1>3, <2>1, FS_Bijection
<1>5. Cardinality(M) = N => M = 1 .. N
  BY <1>1, <1>3, FS_Subset
<1>6. QED
  BY <1>3, <1>4, <1>5 DEF L, M

\* What has been listed is listed once.
LEMMA ListedOnce ==
  ASSUME NEW c, NEW nodes \in SUBSET Nat, NEW q \in Seq(nodes), Listed(c, nodes, q)
  PROVE  \A k, l \in 1 .. Len(q) : q[k] = q[l] => k = l
<1>1. ASSUME NEW k \in 1 .. Len(q), NEW l \in 1 .. Len(q), k < l PROVE q[k] # q[l]
  <2>1. q[l] \notin Prior(q, l)
    BY DEF Listed, LeastIn, Free
  <2>2. k \in 1 .. l - 1
    BY <1>1
  <2>3. QED
    BY <2>1, <2>2 DEF Prior
<1>2. \A k, l \in 1 .. Len(q) : k < l \/ l < k \/ k = l
  OBVIOUS
<1>3. QED
  BY <1>1, <1>2

\* A configuration that is not refused: no two tables share a name, and the
\* order is one of all its tables, each the first of those that may come next.
LEMMA AcceptedOrder ==
  ASSUME NEW c, c.tables \in Seq(TableConfig), ~Circular(c)
  PROVE  /\ Sorted(c) \in Seq(DOMAIN c.tables) /\ Len(Sorted(c)) = Len(c.tables)
         /\ \A i, j \in DOMAIN c.tables : c.tables[i].name = c.tables[j].name => i = j
         /\ \A i \in DOMAIN c.tables : \E k \in DOMAIN Sorted(c) : Sorted(c)[k] = i
         /\ \A k, l \in DOMAIN Sorted(c) : Sorted(c)[k] = Sorted(c)[l] => k = l
         /\ Listed(c, DOMAIN c.tables, Sorted(c))
<1> DEFINE N == Len(c.tables)
           nodes == NodesOf(c)
           order == Sorted(c)
<1>1. N \in Nat /\ DOMAIN c.tables = 1 .. N /\ nodes \in SUBSET (1 .. N) /\ nodes \in SUBSET Nat
  BY SortedLoops
<1>2. order \in Seq(nodes) /\ Listed(c, nodes, order) /\ Len(order) = N
  BY SortedLoops DEF Loop, Circular
<1> HIDE DEF nodes, order, N
<1>3. \A k, l \in 1 .. Len(order) : order[k] = order[l] => k = l
  BY <1>1, <1>2, ListedOnce
<1>4. order \in Seq(1 .. N) /\ \A k \in 1 .. Len(order) : order[k] \in nodes
  <2>1. \A T, U, q : T \in SUBSET U /\ q \in Seq(T) => q \in Seq(U)
    OBVIOUS
  <2>2. order \in Seq(1 .. N)
    BY <1>1, <1>2, <2>1
  <2>3. QED
    BY <1>2, <2>2, ElementsOfSeq
<1>5. Members(order) = 1 .. N
  BY <1>1, <1>2, <1>3, <1>4, FullList
<1>6. nodes = 1 .. N
  BY <1>1, <1>4, <1>5 DEF Members
<1>7. \A i \in 1 .. N : i = PositionOf(c, c.tables[i].name)
  BY <1>6, PositionIsOfName DEF nodes, NodesOf
<1>8. DOMAIN order = 1 .. N /\ \A i \in 1 .. N : \E k \in 1 .. N : order[k] = i
  BY <1>2, <1>5 DEF Members
<1>9. \A i, j \in 1 .. N : c.tables[i].name = c.tables[j].name => i = j
  BY <1>7
<1>10. Listed(c, DOMAIN c.tables, order) /\ order \in Seq(DOMAIN c.tables)
  BY <1>1, <1>2, <1>6
<1>11. /\ \A i, j \in DOMAIN c.tables : c.tables[i].name = c.tables[j].name => i = j
       /\ \A i \in DOMAIN c.tables : \E k \in DOMAIN order : order[k] = i
       /\ \A k, l \in DOMAIN order : order[k] = order[l] => k = l
  BY <1>1, <1>2, <1>3, <1>8, <1>9
<1>12. QED
  BY <1>2, <1>10, <1>11 DEF order, N

\* The elements of a sequence are finitely many.
LEMMA ToSetIsFinite ==
  ASSUME NEW T, NEW s \in Seq(T)
  PROVE  IsFiniteSet(ToSet(s))
<1>1. /\ Len(s) \in Nat /\ s \in [1 .. Len(s) -> ToSet(s)]
      /\ \A t \in ToSet(s) : \E i \in 1 .. Len(s) : s[i] = t
  BY DEF ToSet
<1>2. s \in Surjection(1 .. Len(s), ToSet(s))
  <2>1. ASSUME NEW A, NEW B, NEW f \in [A -> B], \A t \in B : \E i \in A : f[i] = t
        PROVE  f \in Surjection(A, B)
    BY <2>1 DEF Surjection
  <2>2. QED
    BY <1>1, <2>1
<1>3. IsFiniteSet(1 .. Len(s))
  <2>1. \A b \in Int : IsFiniteSet(1 .. b)
    BY FS_Interval
  <2>2. Len(s) \in Int
    BY <1>1
  <2>3. QED
    BY <2>1, <2>2
<1>4. QED
  BY <1>2, <1>3, FS_Surjection

\* SetToSeq yields a sequence of the elements.
LEMMA SetToSeqIsSeq ==
  ASSUME NEW S, IsFiniteSet(S)
  PROVE  SetToSeq(S) \in Seq(S)
<1>1. Cardinality(S) \in Nat /\ \E f \in [1 .. Cardinality(S) -> S] : IsInjective(f)
  BY FS_CardinalityType DEF ExistsBijection, Bijection, Injection
<1>2. SetToSeq(S) \in [1 .. Cardinality(S) -> S]
  BY <1>1 DEF SetToSeq
<1>3. QED
  BY <1>1, <1>2

----------------------------------------------------------------------------
(* The migration: what its statements may take away. *)

Places == {Place(conf.tables[i]) : i \in DOMAIN conf.tables}

AnyColumn == STRING \cup {FilePath} \cup UNION Existing

AnyStatement ==
  [op : {"create", "add", "add_media", "drop", "index"}, table : STRING \X STRING,
   column : AnyColumn]

\* A column that the database allows to be dropped and the file does not name.
Lawful(s) ==
  /\ conf.destructive
  /\ s.table \in Places /\ conf.auto[s.table[1]]
  /\ s.column \notin ColumnsOf(s.table)

LawfulSeq(left) ==
  left \in Seq(AnyStatement) /\ \A k \in 1 .. Len(left) : left[k].op = "drop" => Lawful(left[k])

Records(P, R, O, L) ==
  [pc : P, result : R, order : O, at : Nat, left : L, alone : BOOLEAN, faultless : BOOLEAN]

Pcs == {"ended", "columns", "alter", "index", "media"}

AnyMigrator ==
  Records(Pcs, {"none", "done", "failed"}, Seq(DOMAIN conf.tables), Seq(AnyStatement))

MigratorOK(r) ==
  /\ r \in AnyMigrator
  /\ r.pc # "ended" => ~Circular(conf)
  /\ r.pc = "media" => r.at # 0
  /\ r.pc \in {"columns", "alter", "index"} =>
       r.at \in 1 .. Len(r.order) /\ conf.auto[conf.tables[r.order[r.at]].database]
  /\ LawfulSeq(r.left)

MigrationInv ==
  /\ conf \in Configurations
  /\ DOMAIN schema = Places /\ DOMAIN first = Places
  /\ \A t \in Places : schema[t] \in SUBSET AnyColumn /\ IsFiniteSet(schema[t])
  /\ DOMAIN migrators = Migrators
  /\ \A m \in Migrators : MigratorOK(migrators[m])
  /\ DeclaredDataKept

\* A place is a database and a name.
LEMMA PlacesAreNames ==
  ASSUME MigrationInv
  PROVE  Places \subseteq STRING \X STRING
<1>1. conf.tables \in Seq(TableConfig)
  BY MigrationAssumption DEF MigrationInv
<1>2. \A i \in DOMAIN conf.tables : conf.tables[i] \in TableConfig
  BY <1>1
<1>3. \A t \in TableConfig : Place(t) \in STRING \X STRING
  BY DEF Place, TableConfig
<1>4. QED
  BY <1>2, <1>3 DEF Places

\* At first nobody has touched anything.
LEMMA MigrationInitInv == MigrationInit => MigrationInv
<1> SUFFICES ASSUME MigrationInit PROVE MigrationInv
  OBVIOUS
<1>1. /\ conf \in Configurations /\ schema \in [Places -> Existing] /\ first = schema
      /\ migrators = [m \in Migrators |-> NotStarted]
      /\ data = UNION {{<<t, a>> : a \in schema[t]} : t \in DOMAIN schema}
  BY DEF MigrationInit, Places
<1>2. \A t \in Places : schema[t] \in SUBSET AnyColumn /\ IsFiniteSet(schema[t])
  <2>1. \A e \in Existing : e \in SUBSET AnyColumn /\ IsFiniteSet(e)
    BY MigrationAssumption DEF AnyColumn
  <2>2. QED
    BY <1>1, <2>1
<1>3. MigratorOK(NotStarted)
  BY DEF MigratorOK, AnyMigrator, Records, Pcs, NotStarted, LawfulSeq
<1>4. DeclaredDataKept
  <2>1. \A t \in DOMAIN schema : \A a \in first[t] : <<t, a>> \in data
    BY <1>1
  <2>2. QED
    BY <2>1 DEF DeclaredDataKept
<1>5. QED
  BY <1>1, <1>2, <1>3, <1>4 DEF MigrationInv

\* The table a migration is at is one of the file, and the only one of its
\* place: without two of a name there are not two of a place.
LEMMA TableOfMigrator ==
  ASSUME MigrationInv, NEW m \in Migrators, migrators[m].pc \in {"columns", "alter", "index"}
  PROVE  /\ TableAt(m) \in TableConfig /\ Place(TableAt(m)) \in Places
         /\ Declaration(Place(TableAt(m))) = TableAt(m)
         /\ conf.auto[TableAt(m).database]
<1> DEFINE r == migrators[m]
           i == r.order[r.at]
<1>1. /\ conf.tables \in Seq(TableConfig) /\ MigratorOK(r) /\ ~Circular(conf)
      /\ r.order \in Seq(DOMAIN conf.tables)
      /\ r.at \in 1 .. Len(r.order) /\ conf.auto[conf.tables[r.order[r.at]].database]
  BY MigrationAssumption DEF MigrationInv, MigratorOK, AnyMigrator, Records
<1>2. i \in DOMAIN conf.tables /\ TableAt(m) = conf.tables[i] /\ TableAt(m) \in TableConfig
  <2>1. i \in DOMAIN conf.tables
    BY <1>1, ElementsOfSeq
  <2> HIDE DEF i
  <2>2. conf.tables[i] \in TableConfig
    BY <1>1, <2>1, ElementsOfSeq
  <2>3. QED
    BY <2>1, <2>2 DEF TableAt, i
<1>3. \A j, k \in DOMAIN conf.tables : conf.tables[j].name = conf.tables[k].name => j = k
  BY <1>1, AcceptedOrder
<1> HIDE DEF i
<1>4. \A j \in DOMAIN conf.tables : Place(conf.tables[j]) = Place(conf.tables[i]) => j = i
  BY <1>2, <1>3 DEF Place
<1>5. Declaration(Place(conf.tables[i])) = conf.tables[i]
  BY <1>2, <1>4 DEF Declaration
<1>6. QED
  BY <1>1, <1>2, <1>5 DEF Places, TableAt

\* Statements that are no drops are lawful.
LEMMA StatementsAreLawful ==
  ASSUME NEW t \in TableConfig, NEW columns \in Seq(AnyColumn),
         NEW op \in {"create", "add", "add_media", "index"}
  PROVE  LawfulSeq(Statements(op, t, columns))
<1>1. Place(t) \in STRING \X STRING
  BY DEF Place, TableConfig
<1>2. \A k \in DOMAIN columns : columns[k] \in AnyColumn
  OBVIOUS
<1>3. \A k \in DOMAIN columns : Statement(op, t, columns[k]) \in AnyStatement
  BY <1>1, <1>2 DEF Statement, AnyStatement
<1>4. \A a : Statement(op, t, a).op = op /\ op # "drop"
  BY DEF Statement
<1> HIDE DEF AnyStatement
<1>5. QED
  BY <1>3, <1>4 DEF LawfulSeq, Statements

\* What alter_existing_table drops is not named by the file.
LEMMA DropsAreLawful ==
  ASSUME NEW t \in TableConfig, Place(t) \in Places, Declaration(Place(t)) = t,
         conf.auto[t.database],
         NEW existing \in SUBSET AnyColumn, IsFiniteSet(existing)
  PROVE  LawfulSeq(Statements("drop", t, SetToSeq(Droppable(t, existing))))
<1> DEFINE gone == Droppable(t, existing)
           columns == SetToSeq(gone)
<1>1. gone \in SUBSET existing /\ \A a \in gone : conf.destructive /\ a \notin ToSet(t.columns)
  BY DEF Droppable
<1> HIDE DEF gone
<1>2. columns \in Seq(gone)
  <2>1. IsFiniteSet(gone)
    BY <1>1, FS_Subset
  <2>2. QED
    BY <2>1, SetToSeqIsSeq
<1> HIDE DEF columns
<1>3. ASSUME NEW a \in gone
      PROVE  Statement("drop", t, a) \in AnyStatement /\ Lawful(Statement("drop", t, a))
  <2>1. Place(t) \in STRING \X STRING /\ Place(t)[1] = t.database
    BY DEF Place, TableConfig
  <2>2. a \in AnyColumn /\ conf.destructive /\ a \notin ColumnsOf(Place(t))
    BY <1>1 DEF ColumnsOf
  <2>3. Statement("drop", t, a) \in AnyStatement
    BY <2>1, <2>2 DEF Statement, AnyStatement
  <2>4. /\ Statement("drop", t, a).table = Place(t)
        /\ Statement("drop", t, a).column = a
    BY DEF Statement
  <2>5. QED
    BY <2>1, <2>2, <2>3, <2>4 DEF Lawful
<1> HIDE DEF AnyStatement, Lawful, Statement
<1>4. \A k \in DOMAIN columns : columns[k] \in gone
  BY <1>2
<1>5. LawfulSeq(Statements("drop", t, columns))
  BY <1>2, <1>3, <1>4 DEF LawfulSeq, Statements
<1>6. QED
  BY <1>5 DEF columns, gone

\* Two lawful sequences, one after the other, and what is left of one.
LEMMA LawfulConcat ==
  ASSUME NEW a, NEW b, LawfulSeq(a), LawfulSeq(b)
  PROVE  LawfulSeq(a \o b)
<1>1. /\ a \in Seq(AnyStatement) /\ b \in Seq(AnyStatement)
      /\ a \o b \in Seq(AnyStatement) /\ Len(a \o b) = Len(a) + Len(b)
  BY DEF LawfulSeq
<1>2. ASSUME NEW k \in 1 .. Len(a \o b), (a \o b)[k].op = "drop" PROVE Lawful((a \o b)[k])
  <2>1. CASE k <= Len(a)
    BY <1>1, <1>2, <2>1 DEF LawfulSeq
  <2>2. CASE k > Len(a)
    <3>1. k - Len(a) \in 1 .. Len(b) /\ (a \o b)[k] = b[k - Len(a)]
      BY <1>1, <2>2
    <3>2. QED
      BY <1>2, <3>1 DEF LawfulSeq
  <2>3. QED
    BY <1>1, <2>1, <2>2
<1>3. QED
  BY <1>1, <1>2 DEF LawfulSeq

\* Of lawful statements the first, and what is left after it, are lawful.
LEMMA LawfulTail ==
  ASSUME NEW a, LawfulSeq(a), a # <<>>
  PROVE  /\ LawfulSeq(Tail(a)) /\ Head(a) \in AnyStatement
         /\ Head(a).op = "drop" => Lawful(Head(a))
<1>1. /\ a \in Seq(AnyStatement) /\ Tail(a) \in Seq(AnyStatement)
      /\ Len(Tail(a)) = Len(a) - 1 /\ Len(a) \in Nat \ {0} /\ Head(a) = a[1]
      /\ \A k \in 1 .. Len(a) - 1 : Tail(a)[k] = a[k + 1]
  BY DEF LawfulSeq
<1>2. ASSUME NEW k \in 1 .. Len(a) - 1, a[k + 1].op = "drop" PROVE Lawful(a[k + 1])
  <2>1. k + 1 \in 1 .. Len(a)
    BY <1>1
  <2>2. QED
    BY <1>2, <2>1 DEF LawfulSeq
<1>3. QED
  BY <1>1, <1>2 DEF LawfulSeq

\* The moves of a migrator, and what they make of it.
GoTo(r, p, k) == [r EXCEPT !.pc = p, !.at = k]
Load(r, p, l) == [r EXCEPT !.pc = p, !.left = l]
Ask(r, k, l) == [r EXCEPT !.at = k, !.left = l]
Leave(r, l) == [r EXCEPT !.left = l]
NoLongerAlone(r) == [r EXCEPT !.alone = FALSE]

\* What a migrator is after GoTo.
LEMMA GoToOK ==
  ASSUME NEW r \in AnyMigrator, NEW p \in Pcs, NEW k \in Nat
  PROVE  LET e == GoTo(r, p, k)
         IN e \in AnyMigrator /\ e.pc = p /\ e.at = k /\ e.order = r.order /\ e.left = r.left
<1>1. ASSUME NEW P, NEW R, NEW O, NEW L, NEW s \in Records(P, R, O, L),
             NEW p0 \in P, NEW k0 \in Nat
      PROVE  [s EXCEPT !.pc = p0, !.at = k0] \in Records(P, R, O, L)
  BY DEF Records
<1>2. [r EXCEPT !.pc = p, !.at = k] \in AnyMigrator
  BY <1>1 DEF AnyMigrator
<1>3. QED
  BY <1>2 DEF AnyMigrator, Records, GoTo

\* What a migrator is after Load.
LEMMA LoadOK ==
  ASSUME NEW r \in AnyMigrator, NEW p \in Pcs, NEW l \in Seq(AnyStatement)
  PROVE  LET e == Load(r, p, l)
         IN e \in AnyMigrator /\ e.pc = p /\ e.at = r.at /\ e.order = r.order /\ e.left = l
<1>1. ASSUME NEW P, NEW R, NEW O, NEW L, NEW s \in Records(P, R, O, L),
             NEW p0 \in P, NEW l0 \in L
      PROVE  [s EXCEPT !.pc = p0, !.left = l0] \in Records(P, R, O, L)
  BY DEF Records
<1>2. [r EXCEPT !.pc = p, !.left = l] \in AnyMigrator
  BY <1>1 DEF AnyMigrator
<1>3. QED
  BY <1>2 DEF AnyMigrator, Records, Load

\* What a migrator is after Ask.
LEMMA AskOK ==
  ASSUME NEW r \in AnyMigrator, NEW k \in Nat, NEW l \in Seq(AnyStatement)
  PROVE  LET e == Ask(r, k, l)
         IN e \in AnyMigrator /\ e.pc = r.pc /\ e.at = k /\ e.order = r.order /\ e.left = l
<1>1. ASSUME NEW P, NEW R, NEW O, NEW L, NEW s \in Records(P, R, O, L),
             NEW k0 \in Nat, NEW l0 \in L
      PROVE  [s EXCEPT !.at = k0, !.left = l0] \in Records(P, R, O, L)
  BY DEF Records
<1>2. [r EXCEPT !.at = k, !.left = l] \in AnyMigrator
  BY <1>1 DEF AnyMigrator
<1>3. QED
  BY <1>2 DEF AnyMigrator, Records, Ask

\* What a migrator is after Leave.
LEMMA LeaveOK ==
  ASSUME NEW r \in AnyMigrator, NEW l \in Seq(AnyStatement)
  PROVE  LET e == Leave(r, l)
         IN e \in AnyMigrator /\ e.pc = r.pc /\ e.at = r.at /\ e.order = r.order /\ e.left = l
<1>1. ASSUME NEW P, NEW R, NEW O, NEW L, NEW s \in Records(P, R, O, L), NEW l0 \in L
      PROVE  [s EXCEPT !.left = l0] \in Records(P, R, O, L)
  BY DEF Records
<1>2. [r EXCEPT !.left = l] \in AnyMigrator
  BY <1>1 DEF AnyMigrator
<1>3. QED
  BY <1>2 DEF AnyMigrator, Records, Leave

\* What a migrator is once another one has begun.
LEMMA JoinedOK ==
  ASSUME NEW r \in AnyMigrator
  PROVE  LET e == NoLongerAlone(r)
         IN e \in AnyMigrator /\ e.pc = r.pc /\ e.at = r.at /\ e.order = r.order /\ e.left = r.left
<1>1. ASSUME NEW P, NEW R, NEW O, NEW L, NEW s \in Records(P, R, O, L)
      PROVE  [s EXCEPT !.alone = FALSE] \in Records(P, R, O, L)
  BY DEF Records
<1>2. [r EXCEPT !.alone = FALSE] \in AnyMigrator
  BY <1>1 DEF AnyMigrator
<1>3. QED
  BY <1>2 DEF AnyMigrator, Records, NoLongerAlone

\* A migration that goes on to a table goes on to one of a database with
\* auto_migrate.
LEMMA EnterTableOK ==
  ASSUME conf \in Configurations, ~Circular(conf), NEW r, MigratorOK(r), NEW n \in Nat \ {0},
         r.left = <<>>
  PROVE  MigratorOK(EnterTable(r, n))
<1> DEFINE rest == {k \in n .. Len(r.order) : conf.auto[conf.tables[r.order[k]].database]}
           k == NextTable(r, n)
<1>1. /\ r \in AnyMigrator
      /\ r.order \in Seq(DOMAIN conf.tables) /\ Len(r.order) \in Nat
      /\ LawfulSeq(r.left)
  BY DEF MigratorOK, AnyMigrator, Records
<1>2. rest \in SUBSET Nat /\ \A j \in rest : j \in 1 .. Len(r.order)
  BY <1>1
<1>3. rest # {} => Min(rest) \in rest
  <2> SUFFICES ASSUME rest # {} PROVE Min(rest) \in rest
    OBVIOUS
  <2> HIDE DEF rest
  <2>1. \E x \in rest : \A y \in rest : x =< y
    BY <1>2, LeastNumber
  <2>2. QED
    BY <2>1 DEF Min
<1>4. \/ k = Len(r.order) + 1
      \/ k \in rest
  BY <1>3 DEF NextTable
<1> HIDE DEF k
<1>5. CASE k <= Len(r.order)
  <2>1. k \in 1 .. Len(r.order) /\ conf.auto[conf.tables[r.order[k]].database]
    <3>1. \A j \in rest : conf.auto[conf.tables[r.order[j]].database]
      OBVIOUS
    <3> HIDE DEF rest
    <3>2. k \in rest
      BY <1>1, <1>4, <1>5
    <3>3. QED
      BY <1>2, <3>1, <3>2
  <2>2. EnterTable(r, n) = [r EXCEPT !.pc = "columns", !.at = k]
    BY <1>5 DEF EnterTable, k
  <2> DEFINE e == EnterTable(r, n)
  <2>3. /\ e \in AnyMigrator /\ e.pc = "columns" /\ e.at = k /\ e.order = r.order
        /\ e.left = r.left
    <3>1. k \in Nat
      BY <2>1
    <3> DEFINE p == "columns"
    <3>2. p \in Pcs /\ e = GoTo(r, p, k)
      BY <2>2 DEF Pcs, GoTo
    <3> HIDE DEF p, e
    <3>3. e \in AnyMigrator /\ e.pc = p /\ e.at = k /\ e.order = r.order /\ e.left = r.left
      BY <1>1, <3>1, <3>2, GoToOK
    <3>4. QED
      BY <3>3 DEF p
  <2> HIDE DEF e
  <2>4. MigratorOK(e)
    BY <1>1, <2>1, <2>3 DEF MigratorOK
  <2>5. QED
    BY <2>4 DEF e
<1>6. CASE ~(k <= Len(r.order))
  <2>1. EnterTable(r, n) = [r EXCEPT !.pc = "media", !.at = 1]
    BY <1>6 DEF EnterTable, k
  <2> DEFINE e == EnterTable(r, n)
  <2>2. e \in AnyMigrator /\ e.pc = "media" /\ e.at = 1 /\ e.left = r.left
    <3> DEFINE p == "media"
               one == 1
    <3>1. p \in Pcs /\ one \in Nat /\ e = GoTo(r, p, one)
      BY <2>1 DEF Pcs, GoTo
    <3> HIDE DEF p, e, one
    <3>2. e \in AnyMigrator /\ e.pc = p /\ e.at = one /\ e.left = r.left
      BY <1>1, <3>1, GoToOK
    <3>3. QED
      BY <3>2 DEF p, one
  <2> HIDE DEF e
  <2>3. MigratorOK(e)
    BY <1>1, <2>2 DEF MigratorOK
  <2>4. QED
    BY <2>3 DEF e
<1>7. QED
  BY <1>5, <1>6

\* A step of a migration that leaves the tables alone.
LEMMA OnlyMigrators ==
  ASSUME MigrationInv, UNCHANGED <<conf, schema, data, first>>,
         DOMAIN migrators' = Migrators, \A m \in Migrators : MigratorOK(migrators'[m])
  PROVE  MigrationInv'
<1>1. Places' = Places /\ \A t : ColumnsOf(t)' = ColumnsOf(t)
  BY DEF Places, Place, ColumnsOf, Declaration
<1>2. \A r : MigratorOK(r)' <=> MigratorOK(r)
  BY <1>1 DEF MigratorOK, AnyMigrator, Records, LawfulSeq, Lawful
<1>3. DeclaredDataKept'
  BY <1>1 DEF MigrationInv, DeclaredDataKept, Migrated
<1>4. QED
  BY <1>1, <1>2, <1>3 DEF MigrationInv

\* A step that only moves one migrator, to a lawful place, keeps the invariant.
LEMMA OneMigrator ==
  ASSUME MigrationInv, UNCHANGED <<conf, schema, data, first>>, NEW m \in Migrators, NEW r,
         migrators' = [migrators EXCEPT ![m] = r], MigratorOK(r)
  PROVE  MigrationInv'
<1>1. DOMAIN migrators' = Migrators /\ \A o \in Migrators : MigratorOK(migrators'[o])
  BY DEF MigrationInv
<1>2. QED
  BY <1>1, OnlyMigrators

\* One that has ended, however, is in order.
LEMMA EndedOK ==
  ASSUME NEW r, r \in AnyMigrator, r.pc = "ended", r.left = <<>>
  PROVE  MigratorOK(r)
BY DEF MigratorOK, LawfulSeq

\* StartMigration keeps the invariant.
LEMMA StartMigrationKeeps ==
  ASSUME MigrationInv, NEW m \in Migrators, StartMigration(m)
  PROVE  MigrationInv'
<1> DEFINE alone == \A o \in Migrators \ {m} : ~Running(o)
           begun == [NotStarted EXCEPT !.alone = alone, !.order = Sorted(conf)]
           refused == [begun EXCEPT !.result = "failed", !.order = <<>>]
           mine == IF Circular(conf) THEN refused ELSE EnterTable(begun, 1)
           others == [o \in Migrators |->
                        IF Running(o) THEN NoLongerAlone(migrators[o]) ELSE migrators[o]]
<1>1. migrators' = [others EXCEPT ![m] = mine] /\ UNCHANGED <<conf, schema, data, first>>
  BY DEF StartMigration, NoLongerAlone
<1>a. alone \in BOOLEAN
  OBVIOUS
<1> HIDE DEF alone
<1>2. conf \in Configurations /\ conf.tables \in Seq(TableConfig)
      /\ \A o \in Migrators : MigratorOK(migrators[o])
  BY MigrationAssumption DEF MigrationInv
<1>3. ASSUME NEW o \in Migrators PROVE MigratorOK(others[o])
  <2> DEFINE r == migrators[o]
             e == NoLongerAlone(r)
  <2>1. MigratorOK(r)
    BY <1>2
  <2> HIDE DEF r
  <2>2. r \in AnyMigrator
    BY <2>1 DEF MigratorOK
  <2>3. e \in AnyMigrator /\ e.pc = r.pc /\ e.at = r.at /\ e.order = r.order /\ e.left = r.left
    BY <2>2, JoinedOK
  <2> HIDE DEF e
  <2>4. MigratorOK(e)
    BY <2>1, <2>3 DEF MigratorOK
  <2>5. others[o] = r \/ others[o] = e
    BY DEF r, e
  <2>6. QED
    BY <2>1, <2>4, <2>5
<1>4. CASE Circular(conf)
  <2> DEFINE O == Seq(DOMAIN conf.tables)
             L == Seq(AnyStatement)
             o == Sorted(conf)
  <2>1. <<>> \in O /\ <<>> \in L
    OBVIOUS
  <2> HIDE DEF O, L, o
  <2>2. /\ refused \in Records(Pcs, {"none", "done", "failed"}, O, L)
        /\ refused.pc = "ended" /\ refused.left = <<>>
    BY <1>a, <2>1 DEF NotStarted, Records, Pcs
  <2>3. refused \in AnyMigrator /\ refused.pc = "ended" /\ refused.left = <<>>
    BY <2>2 DEF AnyMigrator, O, L
  <2> HIDE DEF refused
  <2>4. MigratorOK(refused)
    BY <2>3, EndedOK
  <2> HIDE DEF others
  <2>5. QED
    BY <1>1, <1>3, <1>4, <2>4, OnlyMigrators DEF others
<1>5. CASE ~Circular(conf)
  <2>1. Sorted(conf) \in Seq(DOMAIN conf.tables)
    BY <1>2, <1>5, AcceptedOrder
  <2> DEFINE O == Seq(DOMAIN conf.tables)
             L == Seq(AnyStatement)
             o == Sorted(conf)
  <2>2. o \in O /\ <<>> \in L
    BY <2>1
  <2> HIDE DEF O, L, o
  <2>3. /\ begun \in Records(Pcs, {"none", "done", "failed"}, O, L)
        /\ begun.pc = "ended" /\ begun.left = <<>>
    BY <1>a, <2>2 DEF NotStarted, Records, Pcs, o
  <2>4. begun \in AnyMigrator /\ begun.pc = "ended" /\ begun.left = <<>>
    BY <2>3 DEF AnyMigrator, O, L
  <2> HIDE DEF begun
  <2>5. MigratorOK(begun)
    BY <2>4, EndedOK
  <2>6. MigratorOK(EnterTable(begun, 1))
    <3> DEFINE one == 1
    <3>1. one \in Nat \ {0}
      OBVIOUS
    <3> HIDE DEF one
    <3>2. MigratorOK(EnterTable(begun, one))
      BY <1>2, <1>5, <2>4, <2>5, <3>1, EnterTableOK
    <3>3. QED
      BY <3>2 DEF one
  <2>7. QED
    BY <1>1, <1>3, <1>5, <2>6, OnlyMigrators
<1>6. QED
  BY <1>4, <1>5

\* Introspect keeps the invariant.
LEMMA IntrospectKeeps ==
  ASSUME MigrationInv, NEW m \in Migrators, Introspect(m)
  PROVE  MigrationInv'
<1> DEFINE r == migrators[m]
           t == TableAt(m)
           existing == schema[Place(t)]
           left == ColumnStatements(t, existing)
           p == "alter"
           e == Load(r, p, left)
<1>1. r.pc = "columns" /\ MigratorOK(r) /\ conf.tables \in Seq(TableConfig)
      /\ migrators' = [migrators EXCEPT ![m] = e] /\ UNCHANGED <<conf, schema, data, first>>
  BY MigrationAssumption DEF Introspect, MigratorAt, MigrationInv, Load
<1>2. /\ t \in TableConfig /\ Place(t) \in Places
      /\ Declaration(Place(t)) = t /\ conf.auto[t.database]
  BY <1>1, TableOfMigrator
<1>3. existing \in SUBSET AnyColumn /\ IsFiniteSet(existing)
  BY <1>2 DEF MigrationInv
<1> HIDE DEF existing, r, t
<1>4. LawfulSeq(left)
  <2>1. CASE existing = {}
    <3>1. FilePath \in AnyColumn /\ Place(t) \in STRING \X STRING
      BY <1>2 DEF AnyColumn, Place, TableConfig
    <3>2. Statement("create", t, FilePath) \in AnyStatement
          /\ Statement("create", t, FilePath).op # "drop"
      BY <3>1 DEF Statement, AnyStatement
    <3> HIDE DEF AnyStatement
    <3>3. LawfulSeq(<<Statement("create", t, FilePath)>>)
      BY <3>2 DEF LawfulSeq
    <3>4. QED
      BY <2>1, <3>3 DEF ColumnStatements
  <2>2. CASE existing # {}
    <3> DEFINE wanted == {a \in ToSet(t.columns) : Addable(existing, a)}
               adds == Statements("add", t, Only(t.columns, wanted))
               drops == Statements("drop", t, SetToSeq(Droppable(t, existing)))
    <3>1. left = adds \o drops
      BY <2>2 DEF ColumnStatements, AlterExistingTable
    <3>2. Only(t.columns, wanted) \in Seq(AnyColumn)
      <4>1. t.columns \in Seq(STRING)
        BY <1>2 DEF TableConfig
      <4>2. t.columns \in Seq(AnyColumn)
        BY <4>1 DEF AnyColumn
      <4>3. QED
        BY <4>2, OnlyIsSeq
    <3>3. LawfulSeq(adds)
      <4> DEFINE add == "add"
      <4>1. add \in {"create", "add", "add_media", "index"}
        OBVIOUS
      <4> HIDE DEF add, wanted
      <4>2. LawfulSeq(Statements(add, t, Only(t.columns, wanted)))
        BY <1>2, <3>2, <4>1, StatementsAreLawful
      <4>3. QED
        BY <4>2 DEF add
    <3>4. LawfulSeq(drops)
      BY <1>2, <1>3, DropsAreLawful
    <3> HIDE DEF adds, drops
    <3>5. QED
      BY <3>1, <3>3, <3>4, LawfulConcat
  <2>3. QED
    BY <2>1, <2>2
<1> HIDE DEF left
<1>5. p \in Pcs /\ p = "alter"
  BY DEF Pcs
<1> HIDE DEF p
<1>6. e \in AnyMigrator /\ e.pc = p /\ e.at = r.at /\ e.order = r.order /\ e.left = left
  <2>1. r \in AnyMigrator /\ left \in Seq(AnyStatement)
    BY <1>1, <1>4 DEF MigratorOK, LawfulSeq
  <2>2. QED
    BY <1>5, <2>1, LoadOK
<1> HIDE DEF e
<1>7. MigratorOK(e)
  BY <1>1, <1>4, <1>5, <1>6 DEF MigratorOK
<1>8. QED
  BY <1>1, <1>7, OneMigrator

\* LookUpIndexes keeps the invariant.
LEMMA LookUpIndexesKeeps ==
  ASSUME MigrationInv, NEW m \in Migrators, LookUpIndexes(m)
  PROVE  MigrationInv'
<1> DEFINE r == migrators[m]
           t == TableAt(m)
           left == IndexStatements(t)
           p == "index"
           e == Load(r, p, left)
<1>1. r.pc = "alter" /\ MigratorOK(r)
      /\ migrators' = [migrators EXCEPT ![m] = e] /\ UNCHANGED <<conf, schema, data, first>>
  BY DEF LookUpIndexes, MigratorAt, MigrationInv, Load
<1>2. t \in TableConfig
  BY <1>1, TableOfMigrator
<1> HIDE DEF r, t
<1>3. LawfulSeq(left)
  <2> DEFINE wanted == {a \in Indexed \ Keyed : <<Place(t), a>> \notin ExistingIndexes(t)}
             index == "index"
  <2>1. left = Statements(index, t, Only(t.columns, wanted))
    BY DEF IndexStatements
  <2>2. Only(t.columns, wanted) \in Seq(AnyColumn)
    <3>1. t.columns \in Seq(STRING)
      BY <1>2 DEF TableConfig
    <3>2. t.columns \in Seq(AnyColumn)
      BY <3>1 DEF AnyColumn
    <3>3. QED
      BY <3>2, OnlyIsSeq
  <2>3. index \in {"create", "add", "add_media", "index"}
    OBVIOUS
  <2> HIDE DEF index, wanted, left
  <2>4. QED
    BY <1>2, <2>1, <2>2, <2>3, StatementsAreLawful
<1> HIDE DEF left
<1>4. p \in Pcs /\ p = "index"
  BY DEF Pcs
<1> HIDE DEF p
<1>5. e \in AnyMigrator /\ e.pc = p /\ e.at = r.at /\ e.order = r.order /\ e.left = left
  <2>1. r \in AnyMigrator /\ left \in Seq(AnyStatement)
    BY <1>1, <1>3 DEF MigratorOK, LawfulSeq
  <2>2. QED
    BY <1>4, <2>1, LoadOK
<1> HIDE DEF e
<1>6. MigratorOK(e)
  BY <1>1, <1>3, <1>4, <1>5 DEF MigratorOK
<1>7. QED
  BY <1>1, <1>6, OneMigrator

\* TableDone keeps the invariant.
LEMMA TableDoneKeeps ==
  ASSUME MigrationInv, NEW m \in Migrators, TableDone(m)
  PROVE  MigrationInv'
<1> DEFINE r == migrators[m]
           n == r.at + 1
<1>1. /\ r.pc = "index" /\ r.left = <<>> /\ MigratorOK(r) /\ conf \in Configurations
      /\ migrators' = [migrators EXCEPT ![m] = EnterTable(r, n)]
      /\ UNCHANGED <<conf, schema, data, first>>
  BY DEF TableDone, MigratorAt, MigrationInv
<1> HIDE DEF r
<1>2. n \in Nat \ {0} /\ ~Circular(conf)
  BY <1>1 DEF MigratorOK, AnyMigrator, Records
<1> HIDE DEF n
<1>3. MigratorOK(EnterTable(r, n))
  BY <1>1, <1>2, EnterTableOK
<1>4. QED
  BY <1>1, <1>3, OneMigrator

\* EnsureMediaColumn keeps the invariant.
LEMMA EnsureMediaColumnKeeps ==
  ASSUME MigrationInv, NEW m \in Migrators, EnsureMediaColumn(m)
  PROVE  MigrationInv'
<1> DEFINE r == migrators[m]
           k == r.at + 1
           t == conf.media[r.at]
           s == [op |-> "add_media", table |-> t, column |-> FilePath]
           left == IF FilePath \in schema[t] THEN <<>> ELSE <<s>>
           e == Ask(r, k, left)
<1>1. /\ r.pc = "media" /\ MigratorOK(r) /\ conf.media \in Seq(Places)
      /\ r.at <= Len(conf.media)
      /\ migrators' = [migrators EXCEPT ![m] = e] /\ UNCHANGED <<conf, schema, data, first>>
  BY MigrationAssumption DEF EnsureMediaColumn, MigratorAt, MigrationInv, Ask, Places
<1> HIDE DEF r
<1>2. LawfulSeq(left) /\ r.at \in Nat
  <2>1. r.at \in Nat
    BY <1>1 DEF MigratorOK, AnyMigrator, Records
  <2>2. CASE FilePath \in schema[t]
    BY <2>1, <2>2 DEF LawfulSeq
  <2>3. CASE FilePath \notin schema[t]
    <3>1. t \in STRING \X STRING
      <4>1. r.at # 0
        BY <1>1 DEF MigratorOK
      <4>2. r.at \in 1 .. Len(conf.media)
        BY <1>1, <2>1, <4>1
      <4>3. t \in Places
        BY <1>1, <4>2, ElementsOfSeq
      <4> HIDE DEF t
      <4>4. QED
        BY <4>3, PlacesAreNames
    <3> HIDE DEF t
    <3>2. s \in AnyStatement /\ s.op # "drop"
      BY <3>1 DEF AnyStatement, AnyColumn
    <3> HIDE DEF s, AnyStatement
    <3>3. LawfulSeq(<<s>>)
      BY <3>2 DEF LawfulSeq
    <3>4. QED
      BY <2>1, <2>3, <3>3
  <2>4. QED
    BY <2>2, <2>3
<1> HIDE DEF left
<1>3. k \in Nat /\ k # 0
  BY <1>2
<1> HIDE DEF k
<1>4. e \in AnyMigrator /\ e.pc = r.pc /\ e.at = k /\ e.left = left
  <2>1. r \in AnyMigrator /\ left \in Seq(AnyStatement)
    BY <1>1, <1>2 DEF MigratorOK, LawfulSeq
  <2>2. QED
    BY <1>3, <2>1, AskOK
<1> HIDE DEF e
<1>5. MigratorOK(e)
  BY <1>1, <1>2, <1>3, <1>4 DEF MigratorOK
<1>6. QED
  BY <1>1, <1>5, OneMigrator

\* A migration that ends, successful or not.
LEMMA EndKeeps ==
  ASSUME MigrationInv, NEW m \in Migrators, NEW result \in {"done", "failed"},
         MigrationEnds(m, result), UNCHANGED <<conf, schema, data, first>>
  PROVE  MigrationInv'
<1> DEFINE r == migrators[m]
           e == [r EXCEPT !.pc = "ended", !.result = result, !.left = <<>>, !.order = <<>>, !.at = 0]
           O == Seq(DOMAIN conf.tables)
           L == Seq(AnyStatement)
<1>1. MigratorOK(r) /\ migrators' = [migrators EXCEPT ![m] = e]
  BY DEF MigrationEnds, MigrationInv
<1> HIDE DEF r
<1>2. r \in Records(Pcs, {"none", "done", "failed"}, O, L) /\ <<>> \in O /\ <<>> \in L
  BY <1>1 DEF MigratorOK, AnyMigrator
<1> HIDE DEF O, L
<1>3. /\ e \in Records(Pcs, {"none", "done", "failed"}, O, L)
      /\ e.pc = "ended" /\ e.left = <<>>
  BY <1>2 DEF Records, Pcs
<1>4. e \in AnyMigrator
  BY <1>3 DEF AnyMigrator, O, L
<1> HIDE DEF e
<1>5. MigratorOK(e)
  BY <1>3, <1>4, EndedOK
<1>6. QED
  BY <1>1, <1>5, OneMigrator

\* CutShort keeps the invariant.
LEMMA CutShortKeeps ==
  ASSUME MigrationInv, NEW m \in Migrators, CutShort(m)
  PROVE  MigrationInv'
<1> DEFINE e == [NotStarted EXCEPT !.result = "failed", !.faultless = FALSE]
           O == Seq(DOMAIN conf.tables)
           L == Seq(AnyStatement)
<1>1. migrators' = [migrators EXCEPT ![m] = e] /\ UNCHANGED <<conf, schema, data, first>>
  BY DEF CutShort
<1>2. <<>> \in O /\ <<>> \in L
  OBVIOUS
<1> HIDE DEF O, L
<1>3. /\ e \in Records(Pcs, {"none", "done", "failed"}, O, L)
      /\ e.pc = "ended" /\ e.left = <<>>
  BY <1>2 DEF Records, Pcs, NotStarted
<1>4. e \in AnyMigrator
  BY <1>3 DEF AnyMigrator, O, L
<1> HIDE DEF e
<1>5. MigratorOK(e)
  BY <1>3, <1>4, EndedOK
<1>6. QED
  BY <1>1, <1>5, OneMigrator

\* A statement: only a drop takes anything away, and drops are lawful.
LEMMA ExecuteKeeps ==
  ASSUME MigrationInv, NEW m \in Migrators, Execute(m)
  PROVE  MigrationInv'
<1> DEFINE r == migrators[m]
           s == Head(r.left)
           e == Leave(r, Tail(r.left))
<1>1. /\ MigratorOK(r) /\ r.left # <<>> /\ UNCHANGED <<conf, first>>
      /\ conf.tables \in Seq(TableConfig)
      /\ \/ Perform(s) /\ migrators' = [migrators EXCEPT ![m] = e]
         \/ MigrationEnds(m, "failed") /\ UNCHANGED <<schema, data>>
  BY MigrationAssumption DEF Execute, MigrationInv, Leave
<1>2. CASE MigrationEnds(m, "failed") /\ UNCHANGED <<schema, data>>
  <2> DEFINE failed == "failed"
  <2>1. failed \in {"done", "failed"} /\ MigrationEnds(m, failed)
    BY <1>2
  <2> HIDE DEF failed
  <2>2. QED
    BY <1>1, <1>2, <2>1, EndKeeps
<1>3. CASE Perform(s) /\ migrators' = [migrators EXCEPT ![m] = e]
  <2> HIDE DEF r
  <2>1. /\ LawfulSeq(Tail(r.left)) /\ s \in AnyStatement /\ r \in AnyMigrator
        /\ s.op = "drop" => Lawful(s)
    BY <1>1, LawfulTail DEF MigratorOK
  <2>2. MigratorOK(e)
    <3>1. e \in AnyMigrator /\ e.pc = r.pc /\ e.at = r.at /\ e.order = r.order
          /\ e.left = Tail(r.left)
      BY <2>1, LeaveOK DEF LawfulSeq
    <3> HIDE DEF e
    <3>2. QED
      BY <1>1, <2>1, <3>1 DEF MigratorOK
  <2> HIDE DEF e, s
  <2>3. Places' = Places /\ \A t : ColumnsOf(t)' = ColumnsOf(t)
    BY <1>1 DEF Places, Place, ColumnsOf, Declaration
  <2>4. \A x : MigratorOK(x)' <=> MigratorOK(x)
    BY <1>1, <2>3 DEF MigratorOK, AnyMigrator, Records, LawfulSeq, Lawful
  <2>5. DOMAIN migrators' = Migrators /\ \A o \in Migrators : MigratorOK(migrators'[o])
    BY <1>3, <2>2 DEF MigrationInv
  <2>6. DOMAIN schema' = Places /\ \A t \in Places : t # s.table => schema'[t] = schema[t]
    BY <1>3 DEF Perform, MigrationInv
  <2>7. ASSUME NEW t \in Places, t = s.table
        PROVE  schema'[t] \in SUBSET AnyColumn /\ IsFiniteSet(schema'[t])
    <3>1. schema[t] \in SUBSET AnyColumn /\ IsFiniteSet(schema[t]) /\ t \in DOMAIN schema
      BY DEF MigrationInv
    <3>2. CASE s.op = "create"
      <4>1. PICK i \in DOMAIN conf.tables : Place(conf.tables[i]) = t
        BY DEF Places
      <4>2. Declaration(t) \in TableConfig
        <5> DEFINE i0 == CHOOSE j \in DOMAIN conf.tables : Place(conf.tables[j]) = t
        <5>1. i0 \in DOMAIN conf.tables
          BY <4>1
        <5>2. Declaration(t) = conf.tables[i0]
          BY DEF Declaration
        <5> HIDE DEF i0
        <5>3. QED
          BY <1>1, <5>1, <5>2, ElementsOfSeq
      <4>3. Declaration(t).columns \in Seq(STRING)
        BY <4>2 DEF TableConfig
      <4>4. IsFiniteSet(ColumnsOf(t)) /\ ColumnsOf(t) \in SUBSET AnyColumn
        <5>1. ColumnsOf(t) \in SUBSET STRING
          BY <4>3 DEF ColumnsOf, ToSet
        <5>2. QED
          BY <4>3, <5>1, ToSetIsFinite DEF ColumnsOf, AnyColumn
      <4>5. schema'[t] = schema[t] \/ schema'[t] = ColumnsOf(t)
        BY <1>3, <2>7, <3>1, <3>2 DEF Perform, ColumnsOf
      <4>6. QED
        BY <3>1, <4>4, <4>5
    <3>3. CASE s.op \in {"add", "add_media"}
      <4>1. schema'[t] = schema[t] \cup {s.column} /\ s.column \in AnyColumn
        <5>1. schema'[t] = schema[t] \cup {s.column}
          BY <1>3, <2>7, <3>1, <3>3 DEF Perform
        <5>2. QED
          BY <2>1, <5>1 DEF AnyStatement
      <4>2. IsFiniteSet(schema[t] \cup {s.column})
        BY <3>1, FS_AddElement
      <4>3. QED
        BY <3>1, <4>1, <4>2
    <3>4. CASE s.op = "drop"
      <4>1. schema'[t] = schema[t] \ {s.column}
        BY <1>3, <2>7, <3>1, <3>4 DEF Perform
      <4>2. schema'[t] \in SUBSET schema[t]
        BY <4>1
      <4>3. QED
        BY <3>1, <4>2, FS_Subset
    <3>5. CASE s.op = "index"
      BY <1>3, <2>7, <3>1, <3>5 DEF Perform
    <3>6. QED
      BY <2>1, <3>2, <3>3, <3>4, <3>5 DEF AnyStatement
  <2>8. \A t \in Places : schema'[t] \in SUBSET AnyColumn /\ IsFiniteSet(schema'[t])
    BY <2>6, <2>7 DEF MigrationInv
  <2>9. DeclaredDataKept'
    <3> SUFFICES ASSUME NEW t \in Places, NEW a \in first[t], <<t, a>> \notin data'
                 PROVE  conf.destructive /\ conf.auto[t[1]] /\ a \notin ColumnsOf(t)
      BY <1>1, <2>3, <2>6 DEF DeclaredDataKept, Migrated
    <3>1. CASE <<t, a>> \in data
      <4>1. s.op = "drop" /\ <<t, a>> = <<s.table, s.column>>
        BY <1>3, <3>1 DEF Perform
      <4>2. t = s.table /\ a = s.column
        BY <4>1
      <4>3. QED
        BY <2>1, <4>1, <4>2 DEF Lawful
    <3>2. CASE <<t, a>> \notin data
      BY <3>2 DEF MigrationInv, DeclaredDataKept, Migrated
    <3>3. QED
      BY <3>1, <3>2
  <2>10. AnyColumn' = AnyColumn
    BY DEF AnyColumn
  <2>11. QED
    BY <1>1, <2>3, <2>4, <2>5, <2>6, <2>8, <2>9 DEF MigrationInv
<1>4. QED
  BY <1>1, <1>2, <1>3

\* Every step of a migration keeps the invariant.
LEMMA MigrationStepInv == MigrationInv /\ [MigrationNext]_migrationVars => MigrationInv'
<1> SUFFICES ASSUME MigrationInv, [MigrationNext]_migrationVars PROVE MigrationInv'
  OBVIOUS
<1>1. CASE UNCHANGED migrationVars
  <2>1. DOMAIN migrators' = Migrators /\ \A m \in Migrators : MigratorOK(migrators'[m])
    BY <1>1 DEF MigrationInv, migrationVars
  <2>2. QED
    BY <1>1, <2>1, OnlyMigrators DEF migrationVars
<1>2. ASSUME NEW m \in Migrators, MigrationStep(m) PROVE MigrationInv'
  <2>1. CASE MigrationDone(m)
    <3> DEFINE done == "done"
    <3>1. done \in {"done", "failed"} /\ MigrationEnds(m, done)
          /\ UNCHANGED <<conf, schema, data, first>>
      BY <2>1 DEF MigrationDone
    <3> HIDE DEF done
    <3>2. QED
      BY <3>1, EndKeeps
  <2>2. QED
    BY <1>2, <2>1, StartMigrationKeeps, IntrospectKeeps, ExecuteKeeps, LookUpIndexesKeeps,
       TableDoneKeeps, EnsureMediaColumnKeeps, CutShortKeeps DEF MigrationStep
<1>3. QED
  BY <1>1, <1>2 DEF MigrationNext

\* The values in a column are lost only where the database has auto_migrate,
\* destructive changes are allowed and the YAML file does not name the column,
\* for every configuration, every database as it was found and however the
\* migrations of start-ups and reloads overlap or are cut short.
THEOREM MigrationSafety == MigrationSpec => []DeclaredDataKept
<1>1. MigrationInv => DeclaredDataKept
  BY DEF MigrationInv
<1>2. QED
  BY <1>1, MigrationInitInv, MigrationStepInv, PTL DEF MigrationSpec

\* No two tables of the file share a name.
NamesDiffer(c) ==
  \A i, j \in Positions(c) : c.tables[i].name = c.tables[j].name => i = j

\* With names that differ, no key of a table waits when the tables it refers to
\* are done, and every table is a node of the graph.
LEMMA WaitsForReferred ==
  ASSUME conf.tables \in Seq(TableConfig), NamesDiffer(conf), NEW i \in Positions(conf), NEW done
  PROVE  /\ Waiting(conf, i, done) = {} <=> ReferredBy(i) \subseteq done
         /\ i \in NodesOf(conf)
<1>1. \A j \in Positions(conf) : PositionOf(conf, conf.tables[j].name) = j
  BY PositionIsOfName DEF NamesDiffer, Names, Positions
<1>2. ASSUME Waiting(conf, i, done) = {}, NEW q \in ReferredBy(i) PROVE q \in done
  <2>1. q \in Positions(conf) /\ conf.tables[q].name \in ToSet(conf.tables[i].references)
    BY <1>2 DEF ReferredBy, Refers
  <2>2. PICK k \in DOMAIN conf.tables[i].references : conf.tables[i].references[k] = conf.tables[q].name
    BY <2>1 DEF ToSet
  <2> DEFINE d == <<i, k>>
  <2>3. d[1] = i /\ d[2] = k
    OBVIOUS
  <2>4. d \in UNION {{j} \X DOMAIN conf.tables[j].references : j \in Positions(conf)}
    <3>1. d \in {i} \X DOMAIN conf.tables[i].references
      OBVIOUS
    <3> HIDE DEF d
    <3>2. QED
      BY <3>1
  <2> HIDE DEF d
  <2>5. conf.tables[q].name \in Names(conf)
    BY <2>1 DEF Names
  <2>6. d \in Deps(conf, i)
    BY <2>2, <2>3, <2>4, <2>5 DEF Deps
  <2>7. Target(conf, d) = q
    BY <1>1, <2>1, <2>2, <2>3 DEF Target
  <2>8. QED
    BY <1>2, <2>6, <2>7 DEF Waiting
<1>3. ASSUME ReferredBy(i) \subseteq done, NEW d \in Waiting(conf, i, done) PROVE FALSE
  <2>1. /\ d \in UNION {{j} \X DOMAIN conf.tables[j].references : j \in Positions(conf)}
        /\ conf.tables[d[1]].name = conf.tables[i].name
        /\ conf.tables[d[1]].references[d[2]] \in Names(conf)
        /\ Target(conf, d) \notin done
    BY <1>3 DEF Waiting, Deps
  <2>2. PICK j \in Positions(conf) : d \in {j} \X DOMAIN conf.tables[j].references
    BY <2>1
  <2>3. d[1] = j /\ d[2] \in DOMAIN conf.tables[j].references
    BY <2>2
  <2>4. j = i
    BY <2>1, <2>3 DEF NamesDiffer
  <2> DEFINE n == conf.tables[i].references[d[2]]
             q == PositionOf(conf, n)
  <2>5. n \in Names(conf) /\ n \in ToSet(conf.tables[i].references)
    BY <2>1, <2>3, <2>4 DEF ToSet
  <2>6. q = Target(conf, d)
    BY <2>3, <2>4 DEF Target
  <2> HIDE DEF n
  <2>7. q \in Positions(conf) /\ conf.tables[q].name = n
    BY <2>5, PositionIsOfName DEF Positions
  <2>8. q \in ReferredBy(i)
    BY <2>5, <2>7 DEF ReferredBy, Refers
  <2>9. QED
    BY <1>3, <2>1, <2>6, <2>8
<1>4. i \in NodesOf(conf)
  BY <1>1 DEF NodesOf, Names
<1>5. QED
  BY <1>2, <1>3, <1>4

\* An order that is listed is the canonical one.
LEMMA ListedIsCanonical ==
  ASSUME conf.tables \in Seq(TableConfig), ~Circular(conf), NEW i \in Positions(conf)
  PROVE  LET order == Sorted(conf)
             before == {order[j] : j \in 1 .. i - 1}
             ready == {p \in Positions(conf) \ before : ReferredBy(p) \subseteq before}
         IN order[i] = Min(ready)
<1> DEFINE order == Sorted(conf)
           before == {order[j] : j \in 1 .. i - 1}
           ready == {p \in Positions(conf) \ before : ReferredBy(p) \subseteq before}
<1>1. /\ NamesDiffer(conf) /\ Listed(conf, Positions(conf), order)
      /\ Len(order) = Len(conf.tables) /\ Positions(conf) = 1 .. Len(conf.tables)
  <2>1. Positions(conf) = 1 .. Len(conf.tables)
    BY DEF Positions
  <2>2. NamesDiffer(conf) /\ Listed(conf, DOMAIN conf.tables, order) /\ Len(order) = Len(conf.tables)
    BY AcceptedOrder DEF NamesDiffer, Positions
  <2> HIDE DEF order
  <2>3. QED
    BY <2>1, <2>2 DEF Positions
<1> HIDE DEF order
<1>2. before = Prior(order, i)
  BY DEF Prior
<1> HIDE DEF before
<1>3. Free(conf, Positions(conf), before) = ready
  BY <1>1, WaitsForReferred DEF Free
<1>4. order[i] \in ready /\ \A y \in ready : order[i] <= y
  BY <1>1, <1>2, <1>3 DEF Listed, LeastIn
<1>5. ready \in SUBSET Int
  BY <1>1
<1> HIDE DEF ready
<1>6. \A x \in ready : (\A y \in ready : x <= y) => x = order[i]
  <2> SUFFICES ASSUME NEW x \in ready, \A y \in ready : x <= y PROVE x = order[i]
    OBVIOUS
  <2>1. x <= order[i] /\ order[i] <= x /\ x \in Int /\ order[i] \in Int
    BY <1>4, <1>5
  <2>2. QED
    BY <2>1
<1>7. order[i] = Min(ready)
  BY <1>4, <1>6 DEF Min
<1>8. QED
  BY <1>7 DEF order, before, ready

\* In an order that is listed no table depends on itself.
LEMMA ListedDependsNot ==
  ASSUME conf.tables \in Seq(TableConfig), ~Circular(conf), NEW p \in Positions(conf)
  PROVE  ~DependsOn(p, p)
<1> DEFINE order == Sorted(conf)
           all == Positions(conf)
<1>1. /\ NamesDiffer(conf) /\ Listed(conf, all, order) /\ order \in Seq(all)
      /\ \E k \in DOMAIN order : order[k] = p
  BY AcceptedOrder DEF NamesDiffer, Positions
<1> HIDE DEF order
<1>2. PICK k \in 1 .. Len(order) : order[k] = p
  BY <1>1
<1>3. \A j \in 1 .. Len(order) :
        order[j] \in all /\ order[j] \notin Prior(order, j) /\ ReferredBy(order[j]) \subseteq Prior(order, j)
  <2> SUFFICES ASSUME NEW j \in 1 .. Len(order)
               PROVE  /\ order[j] \in all /\ order[j] \notin Prior(order, j)
                      /\ ReferredBy(order[j]) \subseteq Prior(order, j)
    OBVIOUS
  <2>1. order[j] \in Free(conf, all, Prior(order, j))
    BY <1>1 DEF Listed, LeastIn
  <2>2. order[j] \in all /\ order[j] \notin Prior(order, j) /\ Waiting(conf, order[j], Prior(order, j)) = {}
    BY <2>1 DEF Free
  <2>3. QED
    BY <1>1, <2>2, WaitsForReferred
<1> DEFINE S == Prior(order, k)
<1>4. S \in SUBSET all
  BY <1>2, <1>3 DEF Prior
<1>5. ReferredBy(p) \subseteq S /\ p \notin S
  BY <1>2, <1>3
<1>6. \A o \in S : ReferredBy(o) \subseteq S
  <2> SUFFICES ASSUME NEW o \in S PROVE ReferredBy(o) \subseteq S
    OBVIOUS
  <2>1. PICK j \in 1 .. k - 1 : o = order[j]
    BY DEF Prior
  <2>2. j \in 1 .. Len(order) /\ \A l \in 1 .. j - 1 : l \in 1 .. k - 1
    BY <1>2
  <2>3. Prior(order, j) \subseteq S
    BY <2>2 DEF Prior
  <2>4. QED
    BY <1>3, <2>1, <2>2, <2>3
<1> HIDE DEF S
<1>7. QED
  BY <1>4, <1>5, <1>6 DEF DependsOn

\* What depends on q through a table it refers to depends on q.
LEMMA DependsThrough ==
  ASSUME NEW u, NEW v \in ReferredBy(u)
  PROVE  DependsOn(u, v) /\ \A q : DependsOn(v, q) => DependsOn(u, q)
BY DEF DependsOn

\* Where every table refers to one of its own, one depends on itself: the one
\* that depends on the fewest.
LEMMA AllReferring ==
  ASSUME NEW U \in SUBSET Positions(conf), U # {}, IsFiniteSet(Positions(conf)),
         \A u \in U : \E v \in U : v \in ReferredBy(u)
  PROVE  \E p \in Positions(conf) : DependsOn(p, p)
<1> DEFINE all == Positions(conf)
           R(u) == {q \in all : DependsOn(u, q)}
           sizes == {Cardinality(R(u)) : u \in U}
<1>1. \A u \in U : IsFiniteSet(R(u)) /\ Cardinality(R(u)) \in Nat
  <2> SUFFICES ASSUME NEW u \in U PROVE IsFiniteSet(R(u)) /\ Cardinality(R(u)) \in Nat
    OBVIOUS
  <2>1. R(u) \subseteq all
    OBVIOUS
  <2> HIDE DEF R
  <2>2. QED
    BY <2>1, FS_Subset, FS_CardinalityType
<1>a. ASSUME NEW u \in U, NEW v \in U, v \in ReferredBy(u)
      PROVE  R(v) \subseteq R(u) /\ v \in R(u)
  BY <1>a, DependsThrough
<1>b. \A u : \A q \in R(u) : DependsOn(u, q)
  OBVIOUS
<1> HIDE DEF R
<1>2. PICK n \in sizes : \A m \in sizes : n <= m
  <2>1. sizes \in SUBSET Nat /\ sizes # {}
    BY <1>1
  <2> HIDE DEF sizes
  <2>2. QED
    BY <2>1, LeastNumber
<1>3. PICK u \in U : n = Cardinality(R(u))
  BY <1>2
<1>4. PICK v \in U : v \in ReferredBy(u)
  BY <1>3
<1>5. R(v) \subseteq R(u) /\ v \in R(u)
  BY <1>a, <1>4
<1>6. Cardinality(R(u)) <= Cardinality(R(v))
  BY <1>2, <1>3
<1>7. Cardinality(R(v)) <= Cardinality(R(u)) /\ (Cardinality(R(v)) = Cardinality(R(u)) => R(v) = R(u))
  BY <1>1, <1>5, FS_Subset
<1>8. R(v) = R(u)
  BY <1>1, <1>6, <1>7
<1>9. QED
  BY <1>5, <1>8, <1>b

\* A configuration that is refused although names differ has a table that
\* depends on itself: those that are left all refer to one that is left.
LEMMA RefusedDepends ==
  ASSUME conf.tables \in Seq(TableConfig), NamesDiffer(conf), Circular(conf)
  PROVE  \E p \in Positions(conf) : DependsOn(p, p)
<1> DEFINE N == Len(conf.tables)
           all == Positions(conf)
           nodes == NodesOf(conf)
           order == Sorted(conf)
           done == Members(order)
           U == all \ done
<1>1. N \in Nat /\ all = 1 .. N /\ nodes \in SUBSET (1 .. N) /\ nodes \in SUBSET Nat
  BY SortedLoops DEF Positions
<1>2. nodes = all
  BY <1>1, WaitsForReferred
<1>3. PICK s \in Loop(conf, nodes) : order = s.result /\ (Len(s.result) = N \/ s.queue = {})
  BY SortedLoops
<1>4. Len(order) # N
  BY DEF Circular
<1> HIDE DEF order, nodes, N, all
<1>5. /\ order \in Seq(nodes) /\ Listed(conf, nodes, order)
      /\ Free(conf, nodes, done) = {}
  BY <1>3, <1>4 DEF Loop
<1>6. \A k, l \in 1 .. Len(order) : order[k] = order[l] => k = l
  BY <1>1, <1>5, ListedOnce
<1>7. done # all
  BY <1>1, <1>2, <1>4, <1>5, <1>6, FullList
<1>8. done \subseteq all
  BY <1>2, <1>5, ElementsOfSeq DEF Members
<1>9. U # {} /\ U \in SUBSET all
  BY <1>7, <1>8
<1>10. ASSUME NEW u \in U PROVE \E v \in U : v \in ReferredBy(u)
  <2>1. Waiting(conf, u, done) # {}
    BY <1>2, <1>5 DEF Free
  <2>2. u \in Positions(conf)
    BY DEF all
  <2>3. ~(ReferredBy(u) \subseteq done)
    BY <2>1, <2>2, WaitsForReferred
  <2>4. ReferredBy(u) \subseteq all
    BY DEF ReferredBy, all
  <2>5. QED
    BY <2>3, <2>4
<1>11. IsFiniteSet(all)
  <2>1. \A b \in Int : IsFiniteSet(1 .. b)
    BY FS_Interval
  <2>2. QED
    BY <1>1, <2>1
<1> HIDE DEF U
<1>12. QED
  BY <1>9, <1>10, <1>11, AllReferring DEF all

\* sort_tables_topologically: a configuration is refused exactly when a table
\* depends on itself or two tables share a name, and the order of one that is
\* not is the canonical one, whatever the tables and their foreign keys.
THEOREM SortSafety == MigrationSpec => []SortIsCanonical
<1>1. MigrationInv => SortIsCanonical
  <2> SUFFICES ASSUME MigrationInv PROVE SortIsCanonical
    OBVIOUS
  <2> DEFINE all == Positions(conf)
             twins == \E p, q \in all : p # q /\ conf.tables[p].name = conf.tables[q].name
             cycle == \E p \in all : DependsOn(p, p)
  <2>1. conf.tables \in Seq(TableConfig)
    BY MigrationAssumption DEF MigrationInv
  <2>2. twins <=> ~NamesDiffer(conf)
    BY DEF NamesDiffer
  <2>3. ~Circular(conf) => NamesDiffer(conf) /\ ~cycle
    BY <2>1, AcceptedOrder, ListedDependsNot DEF NamesDiffer, Positions
  <2>4. Circular(conf) /\ NamesDiffer(conf) => cycle
    BY <2>1, RefusedDepends
  <2>5. Circular(conf) <=> twins \/ cycle
    BY <2>2, <2>3, <2>4
  <2>6. ~Circular(conf) =>
          \A i \in all :
            LET order == Sorted(conf)
                before == {order[j] : j \in 1 .. i - 1}
                ready == {p \in all \ before : ReferredBy(p) \subseteq before}
            IN order[i] = Min(ready)
    BY <2>1, ListedIsCanonical
  <2>7. QED
    BY <2>5, <2>6 DEF SortIsCanonical
<1>2. MigrationSpec => []MigrationInv
  BY MigrationInitInv, MigrationStepInv, PTL DEF MigrationSpec
<1>3. QED
  BY <1>1, <1>2, PTL

----------------------------------------------------------------------------
(* The migration: what it has done and what is left to do. *)

ColumnsWhole(t) ==
  /\ schema[t] # {}
  /\ \A a \in ColumnsOf(t) : first[t] = {} \/ Addable({}, a) => a \in schema[t]

\* The index is there, or its name may be that of another.
Named(t, a) == <<t, a>> \in indexes \/ Namesakes(t, a) # {}

IndexesWhole(t) == \A a \in ColumnsOf(t) : a \in Indexed \ Keyed => Named(t, a)

AllWhole == \A t \in Places : conf.auto[t[1]] => ColumnsWhole(t) /\ IndexesWhole(t)

MediaKept(t) ==
  \/ FilePath \in schema[t]
  \/ conf.destructive /\ conf.auto[t[1]] /\ FilePath \notin ColumnsOf(t)

\* A statement that is still to be executed.
Pending(left, op, t, a) ==
  \E k \in 1 .. Len(left) : left[k].op = op /\ left[k].table = t /\ left[k].column = a

\* What is there, or will be when the statements have been executed.
CreateDue(left, t) == first[t] = {} /\ Pending(left, "create", t, FilePath)

AddsDue(left, t) ==
  /\ schema[t] # {}
  /\ \A a \in ColumnsOf(t) :
       first[t] = {} \/ Addable({}, a) => a \in schema[t] \/ Pending(left, "add", t, a)

IndexesDue(left, t) ==
  \A a \in ColumnsOf(t) :
    a \in Indexed \ Keyed => Named(t, a) \/ Pending(left, "index", t, a)

MediaDue(left, n) ==
  \A k \in 1 .. Len(conf.media) :
    k < n => MediaKept(conf.media[k]) \/ Pending(left, "add_media", conf.media[k], FilePath)

PlaceAt(i) == Place(conf.tables[i])

\* The tables before the n-th of the order are done.
Behind(order, n) ==
  \A k \in DOMAIN order :
    k < n /\ conf.auto[conf.tables[order[k]].database] =>
      ColumnsWhole(PlaceAt(order[k])) /\ IndexesWhole(PlaceAt(order[k]))

CoversAll(order) == \A i \in DOMAIN conf.tables : \E k \in DOMAIN order : order[k] = i

Progress(r) ==
  /\ r.result = "done" => AllWhole /\ \A k \in 1 .. Len(conf.media) : MediaKept(conf.media[k])
  /\ r.pc # "ended" => CoversAll(r.order)
  /\ r.pc \in {"columns", "alter", "index"} => Behind(r.order, r.at)
  /\ r.pc = "alter" => \/ CreateDue(r.left, PlaceAt(r.order[r.at]))
                       \/ AddsDue(r.left, PlaceAt(r.order[r.at]))
  /\ r.pc = "index" => /\ ColumnsWhole(PlaceAt(r.order[r.at]))
                       /\ IndexesDue(r.left, PlaceAt(r.order[r.at]))
  /\ r.pc = "media" => AllWhole /\ MediaDue(r.left, r.at)

\* A table does not vanish, and one that a migration has created has all its
\* columns.
TablesStay ==
  \A t \in Places :
    /\ first[t] # {} => schema[t] # {}
    /\ first[t] = {} /\ schema[t] # {} => ColumnsOf(t) \subseteq schema[t]

WholeInv == TablesStay /\ \A m \in Migrators : Progress(migrators[m])

\* A step takes nothing away that the file declares.
TakesNothing ==
  /\ UNCHANGED <<conf, first>>
  /\ \A t \in Places :
       /\ schema[t] # {} => schema'[t] # {}
       /\ \A a \in ColumnsOf(t) : /\ a \in schema[t] => a \in schema'[t]
                                  /\ Named(t, a) => Named(t, a)'
       /\ MediaKept(t) => MediaKept(t)'

\* What was there, or due, is so after the step.
LEMMA DueStays ==
  ASSUME TakesNothing, NEW t \in Places, NEW left
  PROVE  /\ ColumnsWhole(t) => ColumnsWhole(t)'
         /\ IndexesWhole(t) => IndexesWhole(t)'
         /\ CreateDue(left, t) => CreateDue(left, t)'
         /\ AddsDue(left, t) => AddsDue(left, t)'
         /\ IndexesDue(left, t) => IndexesDue(left, t)'
<1>1. /\ first' = first /\ ColumnsOf(t)' = ColumnsOf(t)
      /\ schema[t] # {} => schema'[t] # {}
      /\ \A a \in ColumnsOf(t) : /\ a \in schema[t] => a \in schema'[t]
                                 /\ Named(t, a) => Named(t, a)'
  BY DEF TakesNothing, ColumnsOf, Declaration, Place
<1>2. \A op, a : Pending(left, op, t, a)' <=> Pending(left, op, t, a)
  BY DEF Pending
<1>3. ColumnsWhole(t) => ColumnsWhole(t)'
  BY <1>1 DEF ColumnsWhole
<1>4. IndexesWhole(t) => IndexesWhole(t)'
  BY <1>1 DEF IndexesWhole
<1>5. CreateDue(left, t) => CreateDue(left, t)'
  BY <1>1, <1>2 DEF CreateDue
<1>6. AddsDue(left, t) => AddsDue(left, t)'
  BY <1>1, <1>2 DEF AddsDue
<1>7. IndexesDue(left, t) => IndexesDue(left, t)'
  BY <1>1, <1>2 DEF IndexesDue
<1>8. QED
  BY <1>3, <1>4, <1>5, <1>6, <1>7

\* The places of an order's tables.
LEMMA OrderPlaces ==
  ASSUME NEW order \in Seq(DOMAIN conf.tables), NEW k \in DOMAIN order
  PROVE  /\ order[k] \in DOMAIN conf.tables /\ PlaceAt(order[k]) \in Places
         /\ PlaceAt(order[k])[1] = conf.tables[order[k]].database
<1>1. order[k] \in DOMAIN conf.tables
  BY ElementsOfSeq
<1>2. QED
  BY <1>1 DEF PlaceAt, Places, Place

\* So a migrator that does not move keeps its progress.
LEMMA ProgressStays ==
  ASSUME MigrationInv, TakesNothing, NEW r, MigratorOK(r), Progress(r)
  PROVE  Progress(r)'
<1>1. /\ conf' = conf /\ Places' = Places /\ \A i : PlaceAt(i)' = PlaceAt(i)
      /\ \A t \in Places : MediaKept(t) => MediaKept(t)'
  BY DEF TakesNothing, Places, PlaceAt, Place
<1>2. AllWhole => AllWhole'
  BY <1>1, DueStays DEF AllWhole
<1>3. \A k \in 1 .. Len(conf.media) : conf.media[k] \in Places
  <2>1. conf.media \in Seq(Places)
    BY MigrationAssumption DEF MigrationInv, Places
  <2>2. QED
    BY <2>1, ElementsOfSeq
<1>4. r.order \in Seq(DOMAIN conf.tables)
  BY DEF MigratorOK, AnyMigrator, Records
<1>5. \A k \in DOMAIN r.order : PlaceAt(r.order[k]) \in Places
  BY <1>4, OrderPlaces
<1>6. \A n : Behind(r.order, n) => Behind(r.order, n)'
  BY <1>1, <1>5, DueStays DEF Behind
<1>7. MediaDue(r.left, r.at) => MediaDue(r.left, r.at)'
  <2>1. \A t : Pending(r.left, "add_media", t, FilePath)' <=> Pending(r.left, "add_media", t, FilePath)
    BY DEF Pending
  <2>2. QED
    BY <1>1, <1>3, <2>1 DEF MediaDue
<1>8. r.pc \in {"alter", "index"} => PlaceAt(r.order[r.at]) \in Places
  BY <1>4, <1>5 DEF MigratorOK
<1>9. (r.result = "done" => AllWhole /\ \A k \in 1 .. Len(conf.media) : MediaKept(conf.media[k]))'
  BY <1>1, <1>2, <1>3 DEF Progress
<1>10. (r.pc # "ended" => CoversAll(r.order))'
  BY <1>1 DEF Progress, CoversAll
<1>11. (r.pc \in {"columns", "alter", "index"} => Behind(r.order, r.at))'
  BY <1>6 DEF Progress
<1>12. (r.pc = "alter" => \/ CreateDue(r.left, PlaceAt(r.order[r.at]))
                          \/ AddsDue(r.left, PlaceAt(r.order[r.at])))'
  BY <1>1, <1>8, DueStays DEF Progress
<1>13. (r.pc = "index" => /\ ColumnsWhole(PlaceAt(r.order[r.at]))
                          /\ IndexesDue(r.left, PlaceAt(r.order[r.at])))'
  BY <1>1, <1>8, DueStays DEF Progress
<1>14. (r.pc = "media" => AllWhole /\ MediaDue(r.left, r.at))'
  BY <1>2, <1>7 DEF Progress
<1>15. QED
  BY <1>9, <1>10, <1>11, <1>12, <1>13, <1>14 DEF Progress

\* What is pending is the next statement or one of the others.
LEMMA PendingTail ==
  ASSUME NEW left \in Seq(AnyStatement), left # <<>>, NEW op, NEW t, NEW a,
         Pending(left, op, t, a)
  PROVE  \/ Head(left).op = op /\ Head(left).table = t /\ Head(left).column = a
         \/ Pending(Tail(left), op, t, a)
<1> DEFINE S == AnyStatement
<1> HIDE DEF S
<1>1. left \in Seq(S)
  BY DEF S
<1>2. PICK k \in 1 .. Len(left) : left[k].op = op /\ left[k].table = t /\ left[k].column = a
  BY DEF Pending
<1>3. CASE k = 1
  BY <1>1, <1>2, <1>3
<1>4. CASE k # 1
  <2>1. k - 1 \in 1 .. Len(Tail(left)) /\ Tail(left)[k - 1] = left[k]
    BY <1>1, <1>4
  <2>2. QED
    BY <1>2, <2>1 DEF Pending
<1>5. QED
  BY <1>3, <1>4

\* A table of the file has columns.
LEMMA DeclaresColumns ==
  ASSUME MigrationInv, NEW t \in Places
  PROVE  ColumnsOf(t) # {}
<1>1. /\ conf.tables \in Seq(TableConfig)
      /\ \A i \in DOMAIN conf.tables : conf.tables[i].columns # <<>>
  BY MigrationAssumption DEF MigrationInv
<1>2. PICK i \in DOMAIN conf.tables : Declaration(t) = conf.tables[i]
  BY DEF Places, Declaration
<1>3. conf.tables[i] \in TableConfig /\ conf.tables[i].columns # <<>>
  BY <1>1
<1>4. conf.tables[i].columns \in Seq(STRING)
  BY <1>3 DEF TableConfig
<1> DEFINE cs == conf.tables[i].columns
<1>5. cs \in Seq(STRING) /\ cs # <<>>
  BY <1>3, <1>4
<1> HIDE DEF cs
<1>6. cs[1] \in ToSet(cs)
  BY <1>5 DEF ToSet
<1>7. QED
  BY <1>2, <1>6 DEF ColumnsOf, cs

\* A statement at a place makes that place so, and the other tables stay.
LEMMA Performs ==
  ASSUME MigrationInv, NEW s \in AnyStatement, Perform(s), UNCHANGED <<conf, first>>
  PROVE  /\ Places' = Places /\ \A t : ColumnsOf(t)' = ColumnsOf(t)
         /\ \A t \in Places : t # s.table => schema'[t] = schema[t]
         /\ s.table \in Places =>
              /\ s.op = "create" => schema'[s.table] = IF schema[s.table] # {} THEN schema[s.table]
                                                      ELSE ColumnsOf(s.table)
              /\ s.op \in {"add", "add_media"} =>
                   schema'[s.table] = schema[s.table] \cup {s.column}
              /\ s.op = "drop" => schema'[s.table] = schema[s.table] \ {s.column}
              /\ s.op = "index" => schema'[s.table] = schema[s.table]
         /\ \A t, a : Namesakes(t, a)' = Namesakes(t, a)
         /\ s.op = "index" => indexes' = IF NameTaken(s) THEN indexes
                                         ELSE indexes \cup {<<s.table, s.column>>}
         /\ s.op = "drop" => indexes' = indexes \ {<<s.table, s.column>>}
         /\ s.op \in {"create", "add", "add_media"} => indexes' = indexes
<1>1. Places' = Places /\ \A t : ColumnsOf(t)' = ColumnsOf(t)
  BY DEF Places, Place, ColumnsOf, Declaration
<1>2. DOMAIN schema = Places
  BY DEF MigrationInv
<1> DEFINE at(o) == CASE s.op = "create" -> IF o # {} THEN o ELSE ToSet(Declaration(s.table).columns)
                      [] s.op \in {"add", "add_media"} -> o \cup {s.column}
                      [] s.op = "drop" -> o \ {s.column}
                      [] s.op = "index" -> o
<1>3. schema' = [schema EXCEPT ![s.table] = at(@)]
  BY DEF Perform
<1>4. /\ s.op = "create" => at(schema[s.table]) = IF schema[s.table] # {} THEN schema[s.table]
                                                 ELSE ColumnsOf(s.table)
      /\ s.op \in {"add", "add_media"} => at(schema[s.table]) = schema[s.table] \cup {s.column}
      /\ s.op = "drop" => at(schema[s.table]) = schema[s.table] \ {s.column}
      /\ s.op = "index" => at(schema[s.table]) = schema[s.table]
  BY DEF ColumnsOf
<1> HIDE DEF at
<1>5. /\ \A t \in Places : t # s.table => schema'[t] = schema[t]
      /\ s.table \in Places => schema'[s.table] = at(schema[s.table])
  BY <1>2, <1>3
<1>6. /\ s.op = "index" => indexes' = IF NameTaken(s) THEN indexes
                                      ELSE indexes \cup {<<s.table, s.column>>}
      /\ s.op = "drop" => indexes' = indexes \ {<<s.table, s.column>>}
      /\ s.op \in {"create", "add", "add_media"} => indexes' = indexes
  BY DEF Perform
<1>7. \A t, a : Namesakes(t, a)' = Namesakes(t, a)
  <2>1. DOMAIN schema' = DOMAIN schema
    BY <1>3
  <2>2. QED
    BY <2>1 DEF Namesakes
<1>8. QED
  BY <1>1, <1>4, <1>5, <1>6, <1>7

\* What an accepted statement achieves.
Achieves(s) ==
  /\ s.op = "create" /\ s.table \in Places /\ first[s.table] = {} => ColumnsWhole(s.table)'
  /\ s.op \in {"add", "add_media"} /\ s.table \in Places => s.column \in schema'[s.table]
  /\ s.op = "index" => Named(s.table, s.column)'

\* An accepted statement takes nothing away that the file declares.
LEMMA PerformTakesNothing ==
  ASSUME MigrationInv, TablesStay, NEW s \in AnyStatement, s.op = "drop" => Lawful(s),
         Accepts(s), Perform(s), UNCHANGED <<conf, first>>
  PROVE  TakesNothing /\ TablesStay' /\ Achieves(s)
<1>1. Places' = Places /\ \A t : ColumnsOf(t)' = ColumnsOf(t)
  BY Performs
<1>2. s.op \in {"create", "add", "add_media", "drop", "index"}
  BY DEF AnyStatement
<1>3. s.op = "drop" =>
        /\ s.table \in Places /\ s.column \notin ColumnsOf(s.table)
        /\ conf.destructive /\ conf.auto[s.table[1]]
        /\ s.column \in schema[s.table] /\ schema[s.table] # {s.column}
  BY DEF Lawful, Accepts
<1>4. ASSUME NEW t \in Places
      PROVE  /\ schema[t] # {} => schema'[t] # {}
             /\ \A a \in ColumnsOf(t) : a \in schema[t] => a \in schema'[t]
             /\ FilePath \in schema[t] /\ ~(conf.destructive /\ conf.auto[t[1]] /\ FilePath \notin ColumnsOf(t))
                  => FilePath \in schema'[t]
             /\ first[t] # {} => schema[t] # {}
             /\ first[t] = {} /\ schema'[t] # {} => ColumnsOf(t) \subseteq schema'[t]
  <2>1. CASE t # s.table
    BY <2>1, Performs DEF TablesStay
  <2>2. CASE t = s.table
    <3>a. /\ first[t] # {} => schema[t] # {}
          /\ first[t] = {} /\ schema[t] # {} => ColumnsOf(t) \subseteq schema[t]
      BY DEF TablesStay
    <3>1. CASE s.op = "create"
      <4>1. schema'[t] = IF schema[t] # {} THEN schema[t] ELSE ColumnsOf(t)
        BY <2>2, <3>1, Performs
      <4>2. QED
        BY <3>a, <4>1
    <3>2. CASE s.op \in {"add", "add_media"}
      <4>1. schema'[t] = schema[t] \cup {s.column}
        BY <2>2, <3>2, Performs
      <4>2. schema[t] # {}
        BY <2>2, <3>2 DEF Accepts
      <4>3. QED
        BY <3>a, <4>1, <4>2
    <3>3. CASE s.op = "drop"
      <4>1. schema'[t] = schema[t] \ {s.column}
        BY <2>2, <3>3, Performs
      <4>2. QED
        BY <1>3, <2>2, <3>3, <3>a, <4>1
    <3>4. CASE s.op = "index"
      <4>1. schema'[t] = schema[t]
        BY <2>2, <3>4, Performs
      <4>2. QED
        BY <3>a, <4>1
    <3>5. QED
      BY <1>2, <3>1, <3>2, <3>3, <3>4
  <2>3. QED
    BY <2>1, <2>2
<1>5. ASSUME NEW t \in Places, NEW a \in ColumnsOf(t), Named(t, a)
      PROVE  Named(t, a)'
  <2>0. CASE Namesakes(t, a) # {}
    BY <2>0, Performs DEF Named
  <2> SUFFICES ASSUME <<t, a>> \in indexes PROVE Named(t, a)'
    BY <1>5, <2>0 DEF Named
  <2>1. CASE s.op = "drop"
    <3>1. <<t, a>> # <<s.table, s.column>>
      BY <1>3, <2>1
    <3>2. indexes' = indexes \ {<<s.table, s.column>>}
      BY <2>1, Performs
    <3>3. QED
      BY <3>1, <3>2 DEF Named
  <2>2. CASE s.op # "drop"
    <3>1. indexes \subseteq indexes'
      BY <1>2, <2>2, Performs
    <3>2. QED
      BY <3>1 DEF Named
  <2>3. QED
    BY <2>1, <2>2
<1>6. \A t \in Places : MediaKept(t) => MediaKept(t)'
  BY <1>1, <1>4 DEF MediaKept
<1>7. TakesNothing
  BY <1>4, <1>5, <1>6 DEF TakesNothing
<1>8. TablesStay'
  BY <1>1, <1>4 DEF TablesStay
<1>9. Achieves(s)
  <2>1. ASSUME s.op = "create", s.table \in Places, first[s.table] = {}
        PROVE  ColumnsWhole(s.table)'
    <3>1. schema'[s.table] # {}
      <4>1. schema'[s.table] = IF schema[s.table] # {} THEN schema[s.table] ELSE ColumnsOf(s.table)
        BY <2>1, Performs
      <4>2. ColumnsOf(s.table) # {}
        BY <2>1, DeclaresColumns
      <4>3. QED
        BY <4>1, <4>2
    <3>2. ColumnsOf(s.table) \subseteq schema'[s.table]
      BY <1>4, <2>1, <3>1
    <3>3. QED
      BY <1>1, <3>1, <3>2 DEF ColumnsWhole
  <2>2. ASSUME s.op \in {"add", "add_media"}, s.table \in Places
        PROVE  s.column \in schema'[s.table]
    BY <2>2, Performs
  <2>3. s.op = "index" => Named(s.table, s.column)'
    <3>1. NameTaken(s) => Namesakes(s.table, s.column) # {}
      BY DEF NameTaken
    <3>2. QED
      BY <3>1, Performs DEF Named
  <2>4. QED
    BY <2>1, <2>2, <2>3 DEF Achieves
<1>10. QED
  BY <1>7, <1>8, <1>9

\* With nothing pending the columns are there.
LEMMA NothingPending ==
  ASSUME NEW op, NEW t, NEW a
  PROVE  ~Pending(<<>>, op, t, a)
BY DEF Pending

\* A step that leaves the database alone takes nothing away.
LEMMA IdleTakesNothing ==
  ASSUME UNCHANGED <<conf, first, schema, indexes>>
  PROVE  /\ TakesNothing
         /\ TablesStay => TablesStay'
<1>1. Places' = Places /\ \A t : ColumnsOf(t)' = ColumnsOf(t)
  BY DEF Places, Place, ColumnsOf, Declaration
<1>2. QED
  BY <1>1 DEF TakesNothing, TablesStay, MediaKept, Named, Namesakes

\* A migration that only moves on, to where it has progress.
LEMMA OneProgress ==
  ASSUME MigrationInv, WholeInv, UNCHANGED <<conf, first, schema, indexes>>, NEW m \in Migrators,
         NEW e, migrators' = [migrators EXCEPT ![m] = e], Progress(e)
  PROVE  WholeInv'
<1>1. TakesNothing /\ TablesStay'
  BY IdleTakesNothing DEF WholeInv
<1>2. \A x : MigratorOK(x) /\ Progress(x) => Progress(x)'
  BY <1>1, ProgressStays
<1>3. Progress(e)'
  <2>1. \A t : /\ ColumnsOf(t)' = ColumnsOf(t)
               /\ PlaceAt(t)' = PlaceAt(t)
    BY DEF ColumnsOf, Declaration, Place, PlaceAt
  <2>2. Places' = Places
    BY DEF Places, Place
  <2>a. \A t, a : Named(t, a)' = Named(t, a)
    BY DEF Named, Namesakes
  <2>3. \A t : /\ ColumnsWhole(t)' = ColumnsWhole(t) /\ IndexesWhole(t)' = IndexesWhole(t)
               /\ MediaKept(t)' = MediaKept(t)
    BY <2>1, <2>a DEF ColumnsWhole, IndexesWhole, MediaKept
  <2>4. \A l, op, t, a : Pending(l, op, t, a)' = Pending(l, op, t, a)
    BY DEF Pending
  <2>5. AllWhole' = AllWhole /\ \A o, n : Behind(o, n)' = Behind(o, n)
    BY <2>1, <2>2, <2>3 DEF AllWhole, Behind
  <2>6. \A l, t : /\ CreateDue(l, t)' = CreateDue(l, t) /\ AddsDue(l, t)' = AddsDue(l, t)
                  /\ IndexesDue(l, t)' = IndexesDue(l, t)
    BY <2>1, <2>4, <2>a DEF CreateDue, AddsDue, IndexesDue
  <2>7. \A l, n : MediaDue(l, n)' = MediaDue(l, n)
    BY <2>3, <2>4 DEF MediaDue
  <2>8. \A o : CoversAll(o)' = CoversAll(o)
    BY DEF CoversAll
  <2>9. QED
    BY <2>1, <2>3, <2>5, <2>6, <2>7, <2>8 DEF Progress
<1>4. DOMAIN migrators = Migrators
      /\ \A o \in Migrators : MigratorOK(migrators[o]) /\ Progress(migrators[o])
  BY DEF MigrationInv, WholeInv
<1>5. \A o \in Migrators : Progress(migrators[o])'
  <2>1. ASSUME NEW o \in Migrators, NEW x, x = migrators'[o] PROVE Progress(x)'
    <3>1. x = e \/ x = migrators[o]
      BY <1>4, <2>1
    <3>2. QED
      BY <1>2, <1>3, <1>4, <3>1
  <2>2. QED
    BY <2>1
<1>6. QED
  BY <1>1, <1>5 DEF WholeInv

\* One that has ended without success owes nothing.
LEMMA EndProgress ==
  ASSUME MigrationInv, WholeInv, UNCHANGED <<conf, first, schema, indexes>>, NEW m \in Migrators,
         MigrationEnds(m, "failed")
  PROVE  WholeInv'
<1> DEFINE r == migrators[m]
           e == [r EXCEPT !.pc = "ended", !.result = "failed", !.left = <<>>, !.order = <<>>, !.at = 0]
<1>1. MigratorOK(r) /\ migrators' = [migrators EXCEPT ![m] = e]
  BY DEF MigrationEnds, MigrationInv
<1> HIDE DEF r
<1>2. e.pc = "ended" /\ e.result = "failed"
  BY <1>1 DEF MigratorOK, AnyMigrator, Records
<1> HIDE DEF e
<1>3. Progress(e)
  BY <1>2 DEF Progress
<1>4. QED
  BY <1>1, <1>3, OneProgress

\* Execution of the next statement.
LEMMA StatementProgress ==
  ASSUME MigrationInv, TablesStay, NEW r, MigratorOK(r), Progress(r), r.left # <<>>,
         Accepts(Head(r.left)), Perform(Head(r.left)), UNCHANGED <<conf, first>>
  PROVE  /\ TakesNothing /\ TablesStay'
         /\ Progress(Leave(r, Tail(r.left)))'
<1> DEFINE s == Head(r.left)
           rest == Tail(r.left)
           e == Leave(r, rest)
<1>2. /\ r \in AnyMigrator /\ r.left \in Seq(AnyStatement) /\ rest \in Seq(AnyStatement)
      /\ s \in AnyStatement /\ (s.op = "drop" => Lawful(s))
  BY LawfulTail DEF MigratorOK, LawfulSeq
<1>3. TakesNothing /\ TablesStay' /\ Achieves(s)
  BY <1>2, PerformTakesNothing
<1>4. Progress(r)'
  BY <1>3, ProgressStays
<1>5. /\ e.pc = r.pc /\ e.at = r.at /\ e.order = r.order /\ e.left = rest /\ e.result = r.result
  <2>1. /\ e.pc = r.pc /\ e.at = r.at /\ e.order = r.order /\ e.left = rest
    BY <1>2, LeaveOK
  <2>2. e.result = r.result
    BY <1>2 DEF AnyMigrator, Records, Leave
  <2>3. QED
    BY <2>1, <2>2
<1>6. /\ Places' = Places /\ conf' = conf /\ first' = first
      /\ \A i : PlaceAt(i)' = PlaceAt(i)
      /\ \A t : ColumnsOf(t)' = ColumnsOf(t)
  BY DEF Places, PlaceAt, Place, ColumnsOf, Declaration
<1>7. \A op, t, a : Pending(r.left, op, t, a) =>
        \/ s.op = op /\ s.table = t /\ s.column = a
        \/ Pending(rest, op, t, a)
  BY <1>2, PendingTail
<1>8. \A l, op, t, a : Pending(l, op, t, a)' <=> Pending(l, op, t, a)
  BY DEF Pending
<1>p. PICK p : p = PlaceAt(r.order[r.at])
  OBVIOUS
<1>q. p = PlaceAt(r.order[r.at])'
  BY <1>6, <1>p
<1>9. r.pc \in {"alter", "index"} => p \in Places
  <2>1. r.pc \in {"alter", "index"} =>
          r.order \in Seq(DOMAIN conf.tables) /\ r.at \in DOMAIN r.order
    BY <1>2 DEF MigratorOK, AnyMigrator, Records
  <2>2. QED
    BY <1>p, <2>1, OrderPlaces
<1> HIDE DEF e, s, rest
<1>10. r.pc = "alter" => CreateDue(rest, p)' \/ AddsDue(rest, p)'
  <2> SUFFICES ASSUME r.pc = "alter" PROVE CreateDue(rest, p)' \/ AddsDue(rest, p)'
    OBVIOUS
  <2>1. p \in Places
    BY <1>9
  <2>2. CreateDue(r.left, p) \/ AddsDue(r.left, p)
    BY <1>p DEF Progress
  <2>3. CASE CreateDue(r.left, p)
    <3>1. first[p] = {} /\ (\/ s.op = "create" /\ s.table = p
                            \/ Pending(rest, "create", p, FilePath))
      BY <1>7, <2>3 DEF CreateDue
    <3>2. CASE s.op = "create" /\ s.table = p
      <4>1. ColumnsWhole(p)'
        BY <1>3, <2>1, <3>1, <3>2 DEF Achieves
      <4>2. QED
        BY <2>1, <4>1 DEF ColumnsWhole, AddsDue
    <3>3. CASE Pending(rest, "create", p, FilePath)
      BY <1>6, <1>8, <2>1, <3>1, <3>3 DEF CreateDue
    <3>4. QED
      BY <3>1, <3>2, <3>3
  <2>4. CASE AddsDue(r.left, p)
    <3>0. AddsDue(r.left, p)'
      BY <1>3, <2>1, <2>4, DueStays
    <3>1. /\ schema'[p] # {}
          /\ \A a \in ColumnsOf(p) : first[p] = {} \/ Addable({}, a) =>
               a \in schema'[p] \/ Pending(r.left, "add", p, a)
      BY <1>6, <1>8, <2>1, <3>0 DEF AddsDue
    <3>2. \A a : Pending(r.left, "add", p, a) => a \in schema'[p] \/ Pending(rest, "add", p, a)
      BY <1>3, <1>7, <2>1 DEF Achieves
    <3>3. /\ schema'[p] # {}
          /\ \A a \in ColumnsOf(p) : first[p] = {} \/ Addable({}, a) =>
               a \in schema'[p] \/ Pending(rest, "add", p, a)
      BY <3>1, <3>2
    <3>4. QED
      BY <1>6, <1>8, <2>1, <3>3 DEF AddsDue
  <2>5. QED
    BY <2>2, <2>3, <2>4
<1>11. r.pc = "index" => ColumnsWhole(p)' /\ IndexesDue(rest, p)'
  <2> SUFFICES ASSUME r.pc = "index" PROVE ColumnsWhole(p)' /\ IndexesDue(rest, p)'
    OBVIOUS
  <2>1. p \in Places
    BY <1>9
  <2>2. ColumnsWhole(p)' /\ IndexesDue(r.left, p)'
    BY <1>4, <1>q DEF Progress
  <2>3. \A a \in ColumnsOf(p) : a \in Indexed \ Keyed =>
          Named(p, a)' \/ Pending(r.left, "index", p, a)
    BY <1>6, <1>8, <2>1, <2>2 DEF IndexesDue
  <2>4. \A a : Pending(r.left, "index", p, a) => Named(p, a)' \/ Pending(rest, "index", p, a)
    BY <1>3, <1>7 DEF Achieves
  <2>5. QED
    BY <1>6, <1>8, <2>1, <2>2, <2>3, <2>4 DEF IndexesDue
<1>12. r.pc = "media" => AllWhole' /\ MediaDue(rest, r.at)'
  <2> SUFFICES ASSUME r.pc = "media" PROVE AllWhole' /\ MediaDue(rest, r.at)'
    OBVIOUS
  <2>1. AllWhole' /\ MediaDue(r.left, r.at)'
    BY <1>4 DEF Progress
  <2>2. ASSUME NEW k \in 1 .. Len(conf.media), k < r.at
        PROVE  MediaKept(conf.media[k])' \/ Pending(rest, "add_media", conf.media[k], FilePath)
    <3>1. conf.media[k] \in Places
      <4>1. conf.media \in Seq(Places)
        BY MigrationAssumption DEF MigrationInv, Places
      <4>2. QED
        BY <4>1, ElementsOfSeq
    <3>2. MediaKept(conf.media[k])' \/ Pending(r.left, "add_media", conf.media[k], FilePath)
      BY <1>6, <1>8, <2>1, <2>2 DEF MediaDue
    <3>3. Pending(r.left, "add_media", conf.media[k], FilePath) =>
            \/ FilePath \in schema'[conf.media[k]]
            \/ Pending(rest, "add_media", conf.media[k], FilePath)
      BY <1>3, <1>7, <3>1 DEF Achieves
    <3>4. QED
      BY <1>6, <3>2, <3>3 DEF MediaKept
  <2>3. QED
    BY <1>6, <1>8, <2>1, <2>2 DEF MediaDue
<1>13. Progress(e)'
  BY <1>4, <1>5, <1>10, <1>11, <1>12, <1>q DEF Progress
<1>14. QED
  BY <1>3, <1>13 DEF e, rest

\* Execute keeps the progress of all.
LEMMA ExecuteProgress ==
  ASSUME MigrationInv, WholeInv, NEW m \in Migrators, Execute(m)
  PROVE  WholeInv'
<1>1. PICK r : r = migrators[m]
  OBVIOUS
<1>2. /\ DOMAIN migrators = Migrators /\ r.left # <<>> /\ UNCHANGED <<conf, first>>
      /\ \A o \in Migrators : MigratorOK(migrators[o]) /\ Progress(migrators[o])
      /\ TablesStay /\ MigratorOK(r) /\ Progress(r)
  BY <1>1 DEF MigrationInv, WholeInv, Execute
<1>3. CASE /\ Accepts(Head(r.left)) /\ Perform(Head(r.left))
           /\ migrators' = [migrators EXCEPT ![m].left = Tail(@)]
  <2>1. TakesNothing /\ TablesStay' /\ Progress(Leave(r, Tail(r.left)))'
    BY <1>2, <1>3, StatementProgress
  <2>2. migrators' = [migrators EXCEPT ![m] = Leave(r, Tail(r.left))]
    BY <1>1, <1>3 DEF Leave
  <2>3. \A x : MigratorOK(x) /\ Progress(x) => Progress(x)'
    BY <2>1, ProgressStays
  <2>4. QED
    BY <1>2, <2>1, <2>2, <2>3 DEF WholeInv
<1>4. CASE MigrationEnds(m, "failed") /\ UNCHANGED <<schema, indexes, data>>
  BY <1>1, <1>2, <1>4, EndProgress
<1>5. QED
  BY <1>1, <1>3, <1>4 DEF Execute

\* On to the next table that is migrated, or to the media tables after the
\* last.
LEMMA EnterProgress ==
  ASSUME MigrationInv, NEW r, MigratorOK(r), NEW n \in Nat \ {0}, Behind(r.order, n),
         CoversAll(r.order),
         r.result = "done" => AllWhole /\ \A k \in 1 .. Len(conf.media) : MediaKept(conf.media[k])
  PROVE  Progress(EnterTable(r, n))
<1> DEFINE rest == {k \in n .. Len(r.order) : conf.auto[conf.tables[r.order[k]].database]}
           k == NextTable(r, n)
           e == EnterTable(r, n)
<1>1. /\ r \in AnyMigrator /\ r.order \in Seq(DOMAIN conf.tables) /\ Len(r.order) \in Nat
      /\ DOMAIN r.order = 1 .. Len(r.order)
  BY DEF MigratorOK, AnyMigrator, Records
<1>2. rest # {} => Min(rest) \in rest /\ \A j \in rest : Min(rest) <= j
  <2> SUFFICES ASSUME rest # {} PROVE Min(rest) \in rest /\ \A j \in rest : Min(rest) <= j
    OBVIOUS
  <2>1. rest \in SUBSET Nat
    BY <1>1
  <2> HIDE DEF rest
  <2>2. \E x \in rest : \A y \in rest : x =< y
    BY <2>1, LeastNumber
  <2>3. QED
    BY <2>2 DEF Min
<1>3. /\ rest = {} => k = Len(r.order) + 1
      /\ rest # {} => k \in rest /\ \A j \in rest : k <= j
  BY <1>2 DEF NextTable
<1>4. k \in Nat /\ \A j \in n .. Len(r.order) : j < k => j \notin rest
  <2>1. CASE rest = {}
    BY <1>1, <1>3, <2>1
  <2>2. CASE rest # {}
    <3>1. k \in n .. Len(r.order) /\ \A j \in rest : k <= j
      BY <1>3, <2>2
    <3> HIDE DEF k, rest
    <3>2. QED
      BY <1>1, <3>1
  <2>3. QED
    BY <2>1, <2>2
<1> HIDE DEF k
<1>5. Behind(r.order, k)
  <2>1. ASSUME NEW j \in DOMAIN r.order, j < k, conf.auto[conf.tables[r.order[j]].database]
        PROVE  j < n
    <3>1. j \in 1 .. Len(r.order)
      BY <1>1
    <3>2. j \in n .. Len(r.order) => j \in rest
      BY <2>1
    <3> HIDE DEF rest
    <3>3. QED
      BY <1>1, <1>4, <2>1, <3>1, <3>2
  <2>2. QED
    BY <2>1 DEF Behind
<1>6. CASE k <= Len(r.order)
  <2>1. e = [r EXCEPT !.pc = "columns", !.at = k]
    BY <1>6 DEF EnterTable, k
  <2>2. e.pc = "columns" /\ e.at = k /\ e.order = r.order /\ e.result = r.result
    BY <1>1, <2>1 DEF AnyMigrator, Records
  <2> HIDE DEF e
  <2>3. Progress(e)
    BY <1>5, <2>2 DEF Progress
  <2>4. QED
    BY <2>3 DEF e
<1>7. CASE ~(k <= Len(r.order))
  <2>1. e = [r EXCEPT !.pc = "media", !.at = 1]
    BY <1>7 DEF EnterTable, k
  <2>2. e.pc = "media" /\ e.at = 1 /\ e.order = r.order /\ e.result = r.result
    BY <1>1, <2>1 DEF AnyMigrator, Records
  <2> HIDE DEF e
  <2>3. AllWhole
    <3> SUFFICES ASSUME NEW t \in Places, conf.auto[t[1]] PROVE ColumnsWhole(t) /\ IndexesWhole(t)
      BY DEF AllWhole
    <3>1. PICK i \in DOMAIN conf.tables : t = PlaceAt(i)
      BY DEF Places, PlaceAt
    <3>2. PICK j \in DOMAIN r.order : r.order[j] = i
      BY DEF CoversAll
    <3>3. t[1] = conf.tables[i].database
      BY <3>1 DEF PlaceAt, Place
    <3>4. j < k
      <4>1. j \in 1 .. Len(r.order)
        BY <1>1
      <4>2. QED
        BY <1>1, <1>4, <1>7, <4>1
    <3>5. QED
      BY <1>5, <3>1, <3>2, <3>3, <3>4 DEF Behind
  <2>4. MediaDue(e.left, e.at)
    <3>1. \A j \in 1 .. Len(conf.media) : ~(j < 1)
      <4>1. Len(conf.media) \in Nat
        BY MigrationAssumption DEF MigrationInv
      <4>2. QED
        BY <4>1
    <3>2. QED
      BY <2>2, <3>1 DEF MediaDue
  <2>5. Progress(e)
    BY <2>2, <2>3, <2>4 DEF Progress
  <2>6. QED
    BY <2>5 DEF e
<1>8. QED
  BY <1>6, <1>7

\* StartMigration keeps the progress of all.
LEMMA StartProgress ==
  ASSUME MigrationInv, WholeInv, NEW m \in Migrators, StartMigration(m), MigrationInv'
  PROVE  WholeInv'
<1> DEFINE alone == \A o \in Migrators \ {m} : ~Running(o)
           begun == [NotStarted EXCEPT !.alone = alone, !.order = Sorted(conf)]
           refused == [begun EXCEPT !.result = "failed", !.order = <<>>]
           mine == IF Circular(conf) THEN refused ELSE EnterTable(begun, 1)
           others == [o \in Migrators |->
                        IF Running(o) THEN NoLongerAlone(migrators[o]) ELSE migrators[o]]
<1>1. migrators' = [others EXCEPT ![m] = mine] /\ UNCHANGED <<conf, schema, indexes, first>>
  BY DEF StartMigration, NoLongerAlone
<1>a. alone \in BOOLEAN
  OBVIOUS
<1> HIDE DEF alone
<1>2. conf.tables \in Seq(TableConfig)
      /\ \A o \in Migrators : MigratorOK(migrators[o]) /\ Progress(migrators[o])
  BY MigrationAssumption DEF MigrationInv, WholeInv
<1>3. ASSUME NEW o \in Migrators PROVE Progress(others[o])
  <2> DEFINE r == migrators[o]
             e == NoLongerAlone(r)
  <2>1. r \in AnyMigrator /\ Progress(r)
    BY <1>2 DEF MigratorOK
  <2> HIDE DEF r
  <2>2. /\ e.pc = r.pc /\ e.at = r.at /\ e.order = r.order /\ e.left = r.left
        /\ e.result = r.result
    BY <2>1 DEF AnyMigrator, Records, NoLongerAlone
  <2> HIDE DEF e
  <2>3. Progress(e)
    BY <2>1, <2>2 DEF Progress
  <2>4. others[o] = r \/ others[o] = e
    BY DEF r, e
  <2>5. QED
    BY <2>1, <2>3, <2>4
<1>4. Progress(mine)
  <2>1. CASE Circular(conf)
    <3>1. refused.pc = "ended" /\ refused.result = "failed"
      BY DEF NotStarted
    <3> HIDE DEF refused
    <3>2. Progress(refused)
      BY <3>1 DEF Progress
    <3>3. QED
      BY <2>1, <3>2
  <2>2. CASE ~Circular(conf)
    <3> DEFINE O == Seq(DOMAIN conf.tables)
               L == Seq(AnyStatement)
               o == Sorted(conf)
    <3>1. o \in O /\ CoversAll(o) /\ <<>> \in L
      BY <1>2, <2>2, AcceptedOrder DEF CoversAll
    <3> HIDE DEF O, L, o
    <3>2. /\ begun \in Records(Pcs, {"none", "done", "failed"}, O, L)
          /\ begun.pc = "ended" /\ begun.left = <<>> /\ begun.order = o /\ begun.result = "none"
      BY <1>a, <3>1 DEF NotStarted, Records, Pcs, o
    <3>3. begun \in AnyMigrator
      BY <3>2 DEF AnyMigrator, O, L
    <3> HIDE DEF begun
    <3>4. MigratorOK(begun)
      BY <3>2, <3>3, EndedOK
    <3> DEFINE one == 1
    <3>5. one \in Nat \ {0} /\ Behind(begun.order, one)
      <4>1. \A j \in DOMAIN o : ~(j < 1)
        <5>1. DOMAIN o = 1 .. Len(o) /\ Len(o) \in Nat
          BY <3>1 DEF O
        <5>2. QED
          BY <5>1
      <4>2. QED
        BY <3>2, <4>1 DEF Behind
    <3> HIDE DEF one
    <3>6. Progress(EnterTable(begun, one))
      BY <3>1, <3>2, <3>4, <3>5, EnterProgress
    <3>7. QED
      BY <2>2, <3>6 DEF one
  <2>3. QED
    BY <2>1, <2>2
<1> HIDE DEF mine, others
<1>5. \A o \in Migrators : Progress(migrators'[o])
  <2>1. DOMAIN others = Migrators
    BY DEF others
  <2>2. QED
    BY <1>1, <1>3, <1>4, <2>1
<1>6. TakesNothing /\ TablesStay'
  BY <1>1, IdleTakesNothing DEF WholeInv
<1>7. \A o \in Migrators : Progress(migrators[o])'
  <2>1. \A x : MigratorOK(x) /\ Progress(x) => Progress(x)'
    BY <1>6, ProgressStays
  <2>2. \A x : MigratorOK(x)' <=> MigratorOK(x)
    <3>1. Places' = Places /\ \A t : ColumnsOf(t)' = ColumnsOf(t)
      BY <1>1 DEF Places, Place, ColumnsOf, Declaration
    <3>2. QED
      BY <1>1, <3>1 DEF MigratorOK, AnyMigrator, Records, LawfulSeq, Lawful
  <2>3. \A o \in Migrators : MigratorOK(migrators'[o])
    BY <2>2 DEF MigrationInv
  <2>4. QED
    BY <1>5, <2>1, <2>3
<1>8. QED
  BY <1>6, <1>7 DEF WholeInv

\* The wanted ones of a list are among what Only leaves of it.
LEMMA OnlyKeeps ==
  ASSUME NEW T, NEW s \in Seq(T), NEW wanted, NEW a \in ToSet(s) \cap wanted
  PROVE  \E k \in 1 .. Len(Only(s, wanted)) : Only(s, wanted)[k] = a
<1>1. PICK i \in DOMAIN s : s[i] = a
  BY DEF ToSet
<1>2. i \in PlacesOf(s, wanted)
  BY <1>1 DEF PlacesOf
<1>3. QED
  BY <1>1, <1>2, OnlyPlaces

\* So there is a statement for each of them.
LEMMA StatementsPend ==
  ASSUME NEW t \in TableConfig, NEW op, NEW wanted, NEW a \in ToSet(t.columns) \cap wanted
  PROVE  Pending(Statements(op, t, Only(t.columns, wanted)), op, Place(t), a)
<1>1. t.columns \in Seq(STRING)
  BY DEF TableConfig
<1> DEFINE o == Only(t.columns, wanted)
<1>2. o \in Seq(STRING) /\ \E k \in 1 .. Len(o) : o[k] = a
  BY <1>1, OnlyIsSeq, OnlyKeeps
<1> HIDE DEF o
<1>3. PICK k \in 1 .. Len(o) : o[k] = a
  BY <1>2
<1> DEFINE l == Statements(op, t, o)
<1>4. DOMAIN o = 1 .. Len(o) /\ Len(o) \in Nat
  BY <1>2
<1>5. Len(l) = Len(o) /\ l[k] = Statement(op, t, a)
  BY <1>3, <1>4 DEF Statements
<1>6. l[k].op = op /\ l[k].table = Place(t) /\ l[k].column = a
  BY <1>5 DEF Statement
<1> HIDE DEF l
<1>7. Pending(l, op, Place(t), a)
  BY <1>5, <1>6 DEF Pending
<1>8. QED
  BY <1>7 DEF l, o

\* What is pending in the first of two lists is pending in both together.
LEMMA PendingConcat ==
  ASSUME NEW a, NEW b, LawfulSeq(a), LawfulSeq(b), NEW op, NEW t, NEW c, Pending(a, op, t, c)
  PROVE  Pending(a \o b, op, t, c)
<1> DEFINE S == AnyStatement
<1>1. a \in Seq(S) /\ b \in Seq(S)
  BY DEF LawfulSeq
<1> HIDE DEF S
<1>2. PICK k \in 1 .. Len(a) : a[k].op = op /\ a[k].table = t /\ a[k].column = c
  BY DEF Pending
<1>3. k \in 1 .. Len(a \o b) /\ (a \o b)[k] = a[k]
  BY <1>1
<1>4. QED
  BY <1>2, <1>3 DEF Pending

\* Introspect: what is missing is asked for.
LEMMA IntrospectProgress ==
  ASSUME MigrationInv, WholeInv, NEW m \in Migrators, Introspect(m)
  PROVE  WholeInv'
<1> DEFINE r == migrators[m]
           t == TableAt(m)
           existing == schema[Place(t)]
           left == ColumnStatements(t, existing)
           p == "alter"
           e == Load(r, p, left)
<1>1. /\ r.pc = "columns" /\ MigratorOK(r) /\ r \in AnyMigrator /\ Progress(r)
      /\ migrators' = [migrators EXCEPT ![m] = e]
      /\ UNCHANGED <<conf, schema, indexes, first>>
  BY DEF Introspect, MigratorAt, MigrationInv, WholeInv, MigratorOK, Load
<1>2. /\ t \in TableConfig /\ Place(t) \in Places
      /\ Declaration(Place(t)) = t /\ conf.auto[t.database]
  BY <1>1, TableOfMigrator
<1>3. Place(t) = PlaceAt(r.order[r.at])
  BY DEF TableAt, PlaceAt
<1>4. existing \in SUBSET AnyColumn /\ IsFiniteSet(existing)
  BY <1>2 DEF MigrationInv
<1>5. /\ first[Place(t)] # {} => existing # {}
      /\ first[Place(t)] = {} /\ existing # {} => ColumnsOf(Place(t)) \subseteq existing
      /\ ColumnsOf(Place(t)) = ToSet(t.columns)
  BY <1>2 DEF WholeInv, TablesStay, ColumnsOf
<1>6. e.pc = p /\ e.at = r.at /\ e.order = r.order /\ e.left = left /\ e.result = r.result
  <2> HIDE DEF r, left, p
  <2>1. QED
    BY <1>1 DEF AnyMigrator, Records, Load
<1> HIDE DEF t, r, e
<1>7. CASE existing = {}
  <2>1. left = <<Statement("create", t, FilePath)>>
    BY <1>7 DEF ColumnStatements
  <2>2. Pending(left, "create", Place(t), FilePath)
    BY <2>1 DEF Pending, Statement
  <2>3. CreateDue(left, Place(t))
    BY <1>5, <1>7, <2>2 DEF CreateDue
  <2> HIDE DEF left
  <2>4. Progress(e)
    BY <1>1, <1>3, <1>6, <2>3 DEF Progress
  <2>5. QED
    BY <1>1, <2>4, OneProgress
<1>8. CASE existing # {}
  <2> DEFINE wanted == {a \in ToSet(t.columns) : Addable(existing, a)}
             adds == Statements("add", t, Only(t.columns, wanted))
             drops == Statements("drop", t, SetToSeq(Droppable(t, existing)))
  <2>1. left = adds \o drops
    BY <1>8 DEF ColumnStatements, AlterExistingTable
  <2>2. LawfulSeq(drops)
    BY <1>2, <1>4, DropsAreLawful
  <2>3. LawfulSeq(adds)
    <3> DEFINE add == "add"
    <3>1. t.columns \in Seq(STRING)
      BY <1>2 DEF TableConfig
    <3>2. t.columns \in Seq(AnyColumn)
      BY <3>1 DEF AnyColumn
    <3>3. Only(t.columns, wanted) \in Seq(AnyColumn)
      BY <3>2, OnlyIsSeq
    <3>4. add \in {"create", "add", "add_media", "index"}
      OBVIOUS
    <3> HIDE DEF add, wanted
    <3>5. LawfulSeq(Statements(add, t, Only(t.columns, wanted)))
      BY <1>2, <3>3, <3>4, StatementsAreLawful
    <3>6. QED
      BY <3>5 DEF add
  <2>4. ASSUME NEW a \in ColumnsOf(Place(t)), first[Place(t)] = {} \/ Addable({}, a)
        PROVE  a \in existing \/ Pending(left, "add", Place(t), a)
    <3> SUFFICES ASSUME a \notin existing PROVE Pending(left, "add", Place(t), a)
      OBVIOUS
    <3>1. a \in ToSet(t.columns) \cap wanted
      <4>1. Addable({}, a)
        BY <1>5, <1>8, <2>4
      <4>2. QED
        BY <1>5, <4>1 DEF Addable
    <3> HIDE DEF wanted
    <3>2. Pending(adds, "add", Place(t), a)
      BY <1>2, <3>1, StatementsPend
    <3> HIDE DEF adds, drops, left
    <3>3. QED
      BY <2>1, <2>2, <2>3, <3>2, PendingConcat
  <2> HIDE DEF left
  <2>5. AddsDue(left, Place(t))
    BY <1>8, <2>4 DEF AddsDue
  <2>6. Progress(e)
    BY <1>1, <1>3, <1>6, <2>5 DEF Progress
  <2>7. QED
    BY <1>1, <2>6, OneProgress
<1>9. QED
  BY <1>7, <1>8

\* LookUpIndexes: the columns are there, and what is missing of the indexes is
\* asked for.
LEMMA LookUpProgress ==
  ASSUME MigrationInv, WholeInv, NEW m \in Migrators, LookUpIndexes(m)
  PROVE  WholeInv'
<1> DEFINE r == migrators[m]
           t == TableAt(m)
           left == IndexStatements(t)
           p == "index"
           e == Load(r, p, left)
<1>1. /\ r.pc = "alter" /\ r.left = <<>> /\ MigratorOK(r) /\ r \in AnyMigrator /\ Progress(r)
      /\ migrators' = [migrators EXCEPT ![m] = e]
      /\ UNCHANGED <<conf, schema, indexes, first>>
  BY DEF LookUpIndexes, MigratorAt, MigrationInv, WholeInv, MigratorOK, Load
<1>2. /\ t \in TableConfig /\ Place(t) \in Places /\ Declaration(Place(t)) = t
  BY <1>1, TableOfMigrator
<1>3. Place(t) = PlaceAt(r.order[r.at]) /\ ColumnsOf(Place(t)) = ToSet(t.columns)
  BY <1>2 DEF TableAt, PlaceAt, ColumnsOf
<1>4. e.pc = p /\ e.at = r.at /\ e.order = r.order /\ e.left = left /\ e.result = r.result
  <2> HIDE DEF r, left, p
  <2>1. QED
    BY <1>1 DEF AnyMigrator, Records, Load
<1> HIDE DEF t, r, e
<1>5. ColumnsWhole(Place(t))
  <2>1. CreateDue(<<>>, Place(t)) \/ AddsDue(<<>>, Place(t))
    BY <1>1, <1>3 DEF Progress
  <2>2. \A op, u, a : ~Pending(<<>>, op, u, a)
    BY NothingPending
  <2>3. QED
    BY <2>1, <2>2 DEF CreateDue, AddsDue, ColumnsWhole
<1>6. ASSUME NEW a \in ColumnsOf(Place(t)), a \in Indexed \ Keyed
      PROVE  Named(Place(t), a) \/ Pending(left, "index", Place(t), a)
  <2> DEFINE wanted == {b \in Indexed \ Keyed : <<Place(t), b>> \notin ExistingIndexes(t)}
  <2>1. left = Statements("index", t, Only(t.columns, wanted))
    BY DEF IndexStatements
  <2>2. CASE <<Place(t), a>> \in ExistingIndexes(t)
    BY <2>2 DEF ExistingIndexes, Named
  <2>3. CASE <<Place(t), a>> \notin ExistingIndexes(t)
    <3>1. a \in ToSet(t.columns) \cap wanted
      BY <1>3, <1>6, <2>3
    <3> HIDE DEF wanted, left
    <3>2. QED
      BY <1>2, <2>1, <3>1, StatementsPend
  <2>4. QED
    BY <2>2, <2>3
<1> HIDE DEF left
<1>7. IndexesDue(left, Place(t))
  BY <1>6 DEF IndexesDue
<1>8. Progress(e)
  BY <1>1, <1>3, <1>4, <1>5, <1>7 DEF Progress
<1>9. QED
  BY <1>1, <1>8, OneProgress

\* TableDone: the table is whole.
LEMMA TableDoneProgress ==
  ASSUME MigrationInv, WholeInv, NEW m \in Migrators, TableDone(m)
  PROVE  WholeInv'
<1> DEFINE r == migrators[m]
           n == r.at + 1
<1>1. /\ r.pc = "index" /\ r.left = <<>> /\ MigratorOK(r) /\ r \in AnyMigrator /\ Progress(r)
      /\ migrators' = [migrators EXCEPT ![m] = EnterTable(r, n)]
      /\ UNCHANGED <<conf, schema, indexes, first>>
  BY DEF TableDone, MigratorAt, MigrationInv, WholeInv, MigratorOK
<1> HIDE DEF r
<1>2. /\ r.at \in Nat /\ n \in Nat \ {0} /\ r.order \in Seq(DOMAIN conf.tables)
      /\ DOMAIN r.order \subseteq Nat
  BY <1>1 DEF AnyMigrator, Records
<1>3. ColumnsWhole(PlaceAt(r.order[r.at])) /\ IndexesWhole(PlaceAt(r.order[r.at]))
  <2>1. ColumnsWhole(PlaceAt(r.order[r.at])) /\ IndexesDue(<<>>, PlaceAt(r.order[r.at]))
    BY <1>1 DEF Progress
  <2>2. \A op, u, a : ~Pending(<<>>, op, u, a)
    BY NothingPending
  <2>3. QED
    BY <2>1, <2>2 DEF IndexesDue, IndexesWhole
<1>4. Behind(r.order, n)
  <2>1. Behind(r.order, r.at)
    BY <1>1 DEF Progress
  <2>2. \A k \in DOMAIN r.order : k < n => k < r.at \/ k = r.at
    BY <1>2
  <2>3. QED
    BY <1>3, <2>1, <2>2 DEF Behind
<1> HIDE DEF n
<1>5. Progress(EnterTable(r, n))
  BY <1>1, <1>2, <1>4, EnterProgress DEF Progress
<1>6. QED
  BY <1>1, <1>5, OneProgress

\* EnsureMediaColumn: the column is there, or it is asked for.
LEMMA EnsureProgress ==
  ASSUME MigrationInv, WholeInv, NEW m \in Migrators, EnsureMediaColumn(m)
  PROVE  WholeInv'
<1> DEFINE r == migrators[m]
           k == r.at + 1
           t == conf.media[r.at]
           s == [op |-> "add_media", table |-> t, column |-> FilePath]
           left == IF FilePath \in schema[t] THEN <<>> ELSE <<s>>
           e == Ask(r, k, left)
<1>1. /\ r.pc = "media" /\ r.left = <<>> /\ MigratorOK(r) /\ r \in AnyMigrator /\ Progress(r)
      /\ migrators' = [migrators EXCEPT ![m] = e]
      /\ UNCHANGED <<conf, schema, indexes, first>>
  BY DEF EnsureMediaColumn, MigratorAt, MigrationInv, WholeInv, MigratorOK, Ask
<1>2. e.pc = r.pc /\ e.at = k /\ e.order = r.order /\ e.left = left /\ e.result = r.result
  <2> HIDE DEF r, left, k
  <2>1. QED
    BY <1>1 DEF AnyMigrator, Records, Ask
<1>3. r.at \in Nat
  BY <1>1 DEF AnyMigrator, Records
<1> HIDE DEF r, e
<1>4. MediaKept(t) \/ Pending(left, "add_media", t, FilePath)
  <2>1. CASE FilePath \in schema[t]
    BY <2>1 DEF MediaKept
  <2>2. CASE FilePath \notin schema[t]
    <3>1. left = <<s>> /\ s.op = "add_media" /\ s.table = t /\ s.column = FilePath
      BY <2>2
    <3> HIDE DEF s, t, left
    <3>2. Pending(left, "add_media", t, FilePath)
      BY <3>1 DEF Pending
    <3>3. QED
      BY <3>2
  <2>3. QED
    BY <2>1, <2>2
<1> HIDE DEF left
<1>5. MediaDue(left, k)
  <2>1. MediaDue(<<>>, r.at)
    BY <1>1 DEF Progress
  <2>2. \A j \in 1 .. Len(conf.media) : j < k => j < r.at \/ j = r.at
    <3>1. Len(conf.media) \in Nat
      BY MigrationAssumption DEF MigrationInv
    <3>2. QED
      BY <1>3, <3>1
  <2>3. \A op, u, a : ~Pending(<<>>, op, u, a)
    BY NothingPending
  <2>4. QED
    BY <1>4, <2>1, <2>2, <2>3 DEF MediaDue
<1> HIDE DEF k
<1>6. Progress(e)
  BY <1>1, <1>2, <1>5 DEF Progress
<1>7. QED
  BY <1>1, <1>6, OneProgress

\* MigrationDone: everything is there.
LEMMA DoneProgress ==
  ASSUME MigrationInv, WholeInv, NEW m \in Migrators, MigrationDone(m)
  PROVE  WholeInv'
<1> DEFINE r == migrators[m]
           e == [r EXCEPT !.pc = "ended", !.result = "done", !.left = <<>>, !.order = <<>>, !.at = 0]
<1>1. /\ r.pc = "media" /\ r.left = <<>> /\ r.at > Len(conf.media)
      /\ r \in AnyMigrator /\ Progress(r) /\ migrators' = [migrators EXCEPT ![m] = e]
      /\ UNCHANGED <<conf, schema, indexes, first>>
  BY DEF MigrationDone, MigrationEnds, MigratorAt, MigrationInv, WholeInv, MigratorOK
<1> HIDE DEF r
<1>2. e.pc = "ended"
  BY <1>1 DEF AnyMigrator, Records
<1>3. r.at \in Nat
  BY <1>1 DEF AnyMigrator, Records
<1> HIDE DEF e
<1>4. AllWhole /\ \A k \in 1 .. Len(conf.media) : MediaKept(conf.media[k])
  <2>1. AllWhole /\ MediaDue(<<>>, r.at)
    BY <1>1 DEF Progress
  <2>2. \A k \in 1 .. Len(conf.media) : k < r.at
    <3>1. Len(conf.media) \in Nat
      BY MigrationAssumption DEF MigrationInv
    <3>2. QED
      BY <1>1, <1>3, <3>1
  <2>3. \A op, u, a : ~Pending(<<>>, op, u, a)
    BY NothingPending
  <2>4. QED
    BY <2>1, <2>2, <2>3 DEF MediaDue
<1>5. Progress(e)
  BY <1>2, <1>4 DEF Progress
<1>6. QED
  BY <1>1, <1>5, OneProgress

\* CutShort: one that was cut short owes nothing.
LEMMA CutShortProgress ==
  ASSUME MigrationInv, WholeInv, NEW m \in Migrators, CutShort(m)
  PROVE  WholeInv'
<1> DEFINE e == [NotStarted EXCEPT !.result = "failed", !.faultless = FALSE]
<1>1. migrators' = [migrators EXCEPT ![m] = e] /\ UNCHANGED <<conf, schema, indexes, first>>
  BY DEF CutShort
<1>2. e.pc = "ended" /\ e.result = "failed"
  BY DEF NotStarted
<1> HIDE DEF e
<1>3. Progress(e)
  BY <1>2 DEF Progress
<1>4. QED
  BY <1>1, <1>3, OneProgress

\* At first nothing was achieved and nothing is due.
LEMMA WholeInitInv == MigrationInit => WholeInv
<1> SUFFICES ASSUME MigrationInit PROVE WholeInv
  OBVIOUS
<1>1. first = schema /\ migrators = [m \in Migrators |-> NotStarted]
  BY DEF MigrationInit
<1>2. Progress(NotStarted)
  BY DEF Progress, NotStarted
<1>3. QED
  BY <1>1, <1>2 DEF WholeInv, TablesStay

\* Every step of a migration keeps the progress of all.
LEMMA WholeStepInv ==
  MigrationInv /\ MigrationInv' /\ WholeInv /\ [MigrationNext]_migrationVars => WholeInv'
<1> SUFFICES ASSUME MigrationInv, MigrationInv', WholeInv, [MigrationNext]_migrationVars
             PROVE  WholeInv'
  OBVIOUS
<1>1. CASE UNCHANGED migrationVars
  <2>1. TakesNothing /\ TablesStay' /\ migrators' = migrators
    BY <1>1, IdleTakesNothing DEF WholeInv, migrationVars
  <2>2. \A x : MigratorOK(x) /\ Progress(x) => Progress(x)'
    BY <2>1, ProgressStays
  <2>3. \A m \in Migrators : MigratorOK(migrators[m]) /\ Progress(migrators[m])
    BY DEF MigrationInv, WholeInv
  <2>4. QED
    BY <2>1, <2>2, <2>3 DEF WholeInv
<1>2. ASSUME NEW m \in Migrators, MigrationStep(m) PROVE WholeInv'
  BY <1>2, StartProgress, IntrospectProgress, ExecuteProgress, LookUpProgress,
     TableDoneProgress, EnsureProgress, DoneProgress, CutShortProgress DEF MigrationStep
<1>3. QED
  BY <1>1, <1>2 DEF MigrationNext

\* A migration that reports success leaves every table it takes care of with
\* every column that can be given to it and every index, and the tables of the
\* media endpoints with their column, for every configuration and every
\* database as it was found, however the migrations of start-ups and reloads
\* overlap and whatever those that were cut short left behind.
THEOREM SuccessSafety == MigrationSpec => []SuccessIsWhole
<1>1. MigrationInv /\ WholeInv => SuccessIsWhole
  <2> SUFFICES ASSUME MigrationInv, WholeInv, NEW m \in Migrators, migrators[m].result = "done"
               PROVE  /\ \A t \in Migrated :
                           /\ schema[t] # {}
                           /\ \A a \in ColumnsOf(t) :
                                /\ first[t] = {} \/ Addable({}, a) => a \in schema[t]
                                /\ a \in Indexed \ Keyed => <<t, a>> \in indexes \/ Namesakes(t, a) # {}
                      /\ \A t \in ToSet(conf.media) :
                           \/ FilePath \in schema[t]
                           \/ conf.destructive /\ t \in Migrated /\ FilePath \notin ColumnsOf(t)
    BY DEF SuccessIsWhole
  <2>1. AllWhole /\ \A k \in 1 .. Len(conf.media) : MediaKept(conf.media[k])
    BY DEF WholeInv, Progress
  <2>2. DOMAIN schema = Places /\ conf.media \in Seq(Places)
    BY MigrationAssumption DEF MigrationInv, Places
  <2>3. \A t \in Migrated : ColumnsWhole(t) /\ IndexesWhole(t)
    BY <2>1, <2>2 DEF Migrated, AllWhole
  <2>4. \A t \in ToSet(conf.media) : MediaKept(t) /\ t \in DOMAIN schema
    <3>1. \A t \in ToSet(conf.media) : \E k \in 1 .. Len(conf.media) : conf.media[k] = t
      BY <2>2 DEF ToSet
    <3>2. \A k \in 1 .. Len(conf.media) : conf.media[k] \in Places
      BY <2>2, ElementsOfSeq
    <3>3. QED
      BY <2>1, <2>2, <3>1, <3>2
  <2>5. QED
    BY <2>3, <2>4 DEF ColumnsWhole, IndexesWhole, Named, MediaKept, Migrated
<1>2. MigrationSpec => []MigrationInv
  BY MigrationInitInv, MigrationStepInv, PTL DEF MigrationSpec
<1>3. QED
  BY <1>1, <1>2, WholeInitInv, WholeStepInv, PTL DEF MigrationSpec

----------------------------------------------------------------------------
(* The migration: what a migrator alone finds, and what it makes of it. *)

\* No element of the list occurs twice.
Once(q) == \A k, l \in 1 .. Len(q) : q[k] = q[l] => k = l

\* Of a list in which everything occurs once, so does what is wanted.
LEMMA OnlyOnce ==
  ASSUME NEW T, NEW s \in Seq(T), Once(s), NEW wanted
  PROVE  /\ Only(s, wanted) \in Seq(T) /\ Once(Only(s, wanted))
         /\ \A k \in 1 .. Len(Only(s, wanted)) : Only(s, wanted)[k] \in ToSet(s) \cap wanted
<1> DEFINE N == Len(s)
<1>1. PICK g : OnlyUpto(s, wanted, T, g)
  BY OnlyRecursion
<1>2. /\ N \in Nat /\ g \in [0 .. N -> Seq(T)] /\ g[0] = <<>> /\ g[N] = Only(s, wanted)
      /\ \A n \in 1 .. N : g[n] = IF s[n] \in wanted THEN Append(g[n - 1], s[n]) ELSE g[n - 1]
      /\ \A n \in 1 .. N : s[n] \in T
      /\ \A n \in 1 .. N : s[n] \in ToSet(s)
      /\ \A i, j \in 1 .. N : s[i] = s[j] => i = j
  BY <1>1 DEF OnlyUpto, Once, ToSet
<1> HIDE DEF N
<1> DEFINE Chosen(q, n) == \A k \in 1 .. Len(q) : \E i \in 1 .. n : q[k] = s[i] /\ s[i] \in wanted
           S == {n \in 0 .. N : Once(g[n]) /\ Chosen(g[n], n)}
<1>3. 0 \in S
  <2>1. Len(g[0]) = 0 /\ 0 \in 0 .. N /\ \A k \in 1 .. 0 : FALSE
    BY <1>2
  <2>2. QED
    BY <2>1 DEF Once
<1>4. ASSUME NEW n \in 1 .. N, n - 1 \in S PROVE n \in S
  <2>1. n \in 0 .. N /\ n - 1 \in 0 .. N
    BY <1>2
  <2>2. PICK q \in Seq(T) : q = g[n - 1]
    BY <1>2, <2>1
  <2>3. Once(q) /\ Chosen(q, n - 1)
    BY <1>4, <2>2
  <2>4. CASE s[n] \in wanted
    <3>1. PICK a : a = Append(q, s[n])
      OBVIOUS
    <3>2. /\ Len(a) = Len(q) + 1 /\ Len(q) \in Nat /\ a[Len(q) + 1] = s[n]
          /\ \A k \in 1 .. Len(q) : a[k] = q[k]
      BY <1>2, <3>1
    <3>3. \A k \in 1 .. Len(a) : k \in 1 .. Len(q) \/ k = Len(q) + 1
      BY <3>2
    <3>4. \A k \in 1 .. Len(q) : a[k] # s[n]
      <4> SUFFICES ASSUME NEW k \in 1 .. Len(q) PROVE a[k] # s[n]
        OBVIOUS
      <4>1. PICK i \in 1 .. n - 1 : q[k] = s[i]
        BY <2>3
      <4>2. i \in 1 .. N /\ i # n
        BY <1>2
      <4>3. QED
        BY <1>2, <3>2, <4>1, <4>2
    <3>5. Once(a)
      BY <2>3, <3>2, <3>3, <3>4 DEF Once
    <3>6. Chosen(a, n)
      <4>1. \A i \in 1 .. n - 1 : i \in 1 .. n
        BY <1>2
      <4>2. n \in 1 .. n
        BY <1>2
      <4>3. QED
        BY <2>3, <2>4, <3>2, <3>3, <4>1, <4>2
    <3>7. g[n] = a
      BY <1>2, <2>2, <2>4, <3>1
    <3> HIDE DEF Chosen
    <3>8. QED
      BY <2>1, <3>5, <3>6, <3>7
  <2>5. CASE s[n] \notin wanted
    <3>1. g[n] = q
      BY <1>2, <2>2, <2>5
    <3>2. \A i \in 1 .. n - 1 : i \in 1 .. n
      BY <1>2
    <3>3. Chosen(q, n)
      BY <2>3, <3>2
    <3> HIDE DEF Chosen
    <3>4. QED
      BY <2>1, <2>3, <3>1, <3>3
  <2>6. QED
    BY <2>4, <2>5
<1>5. N \in S
  <2>1. N \in 0 .. N
    BY <1>2
  <2> HIDE DEF S
  <2>2. QED
    BY <1>2, <1>3, <1>4, <2>1, UpToN
<1>6. Once(g[N]) /\ \A k \in 1 .. Len(g[N]) : g[N][k] \in ToSet(s) \cap wanted
  BY <1>2, <1>5
<1>7. Only(s, wanted) \in Seq(T)
  BY OnlyIsSeq
<1>8. QED
  BY <1>2, <1>6, <1>7

\* The list of a finite set has each element once.
LEMMA SetToSeqOnce ==
  ASSUME NEW S, IsFiniteSet(S)
  PROVE  SetToSeq(S) \in Seq(S) /\ Once(SetToSeq(S))
<1>1. Cardinality(S) \in Nat /\ \E f \in [1 .. Cardinality(S) -> S] : IsInjective(f)
  BY FS_CardinalityType DEF ExistsBijection, Bijection, Injection
<1>2. SetToSeq(S) \in [1 .. Cardinality(S) -> S] /\ IsInjective(SetToSeq(S))
  BY <1>1 DEF SetToSeq
<1>3. QED
  BY <1>1, <1>2 DEF Once, IsInjective

\* The statements of columns that differ differ, and are what they say.
LEMMA StatementsOnce ==
  ASSUME NEW T, NEW columns \in Seq(T), Once(columns), NEW op, NEW t
  PROVE  LET l == Statements(op, t, columns)
         IN /\ Len(l) = Len(columns) /\ Once(l)
            /\ \A k \in 1 .. Len(l) : /\ l[k].op = op /\ l[k].table = Place(t)
                                      /\ l[k].column = columns[k]
<1> DEFINE l == Statements(op, t, columns)
<1>1. /\ DOMAIN columns = 1 .. Len(columns) /\ Len(columns) \in Nat
      /\ l = [i \in 1 .. Len(columns) |-> Statement(op, t, columns[i])]
  BY DEF Statements
<1>2. Len(l) = Len(columns)
  BY <1>1
<1>3. \A k \in 1 .. Len(l) : l[k] = Statement(op, t, columns[k])
  BY <1>1, <1>2
<1> HIDE DEF l
<1>a. \A a : /\ Statement(op, t, a).op = op /\ Statement(op, t, a).table = Place(t)
             /\ Statement(op, t, a).column = a
  BY DEF Statement
<1>4. \A k \in 1 .. Len(l) : l[k].op = op /\ l[k].table = Place(t) /\ l[k].column = columns[k]
  BY <1>a, <1>3
<1>5. Once(l)
  BY <1>2, <1>4 DEF Once
<1>6. QED
  BY <1>2, <1>4, <1>5 DEF l

\* First the one list, then the other.
LEMMA OnceConcat ==
  ASSUME NEW T, NEW a \in Seq(T), NEW b \in Seq(T), Once(a), Once(b),
         \A k \in 1 .. Len(a), j \in 1 .. Len(b) : a[k] # b[j]
  PROVE  /\ Once(a \o b)
         /\ \A k \in 1 .. Len(a \o b) :
              \/ k \in 1 .. Len(a) /\ (a \o b)[k] = a[k]
              \/ k - Len(a) \in 1 .. Len(b) /\ (a \o b)[k] = b[k - Len(a)] /\ k > Len(a)
<1> DEFINE c == a \o b
<1>1. /\ Len(a) \in Nat /\ Len(b) \in Nat /\ Len(c) = Len(a) + Len(b)
      /\ \A k \in 1 .. Len(a) : c[k] = a[k]
      /\ \A k \in Len(a) + 1 .. Len(a) + Len(b) : c[k] = b[k - Len(a)]
  OBVIOUS
<1> HIDE DEF c
<1>2. ASSUME NEW k \in 1 .. Len(c)
      PROVE  \/ k \in 1 .. Len(a) /\ c[k] = a[k]
             \/ k - Len(a) \in 1 .. Len(b) /\ c[k] = b[k - Len(a)] /\ k > Len(a)
  <2>1. k \in 1 .. Len(a) \/ (k \in Len(a) + 1 .. Len(a) + Len(b) /\ k - Len(a) \in 1 .. Len(b) /\ k > Len(a))
    BY <1>1
  <2>2. QED
    BY <1>1, <2>1
<1>3. ASSUME NEW k \in 1 .. Len(c), NEW j \in 1 .. Len(c), c[k] = c[j] PROVE k = j
  <2>1. CASE k \in 1 .. Len(a) /\ c[k] = a[k]
    <3>1. j \in 1 .. Len(a) /\ c[j] = a[j]
      BY <1>2, <1>3, <2>1
    <3>2. QED
      BY <1>3, <2>1, <3>1 DEF Once
  <2>2. CASE k - Len(a) \in 1 .. Len(b) /\ c[k] = b[k - Len(a)]
    <3>1. j - Len(a) \in 1 .. Len(b) /\ c[j] = b[j - Len(a)]
      BY <1>2, <1>3, <2>2
    <3>2. k - Len(a) = j - Len(a)
      BY <1>3, <2>2, <3>1 DEF Once
    <3>3. QED
      BY <1>1, <3>2
  <2>3. QED
    BY <1>2, <2>1, <2>2
<1>4. QED
  BY <1>2, <1>3 DEF Once, c

\* What the table had at first is there, unless the database was allowed to
\* drop it.
Kept ==
  \A t \in Places : \A a \in first[t] :
    a \in schema[t] \/ (conf.destructive /\ conf.auto[t[1]] /\ a \notin ColumnsOf(t))

\* The statement was made for what the database has.
Fits(s) ==
  /\ s.op = "add" => schema[s.table] # {} /\ s.column \notin schema[s.table]
  /\ s.op = "drop" => s.column \in schema[s.table]
  /\ s.op = "index" => /\ s.column \in ColumnsOf(s.table) \cap Indexed /\ s.column \notin Keyed
                       /\ conf.driver = "mysql" => <<s.table, s.column>> \notin indexes
  /\ s.op = "add_media" => s.column = FilePath /\ FilePath \notin schema[s.table]

\* Drops come last.
AddsFirst(left) ==
  \A k, l \in 1 .. Len(left) : k < l /\ left[k].op = "drop" => left[l].op = "drop"

\* The statements of each stage: a table is created by one statement.
Staged(r) ==
  \A k \in 1 .. Len(r.left) :
    /\ r.pc \in {"alter", "index"} => r.left[k].table = PlaceAt(r.order[r.at])
    /\ r.pc = "alter" => \/ r.left[k].op = "create" /\ Len(r.left) = 1
                         \/ r.left[k].op \in {"add", "drop"}
    /\ r.pc = "index" => r.left[k].op = "index"
    /\ r.pc = "media" => r.left[k].op = "add_media" /\ r.left[k].table \in ToSet(conf.media)

Ready(r) ==
  /\ Once(r.left) /\ AddsFirst(r.left) /\ Staged(r)
  /\ \A k \in 1 .. Len(r.left) : Fits(r.left[k])

\* A migrator that is alone is ready for all it has to execute.
HealOK(r) ==
  /\ r.pc # "ended" => r.order = Sorted(conf)
  /\ r.pc # "ended" /\ r.alone => Ready(r)
  /\ r.result = "failed" /\ r.alone /\ r.faultless => Hopeless

HealInv ==
  /\ Kept
  /\ \A m \in Migrators :
       /\ HealOK(migrators[m])
       /\ migrators[m].pc # "ended" /\ migrators[m].alone =>
            \A o \in Migrators : o # m => migrators[o].pc = "ended"

\* Hopeless speaks of what does not change and of indexes that stay.
LEMMA HopelessStays ==
  ASSUME UNCHANGED <<conf, first>>, DOMAIN schema' = DOMAIN schema,
         conf.driver = "sqlite" => indexes \subseteq indexes', Hopeless
  PROVE  Hopeless'
<1>1. \A t : ColumnsOf(t)' = ColumnsOf(t)
  BY DEF ColumnsOf, Declaration, Place
<1>2. Migrated' = Migrated
  BY DEF Migrated
<1>3. \A t, a : Withheld(t, a)' <=> Withheld(t, a)
  BY DEF Withheld
<1>4. QED
  BY <1>1, <1>2, <1>3 DEF Hopeless

\* The tables that a migrated table refers to are there when its turn comes.
LEMMA ReferencesAreThere ==
  ASSUME MigrationInv, NEW r, MigratorOK(r), Progress(r), r.pc = "alter", r.order = Sorted(conf),
         NEW p, p = PlaceAt(r.order[r.at]), NEW n \in ToSet(Declaration(p).references)
  PROVE  schema[<<p[1], n>>] # {}
<1> DEFINE order == Sorted(conf)
           i == order[r.at]
<1>1. conf.tables \in Seq(TableConfig) /\ ~Circular(conf) /\ NamesDiffer(conf)
      /\ \A j \in DOMAIN conf.tables : \A x \in ToSet(conf.tables[j].references) :
           \E k \in DOMAIN conf.tables : Place(conf.tables[k]) = <<conf.tables[j].database, x>>
  <2>1. conf \in Configurations /\ ~Circular(conf)
    BY DEF MigrationInv, MigratorOK
  <2>2. conf.tables \in Seq(TableConfig)
    BY <2>1, MigrationAssumption
  <2>3. NamesDiffer(conf)
    BY <2>1, <2>2, AcceptedOrder DEF NamesDiffer, Positions
  <2>4. \A j \in DOMAIN conf.tables : \A x \in ToSet(conf.tables[j].references) :
          \E k \in DOMAIN conf.tables : Place(conf.tables[k]) = <<conf.tables[j].database, x>>
    BY <2>1, MigrationAssumption
  <2>5. QED
    BY <2>1, <2>2, <2>3, <2>4
<1>2. /\ order \in Seq(Positions(conf)) /\ Listed(conf, Positions(conf), order)
      /\ r.at \in 1 .. Len(order) /\ conf.auto[conf.tables[i].database]
      /\ Behind(order, r.at)
  BY <1>1, AcceptedOrder DEF Positions, MigratorOK, Progress
<1> HIDE DEF order
<1>3. i \in Positions(conf) /\ p = Place(conf.tables[i]) /\ p[1] = conf.tables[i].database
  BY <1>2, ElementsOfSeq DEF PlaceAt, Place, order
<1>4. Declaration(p) = conf.tables[i]
  <2>1. \A j \in DOMAIN conf.tables : Place(conf.tables[j]) = p => j = i
    BY <1>1, <1>3 DEF Place, NamesDiffer, Positions
  <2> HIDE DEF i
  <2>2. QED
    BY <1>3, <2>1 DEF Declaration, Positions
<1> HIDE DEF i
<1>5. PICK q \in DOMAIN conf.tables : Place(conf.tables[q]) = <<p[1], n>>
  BY <1>1, <1>3, <1>4 DEF Positions
<1>6. conf.tables[q].name = n /\ conf.tables[q].database = conf.tables[i].database
  BY <1>3, <1>5 DEF Place
<1>7. q \in ReferredBy(i)
  BY <1>4, <1>6 DEF ReferredBy, Refers, Positions
<1>8. q \in Prior(order, r.at)
  <2>1. i \in Free(conf, Positions(conf), Prior(order, r.at))
    BY <1>2 DEF Listed, LeastIn, i
  <2>2. Waiting(conf, i, Prior(order, r.at)) = {}
    BY <2>1 DEF Free
  <2>3. ReferredBy(i) \subseteq Prior(order, r.at)
    BY <1>1, <1>3, <2>2, WaitsForReferred
  <2>4. QED
    BY <1>7, <2>3
<1>9. PICK k \in 1 .. r.at - 1 : order[k] = q
  BY <1>8 DEF Prior
<1>10. k \in DOMAIN order /\ k < r.at
  BY <1>2
<1>11. ColumnsWhole(PlaceAt(q))
  BY <1>2, <1>6, <1>9, <1>10 DEF Behind, i
<1>12. QED
  BY <1>5, <1>11 DEF ColumnsWhole, PlaceAt

\* The statement that is refused to a migrator alone was hopeless.
LEMMA RefusedIsHopeless ==
  ASSUME MigrationInv, TablesStay, Kept, NEW r, MigratorOK(r), Progress(r), Ready(r),
         r.order = Sorted(conf), r.pc \in {"alter", "index", "media"}, r.left # <<>>,
         ~Accepts(Head(r.left))
  PROVE  Hopeless
<1> DEFINE s == Head(r.left)
           t == s.table
<1>1. /\ r.left \in Seq(AnyStatement) /\ Len(r.left) \in Nat \ {0} /\ s = r.left[1]
      /\ s \in AnyStatement /\ 1 \in 1 .. Len(r.left)
      /\ s.op = "drop" => Lawful(s)
  <2>1. r.left \in Seq(AnyStatement) /\ s \in AnyStatement /\ (s.op = "drop" => Lawful(s))
    BY LawfulTail DEF MigratorOK, LawfulSeq
  <2> DEFINE S == AnyStatement
  <2> HIDE DEF S
  <2>2. r.left \in Seq(S)
    BY <2>1 DEF S
  <2>3. Len(r.left) \in Nat \ {0} /\ s = r.left[1]
    BY <2>2
  <2>4. QED
    BY <2>1, <2>3
<1>2. Fits(s)
  BY <1>1 DEF Ready
<1>3. /\ r.pc \in {"alter", "index"} => t = PlaceAt(r.order[r.at])
      /\ r.pc = "alter" => s.op \in {"create", "add", "drop"}
      /\ r.pc = "index" => s.op = "index"
      /\ r.pc = "media" => s.op = "add_media" /\ t \in ToSet(conf.media)
  BY <1>1 DEF Ready, Staged
<1>4. r.pc \in {"alter", "index"} => t \in Places /\ conf.auto[t[1]] /\ t \in Migrated
  <2>1. r.pc \in {"alter", "index"} =>
          /\ r.order \in Seq(DOMAIN conf.tables) /\ r.at \in DOMAIN r.order
          /\ conf.auto[conf.tables[r.order[r.at]].database]
    BY DEF MigratorOK, AnyMigrator, Records
  <2>2. r.pc \in {"alter", "index"} => t \in Places /\ conf.auto[t[1]]
    BY <1>3, <2>1, OrderPlaces
  <2>3. QED
    BY <2>2 DEF Migrated, MigrationInv
<1>5. ASSUME NEW u \in Places, NEW a \in ColumnsOf(u), ColumnsWhole(u), a \notin schema[u]
      PROVE  Withheld(u, a)
  BY <1>5 DEF ColumnsWhole, Withheld, Kept
<1> HIDE DEF s
<1>6. CASE r.pc = "alter" /\ s.op = "create"
  <2>1. \A n \in ToSet(Declaration(t).references) : schema[<<t[1], n>>] # {}
    BY <1>3, <1>6, ReferencesAreThere
  <2>2. QED
    BY <1>6, <2>1 DEF Accepts, s
<1>7. CASE r.pc = "alter" /\ s.op = "add"
  BY <1>2, <1>7 DEF Accepts, Fits, s
<1>8. CASE r.pc = "alter" /\ s.op = "drop"
  <2>a. /\ conf.destructive /\ t \in Places /\ t \in Migrated /\ s.column \notin ColumnsOf(t)
        /\ \/ schema[t] = {s.column}
           \/ s.column \in first[t] \cap Bound
           \/ conf.driver = "sqlite" /\ <<t, s.column>> \in indexes
    BY <1>1, <1>2, <1>4, <1>8 DEF Lawful, Accepts, Fits, s
  <2>b. CASE s.column \in first[t] \cap Bound
    BY <2>a, <2>b DEF Hopeless
  <2>c. CASE conf.driver = "sqlite" /\ <<t, s.column>> \in indexes
    <3>1. PICK i : i = <<t, s.column>>
      OBVIOUS
    <3>2. i \in indexes /\ i[1] = t /\ i[2] \notin ColumnsOf(t)
      BY <2>a, <2>c, <3>1
    <3>3. QED
      BY <2>a, <2>c, <3>2 DEF Hopeless
  <2> SUFFICES ASSUME schema[t] = {s.column} PROVE Hopeless
    BY <2>a, <2>b, <2>c
  <2>1. /\ conf.destructive /\ t \in Places /\ t \in Migrated
        /\ s.column \notin ColumnsOf(t) /\ schema[t] = {s.column}
    BY <2>a
  <2>2. \A a : ~Pending(r.left, "create", t, a) /\ ~Pending(r.left, "add", t, a)
    <3> SUFFICES ASSUME NEW k \in 1 .. Len(r.left) PROVE r.left[k].op \notin {"create", "add"}
      BY DEF Pending
    <3>1. CASE k = 1
      BY <1>1, <1>8, <3>1
    <3>2. CASE k # 1
      <4>1. 1 < k /\ Len(r.left) # 1
        <5>1. PICK n : n = Len(r.left)
          OBVIOUS
        <5>2. n \in Nat /\ k \in 1 .. n
          BY <1>1, <5>1
        <5>3. 1 < k /\ n # 1
          BY <3>2, <5>2
        <5>4. QED
          BY <5>1, <5>3
      <4>2. r.left[k].op = "drop"
        BY <1>1, <1>8, <4>1 DEF Ready, AddsFirst
      <4>3. QED
        BY <4>2
    <3>3. QED
      BY <3>1, <3>2
  <2>3. \A a \in ColumnsOf(t) : a \notin schema[t]
    BY <2>1
  <2>4. ColumnsWhole(t)
    <3>1. AddsDue(r.left, t)
      <4>1. CreateDue(r.left, PlaceAt(r.order[r.at])) \/ AddsDue(r.left, PlaceAt(r.order[r.at]))
        BY <1>8 DEF Progress
      <4>2. t = PlaceAt(r.order[r.at])
        BY <1>3, <1>8
      <4>3. ~CreateDue(r.left, t)
        BY <2>2 DEF CreateDue
      <4> HIDE DEF t
      <4>4. QED
        BY <4>1, <4>2, <4>3
    <3>2. QED
      BY <2>2, <3>1 DEF AddsDue, ColumnsWhole
  <2>5. \A a \in ColumnsOf(t) : Withheld(t, a)
    BY <1>5, <2>1, <2>3, <2>4
  <2>6. QED
    BY <2>1, <2>5 DEF Hopeless
<1>9. CASE r.pc = "index"
  <2>1. ColumnsWhole(t) /\ t \in Places /\ t \in Migrated
    BY <1>3, <1>4, <1>9 DEF Progress
  <2>2. /\ s.column \in ColumnsOf(t) \cap Indexed /\ s.column \notin Keyed
        /\ conf.driver = "mysql" => <<t, s.column>> \notin indexes
    BY <1>2, <1>3, <1>9 DEF Fits
  <2>3. s.column \notin schema[t]
    BY <1>3, <1>9, <2>2 DEF Accepts, s
  <2>4. Withheld(t, s.column)
    BY <1>5, <2>1, <2>2, <2>3
  <2>5. QED
    BY <2>1, <2>2, <2>4 DEF Hopeless
<1>10. CASE r.pc = "media"
  <2>1. /\ s.op = "add_media" /\ t \in ToSet(conf.media) /\ t \in Places
        /\ s.column = FilePath /\ FilePath \notin schema[t]
    <3>1. conf.media \in Seq(Places)
      BY MigrationAssumption DEF MigrationInv, Places
    <3>2. \A x \in ToSet(conf.media) : x \in Places
      BY <3>1, ElementsOfSeq DEF ToSet
    <3>3. QED
      BY <1>2, <1>3, <1>10, <3>2 DEF Fits
  <2>2. t \in Migrated => ColumnsWhole(t)
    BY <1>10, <2>1 DEF Progress, AllWhole, Migrated, MigrationInv
  <2>3. conf.driver = "mysql" \/ schema[t] = {}
    BY <2>1 DEF Accepts, s
  <2>4. CASE schema[t] = {}
    <3>1. t \notin Migrated
      BY <2>2, <2>4 DEF ColumnsWhole
    <3>2. first[t] = {}
      BY <2>1, <2>4 DEF TablesStay
    <3>3. QED
      BY <2>1, <3>1, <3>2 DEF Hopeless
  <2>5. CASE conf.driver = "mysql"
    <3>1. CASE t \in Migrated /\ FilePath \in ColumnsOf(t)
      <4>1. Withheld(t, FilePath)
        BY <1>5, <2>1, <2>2, <3>1
      <4>2. QED
        BY <2>1, <2>5, <3>1, <4>1 DEF Hopeless
    <3>2. CASE ~(t \in Migrated /\ FilePath \in ColumnsOf(t))
      <4>1. FilePath \notin first[t] \/ (conf.destructive /\ t \in Migrated)
        BY <2>1 DEF Kept, Migrated, MigrationInv
      <4>2. QED
        BY <2>1, <2>5, <3>2, <4>1 DEF Hopeless
    <3>3. QED
      BY <3>1, <3>2
  <2>6. QED
    BY <2>3, <2>4, <2>5
<1>11. QED
  BY <1>3, <1>6, <1>7, <1>8, <1>9, <1>10

\* A statement that is executed leaves the others of its list fitting.
LEMMA FitsStays ==
  ASSUME MigrationInv, NEW s \in AnyStatement, NEW u \in AnyStatement, s # u,
         s.table \in Places, u.table \in Places, Fits(u), Accepts(s), Perform(s),
         UNCHANGED <<conf, first>>,
         \/ s.op = "add" /\ u.op \in {"add", "drop"}
         \/ s.op \in {"drop", "index", "add_media"} /\ u.op = s.op
  PROVE  Fits(u)'
<1>1. s.op = u.op /\ s.table = u.table => s.column # u.column
  BY DEF AnyStatement
<1>2. ColumnsOf(u.table)' = ColumnsOf(u.table)
  BY Performs
<1>3. schema'[u.table] = IF u.table = s.table
                         THEN IF s.op \in {"add", "add_media"} THEN schema[u.table] \cup {s.column}
                              ELSE IF s.op = "drop" THEN schema[u.table] \ {s.column}
                              ELSE schema[u.table]
                         ELSE schema[u.table]
  BY Performs
<1>4. s.op = "index" => indexes' \subseteq indexes \cup {<<s.table, s.column>>}
  BY Performs
<1>5. CASE u.op = "add"
  <2>1. s.op = "add"
    BY <1>5
  <2>2. schema[u.table] # {} /\ u.column \notin schema[u.table]
    BY <1>5 DEF Fits
  <2>3. schema'[u.table] # {} /\ u.column \notin schema'[u.table]
    BY <1>1, <1>3, <1>5, <2>1, <2>2
  <2>4. QED
    BY <1>5, <2>3 DEF Fits
<1>6. CASE u.op = "drop"
  <2>1. s.op \in {"add", "drop"}
    BY <1>6
  <2>2. u.column \in schema[u.table]
    BY <1>6 DEF Fits
  <2>3. u.column \in schema'[u.table]
    BY <1>1, <1>3, <1>6, <2>1, <2>2
  <2>4. QED
    BY <1>6, <2>3 DEF Fits
<1>7. CASE u.op = "index"
  <2>1. s.op = "index"
    BY <1>7
  <2>2. /\ u.column \in ColumnsOf(u.table) \cap Indexed /\ u.column \notin Keyed
        /\ conf.driver = "mysql" => <<u.table, u.column>> \notin indexes
    BY <1>7 DEF Fits
  <2>3. <<u.table, u.column>> # <<s.table, s.column>>
    BY <1>1, <1>7, <2>1
  <2>4. conf'.driver = "mysql" => <<u.table, u.column>> \notin indexes'
    BY <1>4, <2>1, <2>2, <2>3
  <2>5. QED
    BY <1>2, <1>7, <2>2, <2>4 DEF Fits
<1>8. CASE u.op = "add_media"
  <2>1. s.op = "add_media"
    BY <1>8
  <2>2. u.column = FilePath /\ FilePath \notin schema[u.table]
    BY <1>8 DEF Fits
  <2>3. FilePath \notin schema'[u.table]
    BY <1>1, <1>3, <1>8, <2>1, <2>2
  <2>4. QED
    BY <1>8, <2>2, <2>3 DEF Fits
<1>9. QED
  BY <1>5, <1>6, <1>7, <1>8

\* The tables of the statements are those of the file.
LEMMA StagedPlaces ==
  ASSUME MigrationInv, NEW r, MigratorOK(r), Staged(r), r.pc \in {"alter", "index", "media"},
         NEW k \in 1 .. Len(r.left)
  PROVE  r.left[k].table \in Places
<1>1. CASE r.pc \in {"alter", "index"}
  <2>1. r.order \in Seq(DOMAIN conf.tables) /\ r.at \in DOMAIN r.order
    BY <1>1 DEF MigratorOK, AnyMigrator, Records
  <2>2. PlaceAt(r.order[r.at]) \in Places
    BY <2>1, OrderPlaces
  <2>3. QED
    BY <1>1, <2>2 DEF Staged
<1>2. CASE r.pc = "media"
  <2>1. conf.media \in Seq(Places)
    BY MigrationAssumption DEF MigrationInv, Places
  <2>2. \A x \in ToSet(conf.media) : x \in Places
    BY <2>1, ElementsOfSeq DEF ToSet
  <2>3. QED
    BY <1>2, <2>2 DEF Staged
<1>3. QED
  BY <1>1, <1>2

\* So a migrator alone is ready for the rest.
LEMMA ReadyForRest ==
  ASSUME MigrationInv, NEW r, MigratorOK(r), Ready(r), r.pc \in {"alter", "index", "media"},
         r.left # <<>>, Accepts(Head(r.left)), Perform(Head(r.left)), UNCHANGED <<conf, first>>,
         NEW e, e.pc = r.pc, e.at = r.at, e.order = r.order, e.left = Tail(r.left)
  PROVE  Ready(e)'
<1> DEFINE S == AnyStatement
<1>1. r.left \in Seq(S)
  BY DEF MigratorOK, LawfulSeq
<1> HIDE DEF S
<1>2. PICK q \in Seq(S) : q = r.left
  BY <1>1
<1>3. PICK n : n = Len(q)
  OBVIOUS
<1>4. PICK s : s = Head(q)
  OBVIOUS
<1>5. PICK u : u = Tail(q)
  OBVIOUS
<1>6. /\ n \in Nat \ {0} /\ s = q[1] /\ Len(u) = n - 1
      /\ \A k \in 1 .. n - 1 : u[k] = q[k + 1]
  BY <1>2, <1>3, <1>4, <1>5
<1>7. \A k \in 1 .. n - 1 : k + 1 \in 1 .. n /\ 1 < k + 1 /\ 1 \in 1 .. n /\ n # 1
  BY <1>6
<1>8. /\ \A k \in 1 .. n : q[k] \in AnyStatement /\ q[k].table \in Places /\ Fits(q[k])
      /\ Once(q) /\ AddsFirst(q) /\ Staged(r) /\ Accepts(s) /\ Perform(s)
  <2>1. \A k \in 1 .. n : q[k] \in AnyStatement
    BY <1>2, <1>3, ElementsOfSeq DEF S
  <2>2. \A k \in 1 .. n : q[k].table \in Places
    BY <1>2, <1>3, StagedPlaces DEF Ready
  <2>3. QED
    BY <1>2, <1>3, <1>4, <2>1, <2>2 DEF Ready
<1>9. ASSUME NEW k \in 1 .. n - 1 PROVE Fits(u[k])'
  <2>1. PICK x : x = q[k + 1]
    OBVIOUS
  <2>2. /\ x \in AnyStatement /\ x.table \in Places /\ Fits(x)
        /\ s \in AnyStatement /\ s.table \in Places
    BY <1>6, <1>7, <1>8, <2>1
  <2>3. s # x
    <3>1. k + 1 # 1 /\ k + 1 \in 1 .. n /\ 1 \in 1 .. n
      BY <1>6
    <3>2. QED
      BY <1>3, <1>6, <1>8, <2>1, <3>1 DEF Once
  <2>4. \/ s.op = "add" /\ x.op \in {"add", "drop"}
        \/ s.op \in {"drop", "index", "add_media"} /\ x.op = s.op
    <3>1. CASE r.pc = "alter"
      <4>1. s.op \in {"add", "drop"} /\ x.op \in {"add", "drop"}
        BY <1>2, <1>3, <1>6, <1>7, <1>8, <2>1, <3>1 DEF Staged
      <4>2. s.op = "drop" => x.op = "drop"
        BY <1>3, <1>6, <1>7, <1>8, <2>1 DEF AddsFirst
      <4>3. QED
        BY <4>1, <4>2
    <3>2. CASE r.pc = "index"
      BY <1>2, <1>3, <1>6, <1>7, <1>8, <2>1, <3>2 DEF Staged
    <3>3. CASE r.pc = "media"
      BY <1>2, <1>3, <1>6, <1>7, <1>8, <2>1, <3>3 DEF Staged
    <3>4. QED
      BY <3>1, <3>2, <3>3
  <2>5. Fits(x)'
    BY <1>8, <2>2, <2>3, <2>4, FitsStays
  <2>6. u[k] = x
    BY <1>6, <2>1
  <2>7. QED
    BY <2>5, <2>6
<1>10. Once(u)
  <2> SUFFICES ASSUME NEW k \in 1 .. Len(u), NEW l \in 1 .. Len(u), u[k] = u[l] PROVE k = l
    BY DEF Once
  <2>1. k + 1 \in 1 .. n /\ l + 1 \in 1 .. n /\ q[k + 1] = q[l + 1]
    BY <1>6, <1>7
  <2>2. k + 1 = l + 1
    BY <1>3, <1>8, <2>1 DEF Once
  <2>3. QED
    BY <1>6, <2>2
<1>11. AddsFirst(u)
  <2> SUFFICES ASSUME NEW k \in 1 .. Len(u), NEW l \in 1 .. Len(u), k < l, u[k].op = "drop"
               PROVE  u[l].op = "drop"
    BY DEF AddsFirst
  <2>1. /\ k + 1 \in 1 .. n /\ l + 1 \in 1 .. n /\ k + 1 < l + 1
        /\ u[k] = q[k + 1] /\ u[l] = q[l + 1]
    BY <1>6, <1>7
  <2>2. QED
    BY <1>3, <1>8, <2>1 DEF AddsFirst
<1>12. Staged(e)'
  <2>1. \A i : PlaceAt(i)' = PlaceAt(i)
    BY DEF PlaceAt, Place
  <2> SUFFICES ASSUME NEW k \in 1 .. Len(u)
               PROVE  /\ e.pc \in {"alter", "index"} => u[k].table = PlaceAt(e.order[e.at])
                      /\ e.pc = "alter" => u[k].op \in {"add", "drop"}
                      /\ e.pc = "index" => u[k].op = "index"
                      /\ e.pc = "media" => u[k].op = "add_media" /\ u[k].table \in ToSet(conf.media)
    BY <1>2, <1>5, <2>1 DEF Staged
  <2>2. k + 1 \in 1 .. n /\ u[k] = q[k + 1] /\ n # 1
    BY <1>6, <1>7
  <2>3. QED
    BY <1>2, <1>3, <1>8, <2>2 DEF Staged
<1>13. QED
  BY <1>2, <1>5, <1>6, <1>9, <1>10, <1>11, <1>12 DEF Ready

\* What a statement takes from what was found it may take.
LEMMA KeptByStatement ==
  ASSUME MigrationInv, Kept, NEW s \in AnyStatement, s.op = "drop" => Lawful(s),
         Perform(s), UNCHANGED <<conf, first>>
  PROVE  Kept'
<1>1. Places' = Places /\ \A t : ColumnsOf(t)' = ColumnsOf(t)
  BY Performs
<1>2. s.op \in {"create", "add", "add_media", "drop", "index"}
  BY DEF AnyStatement
<1>3. ASSUME NEW t \in Places, NEW a \in first[t]
      PROVE  a \in schema'[t] \/ (conf.destructive /\ conf.auto[t[1]] /\ a \notin ColumnsOf(t))
  <2>1. a \in schema[t] \/ (conf.destructive /\ conf.auto[t[1]] /\ a \notin ColumnsOf(t))
    BY DEF Kept
  <2>2. CASE t # s.table
    BY <2>1, <2>2, Performs
  <2>3. CASE t = s.table /\ s.op = "create"
    <3>1. schema'[t] = IF schema[t] # {} THEN schema[t] ELSE ColumnsOf(t)
      BY <2>3, Performs
    <3>2. QED
      BY <2>1, <3>1
  <2>4. CASE t = s.table /\ s.op \in {"add", "add_media"}
    <3>1. schema'[t] = schema[t] \cup {s.column}
      BY <2>4, Performs
    <3>2. QED
      BY <2>1, <3>1
  <2>5. CASE t = s.table /\ s.op = "drop"
    <3>1. schema'[t] = schema[t] \ {s.column}
      BY <2>5, Performs
    <3>2. QED
      BY <2>1, <2>5, <3>1 DEF Lawful
  <2>6. CASE t = s.table /\ s.op = "index"
    <3>1. schema'[t] = schema[t]
      BY <2>6, Performs
    <3>2. QED
      BY <2>1, <3>1
  <2>7. QED
    BY <1>2, <2>2, <2>3, <2>4, <2>5, <2>6
<1>4. QED
  BY <1>1, <1>3 DEF Kept

\* What is said of a migrator is of the database and the configuration.
LEMMA ReadyStays ==
  ASSUME UNCHANGED <<conf, first, schema, indexes>>, NEW r
  PROVE  (Ready(r)' <=> Ready(r)) /\ (HealOK(r) => HealOK(r)')
<1>1. /\ \A t : ColumnsOf(t)' = ColumnsOf(t)
      /\ \A i : PlaceAt(i)' = PlaceAt(i)
  BY DEF ColumnsOf, Declaration, PlaceAt, Place
<1>2. \A s : Fits(s)' <=> Fits(s)
  BY <1>1 DEF Fits
<1>3. Staged(r)' <=> Staged(r)
  BY <1>1 DEF Staged
<1>4. Ready(r)' <=> Ready(r)
  BY <1>2, <1>3 DEF Ready
<1>5. Hopeless => Hopeless'
  BY HopelessStays
<1>6. QED
  BY <1>4, <1>5 DEF HealOK

LEMMA KeptStays ==
  ASSUME UNCHANGED <<conf, first, schema>>, Kept
  PROVE  Kept'
<1>1. Places' = Places /\ \A t : ColumnsOf(t)' = ColumnsOf(t)
  BY DEF Places, Place, ColumnsOf, Declaration
<1>2. QED
  BY <1>1 DEF Kept

\* A migrator that is running moves on.
LEMMA OneHeals ==
  ASSUME MigrationInv, HealInv, UNCHANGED <<conf, first, schema, indexes>>, NEW m \in Migrators,
         NEW r, r = migrators[m], r.pc # "ended",
         NEW e, migrators' = [migrators EXCEPT ![m] = e], HealOK(e),
         e.pc # "ended" => e.alone = r.alone
  PROVE  HealInv'
<1>1. Kept'
  BY KeptStays DEF HealInv
<1>2. /\ DOMAIN migrators = Migrators /\ migrators'[m] = e
      /\ \A o \in Migrators : o # m => migrators'[o] = migrators[o]
  BY DEF MigrationInv
<1>3. \A o \in Migrators : HealOK(migrators[o])
  BY DEF HealInv
<1>4. ASSUME NEW o \in Migrators PROVE HealOK(migrators[o])'
  <2>1. PICK x : x = migrators'[o]
    OBVIOUS
  <2>2. HealOK(x)
    BY <1>2, <1>3, <2>1
  <2>3. HealOK(x)'
    BY <2>2, ReadyStays
  <2>4. QED
    BY <2>1, <2>3
<1>5. ASSUME NEW o \in Migrators, migrators'[o].pc # "ended", migrators'[o].alone,
             NEW a \in Migrators, a # o
      PROVE  migrators'[a].pc = "ended"
  <2>1. CASE o = m
    BY <1>2, <1>5, <2>1 DEF HealInv
  <2>2. CASE o # m
    BY <1>2, <1>5, <2>2 DEF HealInv
  <2>3. QED
    BY <2>1, <2>2
<1>6. QED
  BY <1>1, <1>4, <1>5 DEF HealInv

\* One that has nothing to execute is ready.
LEMMA NothingToFit ==
  ASSUME NEW r, r.left = <<>>
  PROVE  Ready(r)
<1>1. Len(<<>>) = 0 /\ \A k \in 1 .. 0 : FALSE
  OBVIOUS
<1>2. \A k \in 1 .. Len(r.left) : FALSE
  BY <1>1
<1>3. QED
  BY <1>2 DEF Ready, Once, AddsFirst, Staged

\* StartMigration: what is refused is hopeless, and the others are no longer
\* alone.
LEMMA StartHeals ==
  ASSUME MigrationInv, HealInv, NEW m \in Migrators, StartMigration(m)
  PROVE  HealInv'
<1> DEFINE alone == \A o \in Migrators \ {m} : ~Running(o)
           begun == [NotStarted EXCEPT !.alone = alone, !.order = Sorted(conf)]
           refused == [begun EXCEPT !.result = "failed", !.order = <<>>]
           mine == IF Circular(conf) THEN refused ELSE EnterTable(begun, 1)
           others == [o \in Migrators |->
                        IF Running(o) THEN NoLongerAlone(migrators[o]) ELSE migrators[o]]
<1>1. migrators' = [others EXCEPT ![m] = mine] /\ UNCHANGED <<conf, schema, indexes, first>>
  BY DEF StartMigration, NoLongerAlone
<1>2. \A o \in Migrators : MigratorOK(migrators[o]) /\ HealOK(migrators[o])
  BY DEF MigrationInv, HealInv
<1>3. ASSUME NEW o \in Migrators
      PROVE  /\ HealOK(others[o])
             /\ others[o].pc = "ended" \/ ~others[o].alone
             /\ others[o].pc = "ended" <=> ~Running(o)
  <2>1. PICK r : r = migrators[o]
    OBVIOUS
  <2>2. PICK e : e = NoLongerAlone(r)
    OBVIOUS
  <2>3. r \in AnyMigrator /\ HealOK(r) /\ (Running(o) <=> r.pc # "ended")
    BY <1>2, <2>1 DEF MigratorOK, Running
  <2>4. ~e.alone /\ e.pc = r.pc /\ e.order = r.order
    BY <2>2, <2>3 DEF AnyMigrator, Records, NoLongerAlone
  <2>5. HealOK(e)
    BY <2>3, <2>4 DEF HealOK
  <2>6. others[o] = IF Running(o) THEN e ELSE r
    BY <2>1, <2>2
  <2> HIDE DEF others
  <2>7. QED
    BY <2>3, <2>4, <2>5, <2>6
<1>4. HealOK(mine) /\ (mine.pc # "ended" => mine.alone = alone)
  <2>1. CASE Circular(conf)
    <3>1. refused.pc = "ended"
      BY DEF NotStarted
    <3>2. Hopeless
      BY <2>1 DEF Hopeless
    <3> HIDE DEF refused, alone
    <3>3. HealOK(refused)
      BY <3>1, <3>2 DEF HealOK
    <3>4. QED
      BY <2>1, <3>1, <3>3
  <2>2. CASE ~Circular(conf)
    <3> DEFINE b == begun
               o == Sorted(conf)
    <3> HIDE DEF alone, o
    <3>1. b.order = o /\ b.left = <<>> /\ b.result = "none" /\ b.alone = alone
      BY DEF NotStarted, o
    <3>2. b \in [pc : {b.pc}, result : {b.result}, order : {b.order}, at : {b.at}, left : {b.left},
                 alone : {b.alone}, faultless : {b.faultless}]
      BY DEF NotStarted
    <3> HIDE DEF b
    <3>3. PICK e : e = EnterTable(b, 1)
      OBVIOUS
    <3>4. e.order = o /\ e.left = <<>> /\ e.result = "none" /\ e.alone = alone
      BY <3>1, <3>2, <3>3 DEF EnterTable
    <3>5. Ready(e)
      BY <3>4, NothingToFit
    <3>6. HealOK(e)
      BY <3>4, <3>5 DEF HealOK, o
    <3>7. mine = e
      BY <2>2, <3>3 DEF b
    <3>8. QED
      BY <3>4, <3>6, <3>7
  <2>3. QED
    BY <2>1, <2>2
<1>5. alone => \A o \in Migrators : o # m => ~Running(o)
  OBVIOUS
<1> HIDE DEF mine, alone
<1>6. migrators'[m] = mine /\ \A o \in Migrators : o # m => migrators'[o] = others[o]
  BY <1>1
<1> HIDE DEF others
<1>7. Kept'
  BY <1>1, KeptStays DEF HealInv
<1>8. ASSUME NEW o \in Migrators PROVE HealOK(migrators[o])'
  <2>1. PICK x : x = migrators'[o]
    OBVIOUS
  <2>2. HealOK(x)
    BY <1>3, <1>4, <1>6, <2>1
  <2>3. HealOK(x)'
    BY <1>1, <2>2, ReadyStays
  <2>4. QED
    BY <2>1, <2>3
<1>9. ASSUME NEW o \in Migrators, migrators'[o].pc # "ended", migrators'[o].alone,
             NEW a \in Migrators, a # o
      PROVE  migrators'[a].pc = "ended"
  <2>1. o = m
    BY <1>3, <1>6, <1>9
  <2>2. alone
    BY <1>4, <1>6, <1>9, <2>1
  <2>3. QED
    BY <1>3, <1>5, <1>6, <1>9, <2>1, <2>2
<1>10. QED
  BY <1>7, <1>8, <1>9 DEF HealInv

\* TableDone, MigrationDone and CutShort: nothing is left to execute, and
\* success and faults are no failures of this kind.
LEMMA MovesHeal ==
  ASSUME MigrationInv, HealInv, NEW m \in Migrators,
         TableDone(m) \/ MigrationDone(m) \/ CutShort(m)
  PROVE  HealInv'
<1>1. PICK r : r = migrators[m]
  OBVIOUS
<1>2. /\ MigratorOK(r) /\ r \in AnyMigrator /\ HealOK(r) /\ r.pc # "ended"
      /\ UNCHANGED <<conf, schema, indexes, first>>
  BY <1>1 DEF MigrationInv, HealInv, MigratorOK, TableDone, MigrationDone, CutShort, MigratorAt, Running
<1>3. CASE TableDone(m)
  <2>1. PICK e : e = EnterTable(r, r.at + 1)
    OBVIOUS
  <2>2. migrators' = [migrators EXCEPT ![m] = e] /\ r.left = <<>>
    BY <1>1, <1>3, <2>1 DEF TableDone
  <2>3. /\ e.order = r.order /\ e.left = <<>> /\ e.alone = r.alone
        /\ e.result = r.result /\ e.faultless = r.faultless
    BY <1>2, <2>1, <2>2 DEF EnterTable, AnyMigrator, Records
  <2>4. Ready(e)
    BY <2>3, NothingToFit
  <2>5. HealOK(e)
    BY <1>2, <2>3, <2>4 DEF HealOK
  <2>6. QED
    BY <1>1, <1>2, <2>2, <2>3, <2>5, OneHeals
<1>4. CASE MigrationDone(m)
  <2>1. PICK e : e = [r EXCEPT !.pc = "ended", !.result = "done", !.left = <<>>, !.order = <<>>, !.at = 0]
    OBVIOUS
  <2>2. migrators' = [migrators EXCEPT ![m] = e]
    BY <1>1, <1>4, <2>1 DEF MigrationDone, MigrationEnds
  <2>3. e.pc = "ended" /\ e.result = "done"
    BY <1>2, <2>1 DEF AnyMigrator, Records
  <2>4. HealOK(e)
    BY <2>3 DEF HealOK
  <2>5. QED
    BY <1>1, <1>2, <2>2, <2>3, <2>4, OneHeals
<1>5. CASE CutShort(m)
  <2>1. PICK e : e = [NotStarted EXCEPT !.result = "failed", !.faultless = FALSE]
    OBVIOUS
  <2>2. migrators' = [migrators EXCEPT ![m] = e]
    BY <1>5, <2>1 DEF CutShort
  <2>3. e.pc = "ended" /\ ~e.faultless
    BY <2>1 DEF NotStarted
  <2>4. HealOK(e)
    BY <2>3 DEF HealOK
  <2>5. QED
    BY <1>1, <1>2, <2>2, <2>3, <2>4, OneHeals
<1>6. QED
  BY <1>3, <1>4, <1>5

\* What is not a drop may be in any order.
LEMMA NoDrops ==
  ASSUME NEW left, \A k \in 1 .. Len(left) : left[k].op # "drop"
  PROVE  AddsFirst(left)
BY DEF AddsFirst

\* A table names each of its columns once.
LEMMA ColumnsOnce ==
  ASSUME MigrationInv, NEW t \in Places
  PROVE  Once(Declaration(t).columns)
<1>1. /\ conf.tables \in Seq(TableConfig)
      /\ \A i \in DOMAIN conf.tables : IsInjective(conf.tables[i].columns)
  BY MigrationAssumption DEF MigrationInv
<1>2. PICK i \in DOMAIN conf.tables : Declaration(t) = conf.tables[i]
  BY DEF Places, Declaration
<1>3. conf.tables[i].columns \in Seq(STRING) /\ IsInjective(conf.tables[i].columns)
  <2>1. conf.tables[i] \in TableConfig
    BY <1>1, ElementsOfSeq
  <2>2. QED
    BY <1>1, <2>1 DEF TableConfig
<1> DEFINE cs == conf.tables[i].columns
<1>4. cs \in Seq(STRING) /\ IsInjective(cs)
  BY <1>3
<1> HIDE DEF cs
<1>5. Once(cs)
  BY <1>4 DEF Once, IsInjective
<1>6. QED
  BY <1>2, <1>5 DEF cs

\* A migrator with its next statements loaded.
LEMMA LoadHeals ==
  ASSUME NEW r \in AnyMigrator, HealOK(r), r.pc # "ended", NEW p \in {"alter", "index"}, NEW left,
         NEW e, e = Load(r, p, left),
         r.alone => Ready(e)
  PROVE  /\ e.pc = p /\ e.at = r.at /\ e.order = r.order /\ e.left = left
         /\ e.alone = r.alone /\ HealOK(e)
<1>1. /\ e.pc = p /\ e.at = r.at /\ e.order = r.order /\ e.left = left
      /\ e.alone = r.alone /\ e.result = r.result /\ e.faultless = r.faultless
  BY DEF AnyMigrator, Records, Load
<1>2. HealOK(e)
  BY <1>1 DEF HealOK
<1>3. QED
  BY <1>1, <1>2

\* LookUpIndexes: the indexes asked for are not there on MySQL.
LEMMA LookUpHeals ==
  ASSUME MigrationInv, HealInv, NEW m \in Migrators, LookUpIndexes(m)
  PROVE  HealInv'
<1> DEFINE r == migrators[m]
           t == TableAt(m)
           left == IndexStatements(t)
           p == "index"
           e == Load(r, p, left)
<1>1. /\ r.pc = "alter" /\ r \in AnyMigrator /\ HealOK(r)
      /\ migrators' = [migrators EXCEPT ![m] = e]
      /\ UNCHANGED <<conf, schema, indexes, first>>
  BY DEF LookUpIndexes, MigratorAt, MigrationInv, HealInv, MigratorOK, Load
<1>2. /\ t \in TableConfig /\ Declaration(Place(t)) = t /\ Once(t.columns)
  BY <1>1, TableOfMigrator, ColumnsOnce
<1>3. Place(t) = PlaceAt(r.order[r.at]) /\ ColumnsOf(Place(t)) = ToSet(t.columns)
  BY <1>2 DEF TableAt, PlaceAt, ColumnsOf
<1> DEFINE wanted == {b \in Indexed \ Keyed : <<Place(t), b>> \notin ExistingIndexes(t)}
           columns == Only(t.columns, wanted)
<1>4. left = Statements("index", t, columns)
  BY DEF IndexStatements
<1>5. /\ columns \in Seq(STRING) /\ Once(columns)
      /\ \A k \in 1 .. Len(columns) : columns[k] \in ToSet(t.columns) \cap wanted
  <2>1. t.columns \in Seq(STRING)
    BY <1>2 DEF TableConfig
  <2> HIDE DEF wanted, t
  <2>2. QED
    BY <1>2, <2>1, OnlyOnce
<1>6. \A a \in wanted : /\ a \in Indexed /\ a \notin Keyed
                        /\ conf.driver = "mysql" => <<Place(t), a>> \notin indexes
  BY DEF ExistingIndexes
<1> HIDE DEF columns, wanted, r, t
<1>7. /\ Len(left) = Len(columns) /\ Once(left)
      /\ \A k \in 1 .. Len(left) : /\ left[k].op = "index" /\ left[k].table = Place(t)
                                   /\ left[k].column = columns[k]
  BY <1>4, <1>5, StatementsOnce
<1> HIDE DEF left
<1>8. ASSUME NEW k \in 1 .. Len(left) PROVE Fits(left[k])
  <2>1. /\ left[k].op = "index" /\ left[k].table = Place(t) /\ left[k].column = columns[k]
        /\ columns[k] \in ColumnsOf(Place(t)) /\ columns[k] \in wanted
    BY <1>3, <1>5, <1>7
  <2>2. QED
    BY <1>6, <2>1 DEF Fits
<1>9. AddsFirst(left)
  BY <1>7, NoDrops
<1>10. ASSUME NEW x, x.pc = p, x.at = r.at, x.order = r.order, x.left = left PROVE Ready(x)
  <2>1. Staged(x)
    BY <1>3, <1>7, <1>10 DEF Staged
  <2>2. QED
    BY <1>7, <1>8, <1>9, <1>10, <2>1 DEF Ready
<1>11. e.pc = p /\ e.at = r.at /\ e.order = r.order /\ e.left = left
  BY <1>1 DEF AnyMigrator, Records, Load
<1>12. Ready(e)
  <2> HIDE DEF e, p
  <2>1. QED
    BY <1>10, <1>11
<1>13. e.alone = r.alone /\ HealOK(e)
  BY <1>1, <1>12, LoadHeals
<1> HIDE DEF e
<1>14. QED
  BY <1>1, <1>13, OneHeals DEF r

\* Introspect: what is asked for is missing, and what is to be dropped is
\* there.
LEMMA IntrospectHeals ==
  ASSUME MigrationInv, HealInv, NEW m \in Migrators, Introspect(m)
  PROVE  HealInv'
<1> DEFINE r == migrators[m]
           t == TableAt(m)
           existing == schema[Place(t)]
           left == ColumnStatements(t, existing)
           p == "alter"
           e == Load(r, p, left)
<1>1. /\ r.pc = "columns" /\ r \in AnyMigrator /\ HealOK(r)
      /\ migrators' = [migrators EXCEPT ![m] = e]
      /\ UNCHANGED <<conf, schema, indexes, first>>
  BY DEF Introspect, MigratorAt, MigrationInv, HealInv, MigratorOK, Load
<1>2. /\ t \in TableConfig /\ Place(t) \in Places
      /\ Declaration(Place(t)) = t /\ Once(t.columns)
  BY <1>1, TableOfMigrator, ColumnsOnce
<1>3. Place(t) = PlaceAt(r.order[r.at])
  BY DEF TableAt, PlaceAt
<1>4. IsFiniteSet(existing)
  BY <1>2 DEF MigrationInv
<1>5. e.pc = p /\ e.at = r.at /\ e.order = r.order /\ e.left = left
  <2> HIDE DEF r, left, p
  <2>1. QED
    BY <1>1 DEF AnyMigrator, Records, Load
<1> HIDE DEF t, r, e, left
<1>6. Ready(e)
  <2>1. CASE existing = {}
    <3>1. left = <<Statement("create", t, FilePath)>>
      BY <2>1 DEF ColumnStatements, left
    <3>2. /\ Len(left) = 1 /\ left[1].op = "create" /\ left[1].table = Place(t)
          /\ \A k \in 1 .. Len(left) : k = 1
      BY <3>1 DEF Statement
    <3>3. Once(left) /\ AddsFirst(left)
      BY <3>2 DEF Once, AddsFirst
    <3>4. Fits(left[1])
      BY <3>2 DEF Fits
    <3>5. Staged(e)
      BY <1>3, <1>5, <3>2 DEF Staged
    <3>6. QED
      BY <1>5, <3>2, <3>3, <3>4, <3>5 DEF Ready
  <2>2. CASE existing # {}
    <3> DEFINE wanted == {a \in ToSet(t.columns) : Addable(existing, a)}
               added == Only(t.columns, wanted)
               gone == Droppable(t, existing)
               dropped == SetToSeq(gone)
               adds == Statements("add", t, added)
               drops == Statements("drop", t, dropped)
    <3>1. left = adds \o drops
      BY <2>2 DEF ColumnStatements, AlterExistingTable, left
    <3>2. \A a \in wanted : a \notin existing
      BY DEF Addable
    <3>3. gone \in SUBSET existing
      BY DEF Droppable
    <3> HIDE DEF wanted, gone, existing
    <3>4. /\ added \in Seq(STRING) /\ Once(added)
          /\ \A k \in 1 .. Len(added) : added[k] \in wanted
      <4>1. t.columns \in Seq(STRING)
        BY <1>2 DEF TableConfig
      <4>2. QED
        BY <1>2, <4>1, OnlyOnce
    <3>5. /\ dropped \in Seq(gone) /\ Once(dropped)
          /\ \A k \in 1 .. Len(dropped) : dropped[k] \in gone
      <4>1. IsFiniteSet(gone)
        BY <1>4, <3>3, FS_Subset
      <4>2. dropped \in Seq(gone) /\ Once(dropped)
        BY <4>1, SetToSeqOnce
      <4> HIDE DEF dropped
      <4>3. QED
        BY <4>2, ElementsOfSeq
    <3> HIDE DEF added, dropped
    <3>6. /\ Len(adds) = Len(added) /\ Once(adds)
          /\ \A k \in 1 .. Len(adds) : /\ adds[k].op = "add" /\ adds[k].table = Place(t)
                                       /\ adds[k].column = added[k]
      BY <3>4, StatementsOnce
    <3>7. /\ Len(drops) = Len(dropped) /\ Once(drops)
          /\ \A k \in 1 .. Len(drops) : /\ drops[k].op = "drop" /\ drops[k].table = Place(t)
                                        /\ drops[k].column = dropped[k]
      BY <3>5, StatementsOnce
    <3>8. \E T : adds \in Seq(T) /\ drops \in Seq(T)
      <4> DEFINE T == {Statement("add", t, a) : a \in STRING} \cup {Statement("drop", t, a) : a \in gone}
      <4>1. adds \in Seq(T)
        <5>1. \A k \in 1 .. Len(added) : Statement("add", t, added[k]) \in T
          BY <3>4
        <5> HIDE DEF T
        <5>2. QED
          BY <3>4, <5>1 DEF Statements
      <4>2. drops \in Seq(T)
        <5>1. \A k \in 1 .. Len(dropped) : Statement("drop", t, dropped[k]) \in T
          BY <3>5
        <5> HIDE DEF T
        <5>2. QED
          BY <3>5, <5>1 DEF Statements
      <4>3. QED
        BY <4>1, <4>2
    <3>9. PICK T : adds \in Seq(T) /\ drops \in Seq(T)
      BY <3>8
    <3> HIDE DEF adds, drops
    <3>10. \A k \in 1 .. Len(adds), j \in 1 .. Len(drops) : adds[k] # drops[j]
      BY <3>6, <3>7
    <3>11. /\ Once(left)
           /\ \A k \in 1 .. Len(left) :
                \/ k \in 1 .. Len(adds) /\ left[k] = adds[k]
                \/ /\ k - Len(adds) \in 1 .. Len(drops) /\ k > Len(adds)
                   /\ left[k] = drops[k - Len(adds)]
      BY <3>1, <3>6, <3>7, <3>9, <3>10, OnceConcat
    <3>12. ASSUME NEW k \in 1 .. Len(left)
           PROVE  /\ left[k].table = Place(t)
                  /\ k \in 1 .. Len(adds) => /\ left[k].op = "add"
                                             /\ left[k].column \notin existing
                  /\ k \notin 1 .. Len(adds) => /\ left[k].op = "drop" /\ k > Len(adds)
                                                /\ left[k].column \in existing
      <4>1. CASE k \in 1 .. Len(adds) /\ left[k] = adds[k]
        BY <3>2, <3>4, <3>6, <4>1
      <4>2. CASE /\ k - Len(adds) \in 1 .. Len(drops) /\ k > Len(adds)
                 /\ left[k] = drops[k - Len(adds)]
        <5>1. PICK j \in 1 .. Len(drops) : left[k] = drops[j]
          BY <4>2
        <5>2. left[k].table = Place(t) /\ left[k].op = "drop" /\ left[k].column \in existing
          BY <3>3, <3>5, <3>7, <5>1
        <5>3. Len(adds) \in Nat /\ k \in Nat
          BY <3>9
        <5>4. k \notin 1 .. Len(adds)
          BY <4>2, <5>3
        <5>5. QED
          BY <4>2, <5>2, <5>4
      <4>3. QED
        BY <3>11, <4>1, <4>2
    <3>13. \A k \in 1 .. Len(left) : Fits(left[k])
      BY <2>2, <3>12 DEF Fits, existing
    <3>14. AddsFirst(left)
      <4> SUFFICES ASSUME NEW k \in 1 .. Len(left), NEW l \in 1 .. Len(left), k < l,
                          left[k].op = "drop"
                   PROVE  left[l].op = "drop"
        BY DEF AddsFirst
      <4>1. k > Len(adds)
        BY <3>12
      <4>2. l \notin 1 .. Len(adds)
        <5>1. Len(adds) \in Nat /\ k \in Nat /\ l \in Nat
          BY <3>9
        <5>2. QED
          BY <4>1, <5>1
      <4>3. QED
        BY <3>12, <4>2
    <3>15. Staged(e)
      <4>1. \A k \in 1 .. Len(left) : left[k].op \in {"add", "drop"} /\ left[k].table = Place(t)
        BY <3>12
      <4>2. QED
        BY <1>3, <1>5, <4>1 DEF Staged
    <3>16. QED
      BY <1>5, <3>11, <3>13, <3>14, <3>15 DEF Ready
  <2>3. QED
    BY <2>1, <2>2
<1>7. e.alone = r.alone /\ HealOK(e)
  BY <1>1, <1>6, LoadHeals DEF e
<1>8. QED
  BY <1>1, <1>7, OneHeals DEF r

\* EnsureMediaColumn: the column asked for is missing.
LEMMA EnsureHeals ==
  ASSUME MigrationInv, HealInv, NEW m \in Migrators, EnsureMediaColumn(m)
  PROVE  HealInv'
<1> DEFINE r == migrators[m]
           k == r.at + 1
           t == conf.media[r.at]
           s == [op |-> "add_media", table |-> t, column |-> FilePath]
           left == IF FilePath \in schema[t] THEN <<>> ELSE <<s>>
           e == Ask(r, k, left)
<1>1. /\ r.pc = "media" /\ MigratorOK(r) /\ r \in AnyMigrator /\ HealOK(r)
      /\ r.at <= Len(conf.media) /\ migrators' = [migrators EXCEPT ![m] = e]
      /\ UNCHANGED <<conf, schema, indexes, first>>
  BY DEF EnsureMediaColumn, MigratorAt, MigrationInv, HealInv, MigratorOK, Ask
<1>2. /\ e.pc = r.pc /\ e.at = k /\ e.order = r.order /\ e.left = left
      /\ e.alone = r.alone /\ e.result = r.result /\ e.faultless = r.faultless
  <2> HIDE DEF r, left, k
  <2>1. QED
    BY <1>1 DEF AnyMigrator, Records, Ask
<1>3. t \in ToSet(conf.media)
  <2>1. r.at \in Nat \ {0} /\ conf.media \in Seq(Places)
    BY <1>1, MigrationAssumption DEF MigrationInv, MigratorOK, AnyMigrator, Records, Places
  <2>2. r.at \in DOMAIN conf.media
    BY <1>1, <2>1
  <2>3. QED
    BY <2>2 DEF ToSet
<1> HIDE DEF e, k, r, t
<1>4. Ready(e)
  <2>1. CASE FilePath \in schema[t]
    <3>1. e.left = <<>>
      BY <1>2, <2>1
    <3>2. QED
      BY <3>1, NothingToFit
  <2>2. CASE FilePath \notin schema[t]
    <3>1. left = <<s>> /\ s.op = "add_media" /\ s.table = t /\ s.column = FilePath
      BY <2>2
    <3> HIDE DEF s, left
    <3>2. Len(left) = 1 /\ left[1] = s /\ \A i \in 1 .. Len(left) : i = 1
      BY <3>1
    <3>3. Once(left) /\ AddsFirst(left)
      BY <3>2 DEF Once, AddsFirst
    <3>4. Fits(left[1])
      BY <2>2, <3>1, <3>2 DEF Fits
    <3>5. Staged(e)
      BY <1>1, <1>2, <1>3, <3>1, <3>2 DEF Staged
    <3>6. QED
      BY <1>2, <3>2, <3>3, <3>4, <3>5 DEF Ready
  <2>3. QED
    BY <2>1, <2>2
<1>5. HealOK(e)
  BY <1>1, <1>2, <1>4 DEF HealOK
<1>6. QED
  BY <1>1, <1>2, <1>5, OneHeals DEF r

\* Execute: what a migrator alone is refused was hopeless.
LEMMA ExecuteHeals ==
  ASSUME MigrationInv, WholeInv, HealInv, NEW m \in Migrators, Execute(m)
  PROVE  HealInv'
<1>1. PICK r : r = migrators[m]
  OBVIOUS
<1>2. /\ DOMAIN migrators = Migrators /\ r.left # <<>> /\ UNCHANGED <<conf, first>>
      /\ r.pc \in {"alter", "index", "media"} /\ r \in AnyMigrator
      /\ MigratorOK(r) /\ LawfulSeq(r.left) /\ Progress(r) /\ HealOK(r) /\ TablesStay /\ Kept
  BY <1>1 DEF MigrationInv, WholeInv, HealInv, MigratorOK, Execute
<1>3. r.order = Sorted(conf) /\ (r.alone => Ready(r))
  BY <1>2 DEF HealOK
<1>4. CASE /\ Accepts(Head(r.left)) /\ Perform(Head(r.left))
           /\ migrators' = [migrators EXCEPT ![m].left = Tail(@)]
  <2>1. PICK e : e = Leave(r, Tail(r.left))
    OBVIOUS
  <2>2. /\ e.pc = r.pc /\ e.at = r.at /\ e.order = r.order /\ e.left = Tail(r.left)
        /\ e.alone = r.alone /\ e.result = r.result /\ e.faultless = r.faultless
    <3>1. PICK l : l = Tail(r.left)
      OBVIOUS
    <3>2. e = Leave(r, l)
      BY <2>1, <3>1
    <3>3. QED
      BY <1>2, <3>1, <3>2 DEF AnyMigrator, Records, Leave
  <2>3. migrators' = [migrators EXCEPT ![m] = e]
    BY <1>1, <1>4, <2>1 DEF Leave
  <2>4. DOMAIN schema' = DOMAIN schema
    BY <1>4 DEF Perform
  <2>5. Hopeless => Hopeless'
    <3>1. PICK s : s = Head(r.left)
      OBVIOUS
    <3>2. s \in AnyStatement
      BY <1>2, <3>1, LawfulTail
    <3>3. s.op = "drop" => (conf.driver = "sqlite" => <<s.table, s.column>> \notin indexes)
      BY <1>4, <3>1 DEF Accepts
    <3>4. conf.driver = "sqlite" => indexes \subseteq indexes'
      BY <1>4, <3>1, <3>2, <3>3 DEF Perform
    <3>5. QED
      BY <1>2, <2>4, <3>4, HopelessStays
  <2>6. Kept'
    <3>1. Head(r.left) \in AnyStatement /\ (Head(r.left).op = "drop" => Lawful(Head(r.left)))
      BY <1>2, LawfulTail
    <3>2. QED
      BY <1>2, <1>4, <3>1, KeptByStatement
  <2>7. HealOK(e)'
    <3>1. r.alone => Ready(e)'
      BY <1>2, <1>3, <1>4, <2>2, ReadyForRest
    <3>2. e.order = Sorted(conf)'
      BY <1>2, <1>3, <2>2
    <3>3. e.pc # "ended" /\ (r.result = "failed" /\ r.alone /\ r.faultless => Hopeless')
      BY <1>2, <2>2, <2>5 DEF HealOK
    <3>4. QED
      BY <2>2, <3>1, <3>2, <3>3 DEF HealOK
  <2>8. ASSUME NEW o \in Migrators, o # m, NEW x, x = migrators[o] PROVE HealOK(x)'
    <3>1. HealOK(x) /\ (x.pc # "ended" => ~x.alone)
      BY <1>1, <1>2, <2>8 DEF HealInv
    <3>2. x.pc # "ended" => x.order = Sorted(conf)'
      BY <1>2, <3>1 DEF HealOK
    <3>3. QED
      BY <2>5, <3>1, <3>2 DEF HealOK
  <2>9. migrators'[m] = e /\ \A o \in Migrators : o # m => migrators'[o] = migrators[o]
    BY <1>2, <2>3
  <2>10. ASSUME NEW o \in Migrators PROVE HealOK(migrators[o])'
    <3>1. PICK x : x = migrators'[o]
      OBVIOUS
    <3>2. HealOK(x)'
      BY <2>7, <2>8, <2>9, <3>1
    <3>3. QED
      BY <3>1, <3>2
  <2>11. ASSUME NEW o \in Migrators, migrators'[o].pc # "ended", migrators'[o].alone,
               NEW a \in Migrators, a # o
        PROVE  migrators'[a].pc = "ended"
    BY <1>1, <2>2, <2>9, <2>11 DEF HealInv
  <2>12. QED
    BY <2>6, <2>10, <2>11 DEF HealInv
<1>5. CASE ~Accepts(Head(r.left)) /\ MigrationEnds(m, "failed") /\ UNCHANGED <<schema, indexes, data>>
  <2>1. PICK e : e = [r EXCEPT !.pc = "ended", !.result = "failed", !.left = <<>>, !.order = <<>>, !.at = 0]
    OBVIOUS
  <2>2. migrators' = [migrators EXCEPT ![m] = e]
    BY <1>1, <1>5, <2>1 DEF MigrationEnds
  <2>3. e.pc = "ended" /\ e.alone = r.alone
    BY <1>2, <2>1 DEF AnyMigrator, Records
  <2>4. r.alone => Hopeless
    BY <1>2, <1>3, <1>5, RefusedIsHopeless
  <2>5. HealOK(e)
    BY <2>3, <2>4 DEF HealOK
  <2>6. QED
    BY <1>1, <1>2, <1>5, <2>2, <2>3, <2>5, OneHeals
<1>6. QED
  BY <1>1, <1>4, <1>5 DEF Execute

\* At first everything is as it was found.
LEMMA HealInitInv == MigrationInit => HealInv
<1> SUFFICES ASSUME MigrationInit PROVE HealInv
  OBVIOUS
<1>1. /\ first = schema /\ schema \in [Places -> Existing]
      /\ migrators = [m \in Migrators |-> NotStarted]
  BY DEF MigrationInit, Places
<1>2. HealOK(NotStarted) /\ NotStarted.pc = "ended"
  BY DEF HealOK, NotStarted
<1>3. QED
  BY <1>1, <1>2 DEF HealInv, Kept

\* Every step of a migration keeps the one that is alone ready.
LEMMA HealStepInv ==
  MigrationInv /\ WholeInv /\ HealInv /\ [MigrationNext]_migrationVars => HealInv'
<1> SUFFICES ASSUME MigrationInv, WholeInv, HealInv, [MigrationNext]_migrationVars
             PROVE  HealInv'
  OBVIOUS
<1>1. CASE UNCHANGED migrationVars
  <2>1. /\ UNCHANGED <<conf, first, schema, indexes>> /\ migrators' = migrators
        /\ Kept /\ Kept'
    BY <1>1, KeptStays DEF migrationVars, HealInv
  <2>2. \A o \in Migrators : HealOK(migrators[o])'
    <3>1. ASSUME NEW o \in Migrators PROVE HealOK(migrators[o])'
      <4>1. PICK x : x = migrators[o]
        OBVIOUS
      <4>2. HealOK(x)'
        BY <2>1, <4>1, ReadyStays DEF HealInv
      <4>3. QED
        BY <2>1, <4>1, <4>2
    <3>2. QED
      BY <3>1
  <2>3. QED
    BY <2>1, <2>2 DEF HealInv
<1>2. ASSUME NEW m \in Migrators, MigrationStep(m) PROVE HealInv'
  BY <1>2, StartHeals, IntrospectHeals, ExecuteHeals, LookUpHeals, EnsureHeals, MovesHeal
     DEF MigrationStep
<1>3. QED
  BY <1>1, <1>2 DEF MigrationNext

\* A migration that nothing overlaps and no fault hits fails only for what no
\* start could repair from the beginning, for every configuration and every
\* database as it was found, whatever earlier migrations, overlapping, failed
\* or cut short at any statement, have left behind.
THEOREM RestartSafety == MigrationSpec => []RestartHeals
<1>1. HealInv => RestartHeals
  BY DEF HealInv, HealOK, RestartHeals
<1>2. MigrationSpec => []MigrationInv
  BY MigrationInitInv, MigrationStepInv, PTL DEF MigrationSpec
<1>3. MigrationSpec => []WholeInv
  BY <1>2, WholeInitInv, WholeStepInv, PTL DEF MigrationSpec
<1>4. QED
  BY <1>1, <1>2, <1>3, HealInitInv, HealStepInv, PTL DEF MigrationSpec

=============================================================================
