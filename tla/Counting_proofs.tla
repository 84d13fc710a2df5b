--------------------------- MODULE Counting_proofs ---------------------------
(***************************************************************************)
(* What several proofs need to know of finite sets of numbers: the lowest, *)
(* the rank of one among the others, the pages a listing in the order of   *)
(* ranks is cut into, and sums over a set.  The library's induction        *)
(* theorems cannot be used, as they take the induction hypothesis as an    *)
(* operator; every induction here is a least counterexample.               *)
(***************************************************************************)
EXTENDS Integers, Sequences, FiniteSets, TLAPS, FiniteSetTheorems

-----------------------------------------------------------------------------
(* Least elements *)

LEMMA LowestExists == \A S \in SUBSET Nat : S # {} => \E i \in S : \A j \in S : i <= j
  <1>1. PICK R : R = {ss \in Nat \X Nat : ss[1] < ss[2]}
    OBVIOUS
  <1>2. IsWellFoundedOn(R, Nat)
    BY <1>1, NatLessThanWellFounded DEF OpToRel
  <1> SUFFICES ASSUME NEW S \in SUBSET Nat, S # {}
               PROVE  \E i \in S : \A j \in S : i <= j
    OBVIOUS
  <1>3. PICK x \in S : \A y \in S : <<y, x>> \notin R
    BY <1>2, WFMin
  <1>4. \A y \in S : ~(y < x)
    BY <1>1, <1>3
  <1> QED  BY <1>4

\* Of a bounded set of numbers one is the highest.
LEMMA HighestExists ==
    ASSUME NEW S \in SUBSET Nat, S # {}, NEW n \in Nat, \A i \in S : i <= n
    PROVE  \E i \in S : \A j \in S : j <= i
  <1> DEFINE Bounds == {m \in Nat : \A i \in S : i <= m}
  <1>1. PICK m \in Bounds : \A k \in Bounds : m <= k
    BY LowestExists
  <1>2. CASE m \in S
    BY <1>1, <1>2
  <1>3. CASE m \notin S
    <2>1. \A i \in S : i <= m - 1
      BY <1>1, <1>3
    <2>2. m - 1 \in Nat
      <3>1. PICK i \in S : TRUE
        OBVIOUS
      <3>2. i \in Nat /\ m \in Nat /\ i <= m - 1
        BY <2>1, <3>1
      <3> QED  BY <3>2
    <2>3. m - 1 \in Bounds
      BY <2>1, <2>2
    <2> QED  BY <1>1, <2>3
  <1> QED  BY <1>2, <1>3

\* Of sets of finite subsets one holds no other.
LEMMA SmallestExists ==
    ASSUME NEW S, IsFiniteSet(S), NEW X \in SUBSET (SUBSET S), X # {}
    PROVE  \E T \in X : \A U \in X : U \subseteq T => U = T
  <1>1. IsWellFoundedOn(StrictSubsetOrdering(S), SUBSET S)
    BY FS_FiniteSubsetsOfFinite, FS_StrictSubsetOrderingWellFounded
  <1>2. PICK T \in X : \A U \in X : <<U, T>> \notin StrictSubsetOrdering(S)
    BY <1>1, WFMin
  <1> QED  BY <1>2 DEF StrictSubsetOrdering

\* Of finitely many one has none ahead of it, in any strict order.
LEMMA TopExists ==
    ASSUME NEW P, IsFiniteSet(P), P # {}, NEW R,
           \A k \in P : <<k, k>> \notin R,
           \A k, l, m \in P : <<k, l>> \in R /\ <<l, m>> \in R => <<k, m>> \in R
    PROVE  \E c \in P : \A k \in P : <<k, c>> \notin R
  <1> DEFINE Ahead(c) == {k \in P : <<k, c>> \in R}
             X == {Ahead(c) : c \in P}
  <1>1. X \in SUBSET (SUBSET P)
    <2>1. \A c \in P : Ahead(c) \in SUBSET P
      OBVIOUS
    <2> HIDE DEF Ahead
    <2> QED  BY <2>1
  <1>2. X # {}
    <2> HIDE DEF Ahead
    <2> QED  OBVIOUS
  <1>3. PICK T \in X : \A U \in X : U \subseteq T => U = T
    <2> HIDE DEF X
    <2> QED  BY <1>1, <1>2, SmallestExists
  <1>4. PICK c \in P : T = Ahead(c)
    BY <1>3
  <1>5. ASSUME NEW k \in P, <<k, c>> \in R PROVE FALSE
    <2>1. Ahead(k) \subseteq T
      BY <1>4, <1>5
    <2>2. k \in T /\ k \notin Ahead(k)
      BY <1>4, <1>5
    <2>3. Ahead(k) \in X
      OBVIOUS
    <2> HIDE DEF X, Ahead
    <2> QED  BY <1>3, <2>1, <2>2, <2>3
  <1> QED  BY <1>5

-----------------------------------------------------------------------------
(* Ranks *)

Under(S, i)  == {j \in S : j < i}
RankIn(S, i) == Cardinality(Under(S, i))

LEMMA InUnder ==
    ASSUME NEW S \in SUBSET Nat, NEW i
    PROVE  /\ \A j : j \in Under(S, i) <=> j \in S /\ j < i
           /\ \A j \in S : j \in Nat
  BY DEF Under

LEMMA RankType ==
    ASSUME NEW S \in SUBSET Nat, NEW i \in Nat
    PROVE  IsFiniteSet(Under(S, i)) /\ RankIn(S, i) \in Nat
  <1>1. IsFiniteSet(Under(S, i))
    BY FS_BoundedSetOfNaturals DEF Under
  <1> QED  BY <1>1, FS_CardinalityType DEF RankIn

LEMMA RankRises ==
    ASSUME NEW S \in SUBSET Nat, NEW i \in S, NEW j \in Nat, i < j
    PROVE  RankIn(S, i) < RankIn(S, j)
  <1>1. Under(S, i) \cup {i} \subseteq Under(S, j) /\ i \notin Under(S, i)
    <2>1. i \in Nat /\ i \in Under(S, j) /\ i \notin Under(S, i)
      BY InUnder
    <2>2. ASSUME NEW k \in Under(S, i) PROVE k \in Under(S, j)
      BY <2>1, <2>2, InUnder
    <2> QED  BY <2>1, <2>2
  <1>2. Cardinality(Under(S, i) \cup {i}) = RankIn(S, i) + 1
    BY <1>1, RankType, FS_AddElement DEF RankIn
  <1>3. Cardinality(Under(S, i) \cup {i}) <= RankIn(S, j)
    BY <1>1, RankType, FS_Subset DEF RankIn
  <1> QED  BY <1>2, <1>3, RankType

LEMMA RankIsOwn ==
    ASSUME NEW S \in SUBSET Nat, NEW i \in S, NEW j \in S, RankIn(S, i) = RankIn(S, j)
    PROVE  i = j
  <1>1. ~(i < j) /\ ~(j < i)
    BY RankRises, RankType
  <1> QED  BY <1>1

\* More elements below, a higher rank.
LEMMA RankGrows ==
    ASSUME NEW S \in SUBSET Nat, NEW T \in SUBSET Nat, NEW i \in Nat, Under(S, i) \subseteq T
    PROVE  RankIn(S, i) <= RankIn(T, i)
  <1>1. Under(S, i) \in SUBSET Under(T, i)
    BY DEF Under
  <1> QED  BY <1>1, RankType, FS_Subset DEF RankIn

\* The one just below has the rank just below.
LEMMA RankBefore ==
    ASSUME NEW S \in SUBSET Nat, NEW i \in S, RankIn(S, i) > 0
    PROVE  \E j \in S : j < i /\ RankIn(S, j) = RankIn(S, i) - 1
  <1>0. i \in Nat /\ \A k \in Under(S, i) : k \in S /\ k \in Nat /\ k < i
    BY InUnder
  <1>1. Under(S, i) # {}
    BY FS_EmptySet DEF RankIn
  <1>2. PICK j \in Under(S, i) : \A k \in Under(S, i) : k <= j
    <2>1. Under(S, i) \in SUBSET Nat /\ \A k \in Under(S, i) : k <= i
      BY <1>0
    <2> QED  BY <1>1, <2>1, HighestExists
  <1>3. j \in S /\ j < i /\ j \notin Under(S, j) /\ Under(S, i) = Under(S, j) \cup {j}
    <2>1. i \in Nat /\ j \in Nat /\ j \in S /\ j < i /\ j \notin Under(S, j)
      BY <1>0, InUnder
    <2>2. ASSUME NEW k \in Under(S, i) PROVE k \in Under(S, j) \cup {j}
      BY <1>0, <1>2, <2>1, <2>2, InUnder
    <2>3. ASSUME NEW k \in Under(S, j) PROVE k \in Under(S, i)
      BY <2>1, <2>3, InUnder
    <2> QED  BY <2>1, <2>2, <2>3
  <1>4. RankIn(S, i) = RankIn(S, j) + 1
    BY <1>3, RankType, FS_AddElement DEF RankIn
  <1> QED  BY <1>3, <1>4, RankType

\* Below an element every rank is taken.
LEMMA RanksAreTaken ==
    ASSUME NEW S \in SUBSET Nat, NEW i \in S, NEW n \in Nat, n <= RankIn(S, i)
    PROVE  \E j \in S : RankIn(S, j) = n
  <1> DEFINE Above == {j \in S : RankIn(S, j) >= n}
  <1>1. PICK j \in Above : \A k \in Above : j <= k
    BY LowestExists
  <1>2. CASE RankIn(S, j) = n
    BY <1>1, <1>2
  <1>3. CASE RankIn(S, j) > n
    <2>1. PICK k \in S : k < j /\ RankIn(S, k) = RankIn(S, j) - 1
      BY <1>1, <1>3, RankBefore, RankType
    <2>2. k \in Above
      BY <1>3, <2>1, RankType
    <2> QED  BY <1>1, <2>1, <2>2
  <1> QED  BY <1>1, <1>2, <1>3, RankType

\* A page with an element behind it is full.
LEMMA PageIsFull ==
    ASSUME NEW S \in SUBSET Nat, NEW first \in Nat, NEW size \in Nat,
           NEW i \in S, RankIn(S, i) >= first + size
    PROVE  LET page == {j \in S : RankIn(S, j) >= first /\ RankIn(S, j) < first + size}
           IN  IsFiniteSet(page) /\ Cardinality(page) = size
  <1> DEFINE page  == {j \in S : RankIn(S, j) >= first /\ RankIn(S, j) < first + size}
             ranks == first..(first + size - 1)
             rank  == [j \in page |-> RankIn(S, j)]
  <1>0. \A j \in S : j \in Nat /\ RankIn(S, j) \in Nat
    BY RankType
  <1>1. rank \in Injection(page, ranks)
    <2>1. rank \in [page -> ranks]
      <3>1. ASSUME NEW j \in page PROVE RankIn(S, j) \in ranks
        BY <1>0
      <3> QED  BY <3>1
    <2>2. \A j, k \in page : rank[j] = rank[k] => j = k
      BY RankIsOwn
    <2> QED  BY <2>1, <2>2 DEF Injection, IsInjective
  <1>2. \A n \in ranks : \E j \in page : rank[j] = n
    <2> SUFFICES ASSUME NEW n \in ranks PROVE \E j \in page : rank[j] = n
      OBVIOUS
    <2>1. PICK j \in S : RankIn(S, j) = n
      BY RanksAreTaken, RankType
    <2> QED  BY <2>1
  <1>3. rank \in Surjection(page, ranks)
    BY <1>1, <1>2 DEF Surjection, Injection
  <1>4. IsFiniteSet(ranks) /\ Cardinality(ranks) = size
    BY FS_Interval
  <1>5. IsFiniteSet(page) /\ (Cardinality(page) = Cardinality(ranks) <=> rank \in Surjection(page, ranks))
    BY <1>1, <1>4, FS_Injection
  <1> QED  BY <1>3, <1>4, <1>5

\* Every element has a rank, and every number below their number is one.
LEMMA RanksOfFinite ==
    ASSUME NEW S \in SUBSET Nat, IsFiniteSet(S)
    PROVE  /\ Cardinality(S) \in Nat
           /\ \A i \in S : RankIn(S, i) \in 0..(Cardinality(S) - 1)
           /\ \A n \in 0..(Cardinality(S) - 1) : \E i \in S : RankIn(S, i) = n
  <1>0. Cardinality(S) \in Nat /\ \A i \in S : i \in Nat
    BY FS_CardinalityType
  <1>1. \A i \in S : RankIn(S, i) \in 0..(Cardinality(S) - 1)
    <2> SUFFICES ASSUME NEW i \in S PROVE RankIn(S, i) \in 0..(Cardinality(S) - 1)
      OBVIOUS
    <2>1. Under(S, i) \in SUBSET (S \ {i})
      BY InUnder, <1>0
    <2>2. IsFiniteSet(S \ {i}) /\ Cardinality(S \ {i}) = Cardinality(S) - 1
      BY FS_RemoveElement
    <2>3. RankIn(S, i) <= Cardinality(S) - 1
      BY <2>1, <2>2, FS_Subset DEF RankIn
    <2> QED  BY <1>0, <2>3, RankType
  <1> DEFINE ranks == 0..(Cardinality(S) - 1)
             rank  == [i \in S |-> RankIn(S, i)]
  <1>2. rank \in Injection(S, ranks)
    <2>1. rank \in [S -> ranks]
      BY <1>1
    <2>2. \A i, j \in S : rank[i] = rank[j] => i = j
      BY RankIsOwn
    <2> QED  BY <2>1, <2>2 DEF Injection, IsInjective
  <1>3. IsFiniteSet(ranks) /\ Cardinality(ranks) = Cardinality(S)
    <2>1. \A n \in Nat : IsFiniteSet(0..(n - 1)) /\ Cardinality(0..(n - 1)) = n
      BY FS_Interval
    <2> QED  BY <1>0, <2>1
  <1>4. \A n \in ranks : \E i \in S : rank[i] = n
    <2> HIDE DEF rank, ranks
    <2>1. rank \in Surjection(S, ranks)
      BY <1>2, <1>3, FS_Injection
    <2> QED  BY <2>1 DEF Surjection
  <1> QED  BY <1>0, <1>1, <1>4

\* In the order of their ranks the elements make a sequence, of all of them.
LEMMA ListedByRank ==
    ASSUME NEW S \in SUBSET Nat, IsFiniteSet(S)
    PROVE  LET list == [k \in 1..Cardinality(S) |-> CHOOSE i \in S : RankIn(S, i) = k - 1]
           IN  /\ list \in Seq(S) /\ Len(list) = Cardinality(S)
               /\ \A i \in S : \E k \in 1..Cardinality(S) : list[k] = i
  <1> DEFINE list == [k \in 1..Cardinality(S) |-> CHOOSE i \in S : RankIn(S, i) = k - 1]
  <1>1. Cardinality(S) \in Nat
    BY RanksOfFinite
  <1>2. ASSUME NEW k \in 1..Cardinality(S) PROVE list[k] \in S /\ RankIn(S, list[k]) = k - 1
    <2>1. \E i \in S : RankIn(S, i) = k - 1
      BY <1>1, RanksOfFinite
    <2> QED  BY <2>1
  <1>3. ASSUME NEW i \in S PROVE \E k \in 1..Cardinality(S) : list[k] = i
    <2> DEFINE k == RankIn(S, i) + 1
    <2>1. k \in 1..Cardinality(S) /\ RankIn(S, i) = k - 1
      BY <1>1, RanksOfFinite
    <2>2. list[k] \in S /\ RankIn(S, list[k]) = RankIn(S, i)
      <3>1. list[k] \in S /\ RankIn(S, list[k]) = k - 1
        BY <1>2, <2>1
      <3> QED  BY <2>1, <3>1
    <2>3. \A j \in S : RankIn(S, j) = RankIn(S, i) => j = i
      BY RankIsOwn
    <2> HIDE DEF k, list
    <2> QED  BY <2>1, <2>2, <2>3
  <1>4. list \in Seq(S) /\ Len(list) = Cardinality(S)
    <2>1. list \in [1..Cardinality(S) -> S]
      BY <1>2
    <2> HIDE DEF list
    <2> QED  BY <1>1, <2>1
  <1> QED  BY <1>3, <1>4

-----------------------------------------------------------------------------
(* Sums over finite sets: SumFunctionOnSet takes its elements in an order   *)
(* of its own, which does not matter.                                       *)

Pick(s) == CHOOSE x \in s : TRUE

\* The recursion inside SumFunctionOnSet(f, S).
Iter(f, S) ==
    CHOOSE g : g = [s \in SUBSET S |-> IF s = {} THEN 0 ELSE f[Pick(s)] + g[s \ {Pick(s)}]]

LEMMA SumIsIter == \A f, S : SumFunctionOnSet(f, S) = Iter(f, S)[S]
  BY DEF SumFunctionOnSet, FoldFunctionOnSet, MapThenFoldSet, Iter, Pick

Figures(f, S) == \A x \in S : f[x] \in Int

\* g sums f over the sets of D, element by element.
SumsOver(f, D, g) ==
    /\ g \in [D -> Int]
    /\ \A s \in D : g[s] = IF s = {} THEN 0 ELSE f[Pick(s)] + g[s \ {Pick(s)}]

Sums(f, S, g) == SumsOver(f, SUBSET S, g)

LEMMA PickIsIn == \A s : s # {} => Pick(s) \in s
  BY DEF Pick

\* It sums over sets of any number of elements.
LEMMA SumsExist ==
    ASSUME NEW S, IsFiniteSet(S), NEW f, Figures(f, S)
    PROVE  \E g : Sums(f, S, g)
  <1> DEFINE Small(n) == {s \in SUBSET S : Cardinality(s) <= n}
             Bad      == {n \in Nat : ~\E g : SumsOver(f, Small(n), g)}
  <1>1. \A s \in SUBSET S : IsFiniteSet(s) /\ Cardinality(s) \in Nat /\ Cardinality(s) <= Cardinality(S)
    BY FS_Subset, FS_CardinalityType
  <1>2. Bad = {}
    <2> SUFFICES ASSUME Bad # {} PROVE FALSE
      OBVIOUS
    <2>1. PICK n \in Bad : \A k \in Bad : n <= k
      BY LowestExists
    <2>2. CASE n = 0
      <3>1. Small(0) = {{}}
        BY <1>1, FS_EmptySet
      <3>2. SumsOver(f, Small(0), [s \in Small(0) |-> 0])
        BY <3>1 DEF SumsOver
      <3> QED  BY <2>1, <2>2, <3>2
    <2>3. CASE n # 0
      <3> DEFINE k == n - 1
      <3>1. k \in Nat /\ k \notin Bad
        <4>1. n \in Nat
          BY <2>1
        <4> HIDE DEF Bad
        <4> QED  BY <2>1, <2>3, <4>1
      <3>2. PICK g : SumsOver(f, Small(k), g)
        BY <3>1
      <3> DEFINE h == [s \in Small(n) |-> IF s = {} THEN 0 ELSE f[Pick(s)] + g[s \ {Pick(s)}]]
      <3>3. \A s \in Small(n) : s # {} =>
               Pick(s) \in S /\ s \ {Pick(s)} \in Small(k) /\ s \ {Pick(s)} \in Small(n)
        <4> SUFFICES ASSUME NEW s \in Small(n), s # {}
                     PROVE  Pick(s) \in S /\ s \ {Pick(s)} \in Small(k) /\ s \ {Pick(s)} \in Small(n)
          OBVIOUS
        <4>1. Pick(s) \in s /\ IsFiniteSet(s)
          BY <1>1, PickIsIn
        <4>2. Cardinality(s \ {Pick(s)}) = Cardinality(s) - 1
          BY <4>1, FS_RemoveElement
        <4> QED  BY <1>1, <2>1, <4>1, <4>2
      <3>4. \A s \in Small(k) : s \in Small(n) /\ h[s] = g[s]
        <4>1. \A s \in Small(k) : s \in Small(n)
          BY <1>1, <2>1
        <4> QED  BY <3>2, <4>1 DEF SumsOver
      <3>5. h \in [Small(n) -> Int]
        BY <3>2, <3>3 DEF SumsOver, Figures
      <3>6. \A s \in Small(n) : h[s] = IF s = {} THEN 0 ELSE f[Pick(s)] + h[s \ {Pick(s)}]
        BY <3>3, <3>4
      <3>7. SumsOver(f, Small(n), h)
        <4> HIDE DEF h, Small
        <4> QED  BY <3>5, <3>6 DEF SumsOver
      <3> QED  BY <2>1, <3>7
    <2> QED  BY <2>2, <2>3
  <1>3. Cardinality(S) \in Nat /\ Small(Cardinality(S)) = SUBSET S
    BY <1>1
  <1> QED  BY <1>2, <1>3 DEF Sums

Splits(f, S, g) == \A s \in SUBSET S : \A x \in s : g[s] = f[x] + g[s \ {x}]

\* In whatever order.
LEMMA SumsSplit ==
    ASSUME NEW S, IsFiniteSet(S), NEW f, Figures(f, S), NEW g, Sums(f, S, g)
    PROVE  Splits(f, S, g)
  <1> DEFINE Bad == {s \in SUBSET S : \E x \in s : g[s] # f[x] + g[s \ {x}]}
  <1> SUFFICES ASSUME Bad # {} PROVE FALSE
    BY DEF Splits
  <1>1. PICK s \in Bad : \A t \in Bad : t \subseteq s => t = s
    <2>1. Bad \in SUBSET (SUBSET S)
      OBVIOUS
    <2> HIDE DEF Bad
    <2> QED  BY <2>1, SmallestExists
  <1>2. PICK x \in s : g[s] # f[x] + g[s \ {x}]
    OBVIOUS
  <1> DEFINE y == Pick(s)
  <1>3. y \in s /\ x \in S /\ y \in S /\ g[s] = f[y] + g[s \ {y}]
    BY <1>2, PickIsIn DEF Sums, SumsOver
  <1> HIDE DEF y
  <1>4. x # y
    BY <1>2, <1>3
  <1>5. /\ s \ {y} \in SUBSET S /\ s \ {x} \in SUBSET S /\ (s \ {y}) \ {x} \in SUBSET S
        /\ x \in s \ {y} /\ y \in s \ {x} /\ s \ {y} # s /\ s \ {x} # s
        /\ (s \ {x}) \ {y} = (s \ {y}) \ {x}
    BY <1>2, <1>3, <1>4
  <1>6. s \ {y} \notin Bad /\ s \ {x} \notin Bad
    BY <1>1, <1>5
  <1>7. g[s \ {y}] = f[x] + g[(s \ {y}) \ {x}] /\ g[s \ {x}] = f[y] + g[(s \ {y}) \ {x}]
    BY <1>5, <1>6
  <1>8. f[x] \in Int /\ f[y] \in Int /\ g[(s \ {y}) \ {x}] \in Int
    BY <1>3, <1>5 DEF Figures, Sums, SumsOver
  <1> QED  BY <1>2, <1>3, <1>7, <1>8

\* The larger set's recursion, on the sets of the smaller one.
LEMMA SumsAgree ==
    ASSUME NEW S, IsFiniteSet(S), NEW T \in SUBSET S, NEW f, NEW e, Figures(f, S),
           \A x \in T : e[x] = f[x],
           NEW g, Sums(f, S, g), NEW h, Sums(e, T, h)
    PROVE  \A s \in SUBSET T : h[s] = g[s]
  <1> DEFINE Bad == {s \in SUBSET T : h[s] # g[s]}
  <1> SUFFICES ASSUME Bad # {} PROVE FALSE
    OBVIOUS
  <1>1. PICK s \in Bad : \A t \in Bad : t \subseteq s => t = s
    <2>1. Bad \in SUBSET (SUBSET T) /\ IsFiniteSet(T)
      BY FS_Subset
    <2> HIDE DEF Bad
    <2> QED  BY <2>1, SmallestExists
  <1>2. s \in SUBSET T /\ s \in SUBSET S /\ h[s] # g[s]
    OBVIOUS
  <1>3. s # {}
    BY <1>2 DEF Sums, SumsOver
  <1> DEFINE y == Pick(s)
  <1>4. y \in s /\ g[s] = f[y] + g[s \ {y}] /\ h[s] = e[y] + h[s \ {y}]
    BY <1>2, <1>3, PickIsIn DEF Sums, SumsOver
  <1> HIDE DEF y
  <1>5. s \ {y} \in SUBSET T /\ s \ {y} # s /\ s \ {y} \subseteq s /\ e[y] = f[y]
    BY <1>2, <1>4
  <1>6. h[s \ {y}] = g[s \ {y}]
    BY <1>1, <1>5
  <1> QED  BY <1>2, <1>4, <1>5, <1>6

LEMMA IterSums ==
    ASSUME NEW S, IsFiniteSet(S), NEW f, Figures(f, S)
    PROVE  Sums(f, S, Iter(f, S))
  <1> DEFINE Body(g) == [s \in SUBSET S |-> IF s = {} THEN 0 ELSE f[Pick(s)] + g[s \ {Pick(s)}]]
  <1>1. PICK g : Sums(f, S, g)
    BY SumsExist
  <1>2. g = Body(g)
    BY <1>1 DEF Sums, SumsOver
  <1>3. Iter(f, S) = Body(Iter(f, S))
    BY <1>2 DEF Iter
  <1>4. ASSUME NEW h, h = Body(h) PROVE \A s \in SUBSET S : h[s] = g[s]
    <2> DEFINE Bad == {s \in SUBSET S : h[s] # g[s]}
    <2> SUFFICES ASSUME Bad # {} PROVE FALSE
      OBVIOUS
    <2>1. PICK s \in Bad : \A t \in Bad : t \subseteq s => t = s
      <3>1. Bad \in SUBSET (SUBSET S)
        OBVIOUS
      <3> HIDE DEF Bad
      <3> QED  BY <3>1, SmallestExists
    <2>2. s \in SUBSET S /\ h[s] # g[s]
      OBVIOUS
    <2>3. h[s] = IF s = {} THEN 0 ELSE f[Pick(s)] + h[s \ {Pick(s)}]
      BY <1>4, <2>2
    <2>4. g[s] = IF s = {} THEN 0 ELSE f[Pick(s)] + g[s \ {Pick(s)}]
      BY <1>1, <2>2 DEF Sums, SumsOver
    <2>5. s # {}
      BY <2>2, <2>3, <2>4
    <2>6. s \ {Pick(s)} \in SUBSET S /\ s \ {Pick(s)} # s /\ s \ {Pick(s)} \subseteq s
      BY <2>2, <2>5, PickIsIn
    <2>7. h[s \ {Pick(s)}] = g[s \ {Pick(s)}]
      BY <2>1, <2>6
    <2> QED  BY <2>2, <2>3, <2>4, <2>5, <2>7
  <1>5. \A s \in SUBSET S : Iter(f, S)[s] = g[s]
    BY <1>3, <1>4
  <1>6. Iter(f, S) = g
    <2>1. Iter(f, S) = [s \in SUBSET S |-> Body(Iter(f, S))[s]]
      BY <1>3
    <2>2. g = [s \in SUBSET S |-> g[s]]
      BY <1>1 DEF Sums, SumsOver
    <2> QED  BY <1>3, <1>5, <2>2
  <1> QED  BY <1>1, <1>6

\* Numbered anew, the figures add up to the same.
LEMMA IterRenamed ==
    ASSUME NEW S, IsFiniteSet(S), NEW T, NEW b \in Bijection(S, T), NEW f, NEW h,
           Figures(f, S), \A x \in S : f[x] = h[b[x]]
    PROVE  Iter(f, S)[S] = Iter(h, T)[T]
  <1> DEFINE Image(s) == {b[x] : x \in s}
             g == Iter(f, S)
             k == Iter(h, T)
  <1>1. /\ b \in [S -> T] /\ \A y \in T : \E x \in S : b[x] = y
        /\ \A x, y \in S : b[x] = b[y] => x = y
    BY DEF Bijection, Injection, Surjection, IsInjective
  <1>2. IsFiniteSet(T)
    <2>1. b \in Surjection(S, T)
      BY DEF Bijection
    <2> QED  BY <2>1, FS_Surjection
  <1>3. Figures(h, T)
    BY <1>1 DEF Figures
  <1>4. Sums(f, S, g) /\ Sums(h, T, k)
    BY <1>2, <1>3, IterSums
  <1> HIDE DEF g, k
  <1>5. Splits(h, T, k) /\ Splits(f, S, g)
    BY <1>2, <1>3, <1>4, SumsSplit
  <1> DEFINE Bad == {s \in SUBSET S : g[s] # k[Image(s)]}
  <1>6. Bad = {}
    <2> SUFFICES ASSUME Bad # {} PROVE FALSE
      OBVIOUS
    <2>1. PICK s \in Bad : \A t \in Bad : t \subseteq s => t = s
      <3>1. Bad \in SUBSET (SUBSET S)
        OBVIOUS
      <3> HIDE DEF Bad
      <3> QED  BY <3>1, SmallestExists
    <2>2. CASE s = {}
      <3>1. Image(s) = {} /\ {} \in SUBSET S /\ {} \in SUBSET T
        BY <2>2
      <3>2. g[{}] = 0 /\ k[{}] = 0
        BY <1>4, <3>1 DEF Sums, SumsOver
      <3> QED  BY <2>1, <2>2, <3>1, <3>2
    <2>3. CASE s # {}
      <3>1. PICK x \in s : TRUE
        BY <2>3
      <3>2. x \in S /\ s \in SUBSET S /\ Image(s) \in SUBSET T /\ b[x] \in Image(s)
        BY <1>1, <3>1
      <3>3. Image(s \ {x}) = Image(s) \ {b[x]}
        <4>1. ASSUME NEW y \in Image(s \ {x}) PROVE y \in Image(s) \ {b[x]}
          BY <1>1, <3>2, <4>1
        <4>2. ASSUME NEW y \in Image(s) \ {b[x]} PROVE y \in Image(s \ {x})
          BY <3>2, <4>2
        <4> QED  BY <4>1, <4>2
      <3>4. s \ {x} \in SUBSET S /\ s \ {x} \subseteq s /\ s \ {x} # s
        BY <3>1, <3>2
      <3>5. g[s \ {x}] = k[Image(s \ {x})]
        BY <2>1, <3>4
      <3>6. g[s] = f[x] + g[s \ {x}]
        BY <1>5, <3>1, <3>2 DEF Splits
      <3>7. k[Image(s)] = h[b[x]] + k[Image(s) \ {b[x]}]
        <4> HIDE DEF Image
        <4> QED  BY <1>5, <3>2 DEF Splits
      <3> QED  BY <2>1, <3>2, <3>3, <3>5, <3>6, <3>7
    <2> QED  BY <2>2, <2>3
  <1>7. Image(S) = T
    BY <1>1
  <1> QED  BY <1>6, <1>7 DEF g, k

LEMMA SumEmpty == \A f : SumFunctionOnSet(f, {}) = 0
  <1> SUFFICES ASSUME NEW f PROVE SumFunctionOnSet(f, {}) = 0
    OBVIOUS
  <1>1. IsFiniteSet({}) /\ Figures(f, {})
    BY FS_EmptySet DEF Figures
  <1>2. Sums(f, {}, Iter(f, {}))
    BY <1>1, IterSums
  <1> QED  BY <1>2, SumIsIter DEF Sums, SumsOver

LEMMA SumType ==
    ASSUME NEW S, IsFiniteSet(S), NEW f, Figures(f, S)
    PROVE  SumFunctionOnSet(f, S) \in Int
  <1>1. Sums(f, S, Iter(f, S)) /\ S \in SUBSET S
    BY IterSums
  <1> QED  BY <1>1, SumIsIter DEF Sums, SumsOver

\* The sum of the others, and one.
LEMMA SumTake ==
    ASSUME NEW S, IsFiniteSet(S), NEW f, Figures(f, S), NEW x \in S
    PROVE  SumFunctionOnSet(f, S) = f[x] + SumFunctionOnSet(f, S \ {x})
  <1> DEFINE T == S \ {x}
  <1>1. IsFiniteSet(T) /\ T \in SUBSET S /\ Figures(f, T)
    BY FS_Subset DEF Figures
  <1>2. Sums(f, S, Iter(f, S)) /\ Sums(f, T, Iter(f, T))
    BY <1>1, IterSums
  <1>3. Iter(f, S)[S] = f[x] + Iter(f, S)[T]
    <2>1. Splits(f, S, Iter(f, S))
      BY <1>2, SumsSplit
    <2> QED  BY <2>1 DEF Splits
  <1>4. Iter(f, T)[T] = Iter(f, S)[T]
    <2> DEFINE g == Iter(f, S)
               h == Iter(f, T)
    <2>1. Sums(f, S, g) /\ Sums(f, T, h) /\ T \in SUBSET T
      BY <1>2
    <2> HIDE DEF T, g, h
    <2>2. \A s \in SUBSET T : h[s] = g[s]
      BY <1>1, <2>1, SumsAgree
    <2>3. h[T] = g[T]
      BY <2>1, <2>2
    <2> QED  BY <2>3 DEF g, h
  <1> QED  BY <1>3, <1>4, SumIsIter

LEMMA SumSame ==
    ASSUME NEW S, IsFiniteSet(S), NEW f, NEW e, Figures(f, S), \A x \in S : e[x] = f[x]
    PROVE  SumFunctionOnSet(e, S) = SumFunctionOnSet(f, S)
  <1>1. Figures(e, S)
    BY DEF Figures
  <1>2. Sums(f, S, Iter(f, S)) /\ Sums(e, S, Iter(e, S)) /\ S \in SUBSET S
    BY <1>1, IterSums
  <1>3. \A s \in SUBSET S : Iter(e, S)[s] = Iter(f, S)[s]
    <2> DEFINE g == Iter(f, S)
               h == Iter(e, S)
    <2>1. Sums(f, S, g) /\ Sums(e, S, h)
      BY <1>2
    <2> HIDE DEF g, h
    <2>2. \A s \in SUBSET S : h[s] = g[s]
      BY <1>2, <2>1, SumsAgree
    <2> QED  BY <2>2 DEF g, h
  <1> QED  BY <1>2, <1>3, SumIsIter

\* Two sets that share nothing, together.
LEMMA SumJoined ==
    ASSUME NEW S, IsFiniteSet(S), NEW T, IsFiniteSet(T), S \cap T = {},
           NEW f, Figures(f, S \cup T)
    PROVE  SumFunctionOnSet(f, S \cup T) = SumFunctionOnSet(f, S) + SumFunctionOnSet(f, T)
  <1> DEFINE Sum(s) == SumFunctionOnSet(f, s)
             Bad == {t \in SUBSET T : Sum(S \cup t) # Sum(S) + Sum(t)}
  <1>1. \A t \in SUBSET T : IsFiniteSet(t) /\ IsFiniteSet(S \cup t) /\ Figures(f, t) /\ Figures(f, S \cup t)
    BY FS_Subset, FS_Union DEF Figures
  <1>2. Figures(f, S) /\ \A t \in SUBSET T : \A x \in t : f[x] \in Int
    BY DEF Figures
  <1>3. Sum(S) \in Int /\ \A t \in SUBSET T : Sum(t) \in Int
    BY <1>1, <1>2, SumType
  <1>4. \A t \in SUBSET T : \A x \in t :
           Sum(t) = f[x] + Sum(t \ {x}) /\ Sum(S \cup t) = f[x] + Sum((S \cup t) \ {x})
    <2> SUFFICES ASSUME NEW t \in SUBSET T, NEW x \in t
                 PROVE  Sum(t) = f[x] + Sum(t \ {x}) /\ Sum(S \cup t) = f[x] + Sum((S \cup t) \ {x})
      OBVIOUS
    <2>1. x \in S \cup t
      OBVIOUS
    <2> QED  BY <1>1, <2>1, SumTake
  <1>5. Sum({}) = 0
    BY SumEmpty
  <1> HIDE DEF Sum
  <1>6. Bad = {}
    <2> SUFFICES ASSUME Bad # {} PROVE FALSE
      OBVIOUS
    <2>1. PICK t \in Bad : \A u \in Bad : u \subseteq t => u = t
      <3>1. Bad \in SUBSET (SUBSET T)
        OBVIOUS
      <3> HIDE DEF Bad
      <3> QED  BY <3>1, SmallestExists
    <2>2. t \in SUBSET T /\ Sum(S \cup t) # Sum(S) + Sum(t)
      OBVIOUS
    <2>3. t # {}
      <3> SUFFICES ASSUME t = {} PROVE FALSE
        OBVIOUS
      <3>1. S \cup t = S
        OBVIOUS
      <3> QED  BY <1>3, <1>5, <2>2, <3>1
    <2>4. PICK x \in t : TRUE
      BY <2>3
    <2>5. t \ {x} \in SUBSET T /\ t \ {x} \subseteq t /\ t \ {x} # t /\ (S \cup t) \ {x} = S \cup (t \ {x})
      BY <2>2, <2>4
    <2>6. Sum(S \cup (t \ {x})) = Sum(S) + Sum(t \ {x})
      BY <2>1, <2>5
    <2>7. Sum(t) = f[x] + Sum(t \ {x}) /\ Sum(S \cup t) = f[x] + Sum(S \cup (t \ {x}))
      BY <1>4, <2>2, <2>4, <2>5
    <2>8. f[x] \in Int /\ Sum(t \ {x}) \in Int
      BY <1>2, <1>3, <2>2, <2>4, <2>5
    <2> QED  BY <1>3, <2>2, <2>6, <2>7, <2>8
  <1> QED  BY <1>6 DEF Sum

=============================================================================
