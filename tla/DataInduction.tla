---------------------------- MODULE DataInduction ----------------------------
(***************************************************************************)
(* Induction over data, in a form that needs no operator for a parameter:  *)
(* over a set of numbers or of finite sets, by its smallest member.  And   *)
(* what it is needed for most, sums over finite sets.                      *)
(***************************************************************************)
EXTENDS Order, Sequences, Functions, FiniteSetTheorems, WellFoundedInduction, TLAPS

\* Of the parts of a finite set, one has none of the others inside it.
LEMMA SmallestSet ==
  ASSUME NEW S, IsFiniteSet(S), NEW T, T \subseteq SUBSET S, T # {}
  PROVE  \E U \in T : \A V \in T : V \subseteq U => V = U
<1>1. T \subseteq FiniteSubsetsOf(S)
  BY FS_FiniteSubsetsOfFinite
<1>2. PICK U \in T : \A V \in T : <<V, U>> \notin StrictSubsetOrdering(S)
  BY <1>1, FS_StrictSubsetOrderingWellFounded, WFMin
<1> QED
  BY <1>2 DEF StrictSubsetOrdering

\* A set of numbers has a least one.
LEMMA LeastNumber ==
  ASSUME NEW T, T \subseteq Nat, T # {}
  PROVE  \E n \in T : \A m \in T : n <= m
<1> DEFINE intervals == {1 .. n : n \in T}
<1>1. \A n \in T : 1 .. n \in SUBSET Nat /\ IsFiniteSet(1 .. n)
  BY FS_Interval
<1>2. intervals \subseteq FiniteSubsetsOf(Nat) /\ intervals # {}
  BY <1>1 DEF FiniteSubsetsOf
<1>3. \E U \in intervals : \A V \in intervals : <<V, U>> \notin StrictSubsetOrdering(Nat)
  <2> HIDE DEF intervals
  <2> QED
    BY <1>2, FS_StrictSubsetOrderingWellFounded, WFMin
<1>4. PICK n \in T : \A m \in T : <<1 .. m, 1 .. n>> \notin StrictSubsetOrdering(Nat)
  BY <1>3
<1>5. ASSUME NEW m \in T, m < n
      PROVE  FALSE
  <2>1. 1 .. m \subseteq 1 .. n /\ n \in 1 .. n /\ n \notin 1 .. m
    BY <1>5
  <2>2. 1 .. m \in SUBSET Nat /\ 1 .. n \in SUBSET Nat
    BY <1>1
  <2>3. <<1 .. m, 1 .. n>> \in StrictSubsetOrdering(Nat)
    BY <2>1, <2>2 DEF StrictSubsetOrdering
  <2> QED
    BY <1>4, <2>3
<1> QED
  BY <1>4, <1>5

\* A set of numbers that holds 0, and with any number the next, holds them all.
LEMMA CountingUp ==
  ASSUME NEW T, 0 \in T, \A n \in Nat : n \in T => n + 1 \in T
  PROVE  Nat \subseteq T
<1> SUFFICES ASSUME Nat \ T # {}
             PROVE  FALSE
  OBVIOUS
<1>1. PICK n \in Nat \ T : \A m \in Nat \ T : n <= m
  BY LeastNumber
<1>2. n - 1 \in Nat /\ n - 1 \in T
  BY <1>1
<1> QED
  BY <1>2
-----------------------------------------------------------------------------
\* The element that a sum takes next, and the sums over all parts of S.
Pick(s) == CHOOSE x \in s : TRUE
SumsOver(f, S, g) ==
  g = [s \in SUBSET S |-> IF s = {} THEN 0 ELSE f[Pick(s)] + g[s \ {Pick(s)}]]

\* There are such sums, however large S is.
LEMMA SumsExist ==
  ASSUME NEW f, NEW S, IsFiniteSet(S)
  PROVE  \E g : SumsOver(f, S, g)
<1> DEFINE Small(n) == {s \in SUBSET S : Cardinality(s) <= n}
           Upto(n, g) ==
             g = [s \in Small(n) |-> IF s = {} THEN 0 ELSE f[Pick(s)] + g[s \ {Pick(s)}]]
           T == {n \in Nat : \E g : Upto(n, g)}
<1>1. \A s \in SUBSET S : IsFiniteSet(s) /\ Cardinality(s) \in Nat
  BY FS_Subset, FS_CardinalityType
<1>2. \A s \in SUBSET S : s # {} =>
        Pick(s) \in s /\ s \ {Pick(s)} \in SUBSET S /\ Cardinality(s \ {Pick(s)}) = Cardinality(s) - 1
  BY <1>1, FS_RemoveElement DEF Pick
<1>3. 0 \in T
  <2>1. \A s \in Small(0) : s = {}
    BY <1>1, FS_EmptySet
  <2>2. Upto(0, [s \in Small(0) |-> 0])
    BY <2>1
  <2> QED
    BY <2>2
<1>4. ASSUME NEW n \in Nat, n \in T
      PROVE  n + 1 \in T
  <2>1. PICK g : Upto(n, g)
    BY <1>4
  <2> DEFINE h == [s \in Small(n + 1) |-> IF s = {} THEN 0 ELSE f[Pick(s)] + g[s \ {Pick(s)}]]
  <2>2. \A s \in Small(n) : s \in Small(n + 1)
    BY <1>1
  <2>3. \A s \in Small(n) : g[s] = h[s]
    BY <2>1, <2>2
  <2>4. \A s \in Small(n + 1) : s # {} => s \ {Pick(s)} \in Small(n)
    BY <1>1, <1>2
  <2>5. \A s \in Small(n + 1) : s # {} => g[s \ {Pick(s)}] = h[s \ {Pick(s)}]
    BY <2>3, <2>4
  <2>6. Upto(n + 1, h)
    <3> HIDE DEF Small
    <3> QED
      BY <2>5
  <2> HIDE DEF Upto
  <2> QED
    BY <2>6
<1>5. Cardinality(S) \in Nat /\ Small(Cardinality(S)) = SUBSET S
  BY FS_CardinalityType, FS_Subset, <1>1
<1>6. Cardinality(S) \in T
  <2> HIDE DEF T
  <2>1. Nat \subseteq T
    BY <1>3, <1>4, CountingUp
  <2> QED
    BY <1>5, <2>1
<1>7. PICK g : Upto(Cardinality(S), g)
  BY <1>6
<1>8. SumsOver(f, S, g)
  <2> HIDE DEF Small
  <2> QED
    BY <1>5, <1>7 DEF SumsOver
<1> QED
  BY <1>8

\* They are no others: where f and h agree, so do their sums.
LEMMA SumsAgree ==
  ASSUME NEW S, NEW T, IsFiniteSet(S), IsFiniteSet(T),
         NEW f, NEW h, NEW g, NEW k, SumsOver(f, S, g), SumsOver(h, T, k),
         NEW U, U \subseteq S, U \subseteq T, \A x \in U : f[x] = h[x]
  PROVE  g[U] = k[U]
<1> DEFINE bad == {V \in SUBSET U : g[V] # k[V]}
<1> SUFFICES ASSUME g[U] # k[U]
             PROVE  FALSE
  OBVIOUS
<1>1. bad \subseteq SUBSET U /\ bad # {} /\ IsFiniteSet(U)
  BY FS_Subset
<1>2. PICK V \in bad : \A W \in bad : W \subseteq V => W = V
  <2> HIDE DEF bad
  <2> QED
    BY <1>1, SmallestSet
<1>3. V \in SUBSET S /\ V \in SUBSET T /\ V \in SUBSET U
  OBVIOUS
<1>4. V # {}
  BY <1>2, <1>3 DEF SumsOver
<1>5. Pick(V) \in V
  BY <1>4 DEF Pick
<1>6. g[V \ {Pick(V)}] = k[V \ {Pick(V)}]
  BY <1>2, <1>5
<1>7. g[V] = f[Pick(V)] + g[V \ {Pick(V)}] /\ k[V] = h[Pick(V)] + k[V \ {Pick(V)}]
  BY <1>3, <1>4 DEF SumsOver
<1>8. f[Pick(V)] = h[Pick(V)]
  BY <1>3, <1>5
<1> QED
  BY <1>2, <1>6, <1>7, <1>8

LEMMA SumIsOver ==
  ASSUME NEW f, NEW S, IsFiniteSet(S)
  PROVE  \E g : SumsOver(f, S, g) /\ SumFunctionOnSet(f, S) = g[S]
<1> DEFINE iter == CHOOSE g : SumsOver(f, S, g)
<1>1. SumFunctionOnSet(f, S) = iter[S]
  BY Zenon DEF SumFunctionOnSet, FoldFunctionOnSet, MapThenFoldSet, SumsOver, Pick
<1>2. SumsOver(f, S, iter)
  <2>1. \E g : SumsOver(f, S, g)
    BY SumsExist
  <2> QED
    BY Zenon, <2>1
<1> QED
  BY <1>1, <1>2

\* A sum depends on its terms alone.
LEMMA SumOfEqual ==
  ASSUME NEW S, IsFiniteSet(S), NEW f, NEW h, \A x \in S : f[x] = h[x]
  PROVE  SumFunctionOnSet(f, S) = SumFunctionOnSet(h, S)
<1>1. PICK g : SumsOver(f, S, g) /\ SumFunctionOnSet(f, S) = g[S]
  BY SumIsOver
<1>2. PICK k : SumsOver(h, S, k) /\ SumFunctionOnSet(h, S) = k[S]
  BY SumIsOver
<1> QED
  BY <1>1, <1>2, SumsAgree

LEMMA SumOfNone == \A f : SumFunctionOnSet(f, {}) = 0
<1> TAKE f
<1>1. PICK g : SumsOver(f, {}, g) /\ SumFunctionOnSet(f, {}) = g[{}]
  BY SumIsOver, FS_EmptySet
<1> QED
  BY <1>1 DEF SumsOver

\* A sum without the term it takes first.
LEMMA SumUnfolds ==
  ASSUME NEW f, NEW S, IsFiniteSet(S), S # {}
  PROVE  /\ Pick(S) \in S
         /\ SumFunctionOnSet(f, S) = f[Pick(S)] + SumFunctionOnSet(f, S \ {Pick(S)})
<1> DEFINE R == S \ {Pick(S)}
<1>1. Pick(S) \in S
  BY DEF Pick
<1>2. IsFiniteSet(R)
  BY FS_Subset
<1>3. PICK g : SumsOver(f, S, g) /\ SumFunctionOnSet(f, S) = g[S]
  BY SumIsOver
<1>4. PICK k : SumsOver(f, R, k) /\ SumFunctionOnSet(f, R) = k[R]
  BY <1>2, SumIsOver
<1>5. g[R] = k[R]
  <2>1. R \subseteq S /\ \A x \in R : f[x] = f[x]
    OBVIOUS
  <2> HIDE DEF R
  <2> QED
    BY <1>2, <1>3, <1>4, <2>1, SumsAgree
<1>6. g[S] = f[Pick(S)] + g[R]
  BY <1>3 DEF SumsOver
<1> QED
  BY <1>1, <1>3, <1>4, <1>5, <1>6

\* Sums of numbers are numbers.
LEMMA SumType ==
  ASSUME NEW S, IsFiniteSet(S), NEW f, \A x \in S : f[x] \in Nat
  PROVE  SumFunctionOnSet(f, S) \in Nat
<1> DEFINE bad == {V \in SUBSET S : SumFunctionOnSet(f, V) \notin Nat}
<1> SUFFICES ASSUME SumFunctionOnSet(f, S) \notin Nat
             PROVE  FALSE
  OBVIOUS
<1>1. bad \subseteq SUBSET S /\ bad # {}
  OBVIOUS
<1>2. PICK V \in bad : \A W \in bad : W \subseteq V => W = V
  <2> HIDE DEF bad
  <2> QED
    BY <1>1, SmallestSet
<1>3. V # {} /\ IsFiniteSet(V)
  <2>1. SumFunctionOnSet(f, V) # 0
    OBVIOUS
  <2> QED
    BY <2>1, SumOfNone, FS_Subset
<1>4. Pick(V) \in V /\ SumFunctionOnSet(f, V) = f[Pick(V)] + SumFunctionOnSet(f, V \ {Pick(V)})
  BY <1>3, SumUnfolds
<1>5. SumFunctionOnSet(f, V \ {Pick(V)}) \in Nat
  BY <1>2, <1>4
<1> QED
  BY <1>2, <1>4, <1>5

\* The order of the terms does not matter: any of them can be the first.
LEMMA SumAddsElement ==
  ASSUME NEW S, IsFiniteSet(S), NEW x, x \notin S,
         NEW f, \A e \in S \cup {x} : f[e] \in Nat
  PROVE  SumFunctionOnSet(f, S \cup {x}) = f[x] + SumFunctionOnSet(f, S)
<1> DEFINE U == S \cup {x}
           Splits(V, e) == SumFunctionOnSet(f, V) = f[e] + SumFunctionOnSet(f, V \ {e})
           bad == {V \in SUBSET U : \E e \in V : ~Splits(V, e)}
<1>1. IsFiniteSet(U) /\ \A V \in SUBSET U : IsFiniteSet(V)
  BY FS_AddElement, FS_Subset
<1>2. bad = {}
  <2> SUFFICES ASSUME bad # {}
               PROVE  FALSE
    OBVIOUS
  <2>1. PICK V \in bad : \A W \in bad : W \subseteq V => W = V
    <3>1. bad \subseteq SUBSET U
      OBVIOUS
    <3> HIDE DEF bad, U
    <3> QED
      BY <1>1, <3>1, SmallestSet
  <2>2. V \in SUBSET U /\ V # {}
    BY <2>1
  <2>3. PICK e \in V : ~Splits(V, e)
    BY <2>1
  <2> DEFINE c == Pick(V)
             W == V \ {e, c}
  <2>4. c \in V /\ Splits(V, c)
    BY <1>1, <2>2, SumUnfolds
  <2>5. c # e
    BY <2>3, <2>4
  <2>6. Splits(V \ {c}, e) /\ Splits(V \ {e}, c)
    <3>1. V \ {c} \in SUBSET U /\ V \ {e} \in SUBSET U /\ V \ {c} \notin bad /\ V \ {e} \notin bad
      BY <2>1, <2>2, <2>4
    <3>2. e \in V \ {c} /\ c \in V \ {e}
      BY <2>4, <2>5
    <3> QED
      BY <3>1, <3>2
  <2>7. (V \ {c}) \ {e} = W /\ (V \ {e}) \ {c} = W
    OBVIOUS
  <2>8. f[e] \in Nat /\ f[c] \in Nat /\ SumFunctionOnSet(f, W) \in Nat
    <3>1. e \in U /\ c \in U /\ W \in SUBSET U
      BY <2>2, <2>4
    <3>2. IsFiniteSet(W) /\ \A y \in W : f[y] \in Nat
      BY <1>1, <3>1
    <3> HIDE DEF W
    <3> QED
      BY <3>1, <3>2, SumType
  <2>9. /\ SumFunctionOnSet(f, V) = f[c] + (f[e] + SumFunctionOnSet(f, W))
        /\ SumFunctionOnSet(f, V \ {e}) = f[c] + SumFunctionOnSet(f, W)
    BY <2>4, <2>6, <2>7
  <2> HIDE DEF c, W
  <2> QED
    BY <2>3, <2>8, <2>9
<1>3. U \in SUBSET U /\ x \in U /\ U \ {x} = S
  OBVIOUS
<1>4. Splits(U, x)
  BY <1>2, <1>3
<1> QED
  BY <1>3, <1>4

\* A sum of which one term is changed.
LEMMA SumWithOneChanged ==
  ASSUME NEW S, IsFiniteSet(S), NEW x \in S, NEW f, NEW h,
         \A e \in S : f[e] \in Nat /\ h[e] \in Nat,
         \A e \in S : e # x => f[e] = h[e]
  PROVE  /\ SumFunctionOnSet(f, S) \in Nat /\ SumFunctionOnSet(h, S) \in Nat
         /\ SumFunctionOnSet(f, S) + h[x] = SumFunctionOnSet(h, S) + f[x]
<1> DEFINE R == S \ {x}
<1>1. IsFiniteSet(R) /\ R \cup {x} = S /\ x \notin R
  BY FS_Subset
<1>2. \A e \in R \cup {x} : f[e] \in Nat /\ h[e] \in Nat
  BY <1>1
<1>3. \A e \in R : f[e] = h[e]
  OBVIOUS
<1> HIDE DEF R
<1>4. /\ SumFunctionOnSet(f, R \cup {x}) = f[x] + SumFunctionOnSet(f, R)
      /\ SumFunctionOnSet(h, R \cup {x}) = h[x] + SumFunctionOnSet(h, R)
  BY <1>1, <1>2, SumAddsElement
<1>5. SumFunctionOnSet(f, R) = SumFunctionOnSet(h, R)
  BY <1>1, <1>3, SumOfEqual
<1>6. SumFunctionOnSet(f, R) \in Nat
  BY <1>1, <1>2, SumType
<1>7. PICK p \in Nat, q \in Nat, r \in Nat :
        f[x] = p /\ h[x] = q /\ SumFunctionOnSet(f, R) = r
  BY <1>6
<1>8. SumFunctionOnSet(f, S) = p + r /\ SumFunctionOnSet(h, S) = q + r
  BY <1>1, <1>4, <1>5, <1>7
<1>9. p + r \in Nat /\ q + r \in Nat /\ (p + r) + q = (q + r) + p
  OBVIOUS
<1> QED
  BY <1>7, <1>8, <1>9

\* A sum is not less than any of its terms.
LEMMA SumIsNotLess ==
  ASSUME NEW S, IsFiniteSet(S), NEW x \in S, NEW f, \A e \in S : f[e] \in Nat
  PROVE  f[x] <= SumFunctionOnSet(f, S)
<1> DEFINE R == S \ {x}
<1>1. IsFiniteSet(R) /\ R \cup {x} = S /\ x \notin R
  BY FS_Subset
<1>2. \A e \in R \cup {x} : f[e] \in Nat
  BY <1>1
<1> HIDE DEF R
<1>3. SumFunctionOnSet(f, R \cup {x}) = f[x] + SumFunctionOnSet(f, R) /\ SumFunctionOnSet(f, R) \in Nat
  BY <1>1, <1>2, SumAddsElement, SumType
<1>4. SumFunctionOnSet(f, S) = f[x] + SumFunctionOnSet(f, R) /\ f[x] \in Nat
  BY <1>1, <1>3
<1> QED
  BY <1>3, <1>4

\* A sum of nothing but zeroes.
LEMMA SumOfZeroes ==
  ASSUME NEW S, IsFiniteSet(S), NEW f, \A e \in S : f[e] = 0
  PROVE  SumFunctionOnSet(f, S) = 0
<1> DEFINE bad == {V \in SUBSET S : SumFunctionOnSet(f, V) # 0}
<1> SUFFICES ASSUME SumFunctionOnSet(f, S) # 0
             PROVE  FALSE
  OBVIOUS
<1>1. bad \subseteq SUBSET S /\ bad # {}
  OBVIOUS
<1>2. PICK V \in bad : \A W \in bad : W \subseteq V => W = V
  <2> HIDE DEF bad
  <2> QED
    BY <1>1, SmallestSet
<1>3. V # {} /\ IsFiniteSet(V)
  <2>1. SumFunctionOnSet(f, V) # 0
    OBVIOUS
  <2> QED
    BY <2>1, SumOfNone, FS_Subset
<1>4. Pick(V) \in V /\ SumFunctionOnSet(f, V) = f[Pick(V)] + SumFunctionOnSet(f, V \ {Pick(V)})
  BY <1>3, SumUnfolds
<1>5. SumFunctionOnSet(f, V \ {Pick(V)}) = 0
  BY <1>2, <1>4
<1> QED
  BY <1>2, <1>4, <1>5
-----------------------------------------------------------------------------
\* Order: the k-th number of a finite set has k - 1 of them below it.
Below(S, x) == {y \in S : y < x}

LEMMA AscendingProperties ==
  ASSUME NEW S, S \subseteq Int, IsFiniteSet(S)
  PROVE  /\ Cardinality(S) \in Nat
         /\ Ascending(S) \in [1 .. Cardinality(S) -> S]
         /\ \A a, b \in 1 .. Cardinality(S) : a < b => Ascending(S)[a] < Ascending(S)[b]
         /\ \A x \in S : \E k \in 1 .. Cardinality(S) : Ascending(S)[k] = x
<1> DEFINE n == Cardinality(S)
           rank == [x \in S |-> Cardinality(Below(S, x))]
<1>1. n \in Nat
  BY FS_CardinalityType
<1>2. ASSUME NEW x \in S
      PROVE  rank[x] \in 0 .. n - 1 /\ IsFiniteSet(Below(S, x))
  <2>1. Below(S, x) \subseteq S /\ Below(S, x) # S
    BY DEF Below
  <2> QED
    BY <1>1, <2>1, FS_Subset, FS_CardinalityType
<1>3. ASSUME NEW x \in S, NEW z \in S, x < z
      PROVE  rank[x] < rank[z]
  <2>1. Below(S, x) \subseteq Below(S, z) /\ x \in Below(S, z) /\ x \notin Below(S, x)
    <3>1. \A y \in S : y \in Int
      OBVIOUS
    <3>2. x \in Int /\ z \in Int
      OBVIOUS
    <3>3. ASSUME NEW y \in S, y < x PROVE y < z
      BY <1>3, <3>1, <3>2, <3>3
    <3>4. ~ (x < x)
      BY <3>2
    <3> QED
      BY <1>3, <3>3, <3>4 DEF Below
  <2>2. /\ Cardinality(Below(S, x)) <= Cardinality(Below(S, z))
        /\ Cardinality(Below(S, x)) # Cardinality(Below(S, z))
    BY <1>2, <2>1, FS_Subset
  <2> QED
    BY <1>2, <2>2
<1> HIDE DEF rank
<1>4. rank \in Injection(S, 0 .. n - 1)
  <2>1. rank \in [S -> 0 .. n - 1]
    BY <1>2 DEF rank
  <2>2. ASSUME NEW x \in S, NEW z \in S, rank[x] = rank[z] PROVE x = z
    <3>1. rank[x] \in Int /\ rank[z] \in Int
      BY <1>1, <1>2
    <3> QED
      BY <1>3, <2>2, <3>1
  <2> QED
    BY <2>1, <2>2 DEF Injection, IsInjective
<1>5. rank \in Surjection(S, 0 .. n - 1)
  <2>1. IsFiniteSet(0 .. n - 1) /\ Cardinality(0 .. n - 1) = n
    BY <1>1, FS_Interval
  <2> QED
    BY <1>4, <2>1, FS_Injection
<1>6. ASSUME NEW k \in 1 .. n
      PROVE  Ascending(S)[k] \in S /\ rank[Ascending(S)[k]] = k - 1
  <2>1. PICK x \in S : rank[x] = k - 1
    <3>1. k - 1 \in 0 .. n - 1
      BY <1>1
    <3> QED
      BY <1>5, <3>1 DEF Surjection
  <2>2. Cardinality({y \in S : y < x}) = k - 1
    BY <2>1 DEF rank, Below
  <2>3. /\ Ascending(S)[k] \in S
        /\ Cardinality({y \in S : y < Ascending(S)[k]}) = k - 1
    BY <2>2 DEF Ascending
  <2> QED
    BY <2>3 DEF rank, Below
<1>7. Ascending(S) \in [1 .. n -> S]
  BY <1>6 DEF Ascending
<1>8. ASSUME NEW a \in 1 .. n, NEW b \in 1 .. n, a < b
      PROVE  Ascending(S)[a] < Ascending(S)[b]
  <2>1. rank[Ascending(S)[a]] < rank[Ascending(S)[b]]
    BY <1>1, <1>6, <1>8
  <2>2. rank[Ascending(S)[a]] \in Int /\ rank[Ascending(S)[b]] \in Int
    BY <1>1, <1>6
  <2>3. Ascending(S)[a] \in S /\ Ascending(S)[b] \in S /\ \A y \in S : y \in Int
    BY <1>6
  <2>4. CASE Ascending(S)[b] < Ascending(S)[a]
    <3>1. rank[Ascending(S)[b]] < rank[Ascending(S)[a]]
      BY <1>3, <2>3, <2>4
    <3> QED
      BY <2>1, <2>2, <3>1
  <2>5. CASE Ascending(S)[b] = Ascending(S)[a]
    BY <2>1, <2>2, <2>5
  <2>6. Ascending(S)[a] \in Int /\ Ascending(S)[b] \in Int
    BY <2>3
  <2> QED
    BY <2>4, <2>5, <2>6
<1>9. ASSUME NEW x \in S
      PROVE  \E k \in 1 .. n : Ascending(S)[k] = x
  <2>1. rank[x] \in 0 .. n - 1 /\ rank[x] + 1 \in 1 .. n
    BY <1>1, <1>2
  <2> DEFINE k == rank[x] + 1
  <2>2. k \in 1 .. n /\ k - 1 = rank[x]
    BY <2>1
  <2>3. rank[Ascending(S)[k]] = rank[x] /\ Ascending(S)[k] \in S
    BY <1>6, <2>2
  <2>4. Ascending(S)[k] = x
    BY <1>4, <2>3 DEF Injection, IsInjective
  <2> QED
    BY <2>2, <2>4
<1> QED
  BY <1>1, <1>7, <1>8, <1>9
\* What Picked takes out of a sequence, and in which order.
LEMMA PickedProperties ==
  ASSUME NEW s, NEW P, P \subseteq Int, IsFiniteSet(P)
  PROVE  /\ Cardinality(P) \in Nat
         /\ DOMAIN Picked(s, P) = 1 .. Cardinality(P) /\ Len(Picked(s, P)) = Cardinality(P)
         /\ \A k \in 1 .. Cardinality(P) :
              Ascending(P)[k] \in P /\ Picked(s, P)[k] = s[Ascending(P)[k]]
<1> DEFINE n == Cardinality(P)
<1>1. n \in Nat /\ Ascending(P) \in [1 .. n -> P]
  BY AscendingProperties
<1> HIDE DEF n
<1>2. Picked(s, P) = [k \in 1 .. n |-> s[Ascending(P)[k]]]
  BY DEF Picked, n
<1> QED
  BY <1>1, <1>2 DEF n

\* A finite set of numbers has a largest one.
LEMMA LargestNumber ==
  ASSUME NEW S, IsFiniteSet(S), S \subseteq Int, S # {}
  PROVE  \E x \in S : \A y \in S : x >= y
<1> DEFINE n == Cardinality(S)
           x == Ascending(S)[n]
<1>1. n \in Nat /\ n # 0
  BY FS_CardinalityType, FS_EmptySet
<1>2. n \in 1 .. n
  BY <1>1
<1>3. x \in S
  BY <1>2, AscendingProperties
<1>4. ASSUME NEW y \in S PROVE x >= y
  <2>1. PICK k \in 1 .. n : Ascending(S)[k] = y
    BY AscendingProperties
  <2>2. CASE k = n
    <3>1. x = y /\ x \in Int
      BY <1>3, <2>1, <2>2
    <3> QED
      BY <3>1
  <2>3. CASE k < n
    <3>1. y < x
      BY <1>2, <2>1, <2>3, AscendingProperties
    <3>2. x \in Int /\ y \in Int
      BY <1>3
    <3> QED
      BY <3>1, <3>2
  <2> QED
    BY <1>1, <2>2, <2>3
<1> QED
  BY <1>3, <1>4
-----------------------------------------------------------------------------
\* A set has as many parts with an element x as it has without.
LEMMA PartsDouble ==
  ASSUME NEW S, IsFiniteSet(S), NEW x, x \notin S
  PROVE  Cardinality(SUBSET (S \cup {x})) = 2 * Cardinality(SUBSET S)
<1> DEFINE A == SUBSET S
           B == {t \in SUBSET (S \cup {x}) : x \in t}
           f == [s \in A |-> s \cup {x}]
<1>1. IsFiniteSet(A) /\ Cardinality(A) \in Nat
  BY FS_SUBSET, FS_CardinalityType
<1>2. SUBSET (S \cup {x}) = A \cup B /\ A \cap B = {}
  OBVIOUS
<1>3. f \in [A -> B]
  OBVIOUS
<1>4. ASSUME NEW s \in A, NEW t \in A, f[s] = f[t] PROVE s = t
  BY <1>4
<1>5. ASSUME NEW t \in B PROVE \E s \in A : f[s] = t
  <2>1. t \ {x} \in A /\ (t \ {x}) \cup {x} = t
    OBVIOUS
  <2> QED
    BY <2>1
<1> HIDE DEF A, B, f
<1>6. f \in Surjection(A, B) /\ f \in Injection(A, B)
  BY <1>3, <1>4, <1>5 DEF Surjection, Injection, IsInjective
<1>7. IsFiniteSet(B) /\ Cardinality(B) = Cardinality(A)
  BY <1>1, <1>6, FS_Surjection
<1>8. Cardinality(A \cup B) = Cardinality(A) + Cardinality(B) - Cardinality({})
  BY <1>1, <1>2, <1>7, FS_Union
<1>9. Cardinality({}) = 0
  BY FS_EmptySet
<1>10. Cardinality(SUBSET (S \cup {x})) = Cardinality(A) + Cardinality(A)
  <2>1. Cardinality(SUBSET (S \cup {x})) = Cardinality(A \cup B)
    BY <1>2, Zenon
  <2> QED
    BY <1>1, <1>7, <1>8, <1>9, <2>1
<1>11. Cardinality(SUBSET (S \cup {x})) = 2 * Cardinality(A)
  BY <1>1, <1>10
<1> QED
  BY <1>11 DEF A

\* The provers know nothing of exponents but that a set has 2^n parts.
LEMMA PowersOfTwo ==
  /\ 2 ^ 0 = 1
  /\ \A n \in Nat : 2 ^ n \in Nat /\ 2 ^ (n + 1) = 2 * 2 ^ n /\ n < 2 ^ n
<1>1. ASSUME NEW n \in Nat
      PROVE  /\ IsFiniteSet(1 .. n) /\ Cardinality(1 .. n) = n
             /\ 2 ^ n \in Nat /\ 2 ^ n = Cardinality(SUBSET (1 .. n))
  <2>1. IsFiniteSet(1 .. n) /\ Cardinality(1 .. n) = n
    BY FS_Interval
  <2>2. IsFiniteSet(SUBSET (1 .. n)) /\ Cardinality(SUBSET (1 .. n)) = 2 ^ Cardinality(1 .. n)
    BY <2>1, FS_SUBSET
  <2> QED
    BY <2>1, <2>2, FS_CardinalityType
<1>2. ASSUME NEW n \in Nat PROVE 2 ^ (n + 1) = 2 * 2 ^ n
  <2>1. 1 .. n + 1 = (1 .. n) \cup {n + 1} /\ n + 1 \notin 1 .. n /\ n + 1 \in Nat
    OBVIOUS
  <2>2. Cardinality(SUBSET ((1 .. n) \cup {n + 1})) = 2 * Cardinality(SUBSET (1 .. n))
    BY <1>1, <2>1, PartsDouble
  <2>3. 2 ^ (n + 1) = Cardinality(SUBSET (1 .. n + 1))
    BY <1>1, <2>1
  <2> QED
    BY <1>1, <2>1, <2>2, <2>3
<1>3. 2 ^ 0 = 1
  OBVIOUS
<1> DEFINE T == {n \in Nat : n < 2 ^ n}
<1>4. 0 \in T
  BY <1>3
<1>5. ASSUME NEW n \in Nat, n \in T PROVE n + 1 \in T
  BY <1>1, <1>2, <1>5
<1>6. Nat \subseteq T
  <2> HIDE DEF T
  <2> QED
    BY <1>4, <1>5, CountingUp
<1> QED
  BY <1>1, <1>2, <1>3, <1>6

\* An injective function to a set of as many is onto it.
LEMMA AsManyIsAll ==
  ASSUME NEW S, NEW T, IsFiniteSet(S), IsFiniteSet(T), NEW f \in [S -> T],
         \A x, z \in S : f[x] = f[z] => x = z,
         Cardinality(S) = Cardinality(T)
  PROVE  \A t \in T : \E x \in S : f[x] = t
<1>1. f \in Injection(S, T)
  BY DEF Injection, IsInjective
<1>2. f \in Surjection(S, T)
  BY <1>1, FS_Injection
<1> QED
  BY <1>2 DEF Surjection
=============================================================================
