----------------------------- MODULE DataLemmas -----------------------------
(***************************************************************************)
(* Facts about the data the specifications are built from, none of which   *)
(* knows any of the programs: induction over numbers, quotients and powers *)
(* of 2, sums over finite sets and over sequences, sequences that hold     *)
(* nothing twice and what adding, removing and moving an element makes of  *)
(* them, numbers put in order, and how long a sequence can be.             *)
(***************************************************************************)
EXTENDS Integers, FiniteSets, Sequences, SequencesExt, FiniteSetTheorems,
        SequenceTheorems, WellFoundedInduction, TLAPS

-----------------------------------------------------------------------------
(* Induction.  A property of numbers is the set of those that have it.     *)

\* A set of numbers that is not empty has a least one.
LEMMA LeastNat ==
  ASSUME NEW P \in SUBSET Nat, P # {}
  PROVE  \E m \in P : \A k \in P : m <= k
<1>. DEFINE R == OpToRel(<, Nat)
<1>1. IsWellFoundedOn(R, Nat)
  BY NatLessThanWellFounded
<1>2. \A k, m \in Nat : k < m => <<k, m>> \in R
  BY DEF OpToRel
<1>. HIDE DEF R
<1>3. IsWellFoundedOn(R, P)
  BY <1>1, IsWellFoundedOnSubset
<1>4. PICK m \in P : \A k \in P : ~ (<<k, m>> \in R)
  BY <1>3, WFMin
<1>5. ASSUME NEW k \in P PROVE m <= k
  <2>1. k \in Nat /\ m \in Nat /\ ~ k < m
    BY <1>2, <1>4
  <2>. QED BY <2>1
<1>. QED BY <1>5

\* Induction: what 0 has and passes on to the next number, every number has.
LEMMA Induction ==
  ASSUME NEW P, 0 \in P, \A n \in Nat : n \in P => n + 1 \in P
  PROVE  \A n \in Nat : n \in P
<1>. SUFFICES ASSUME NEW n \in Nat, n \notin P PROVE FALSE
  OBVIOUS
<1>1. PICK m \in Nat \ P : \A k \in Nat \ P : m <= k
  BY LeastNat
<1>2. m # 0 /\ m - 1 \in Nat /\ m - 1 \notin Nat \ P
  BY <1>1
<1>. QED BY <1>1, <1>2

-----------------------------------------------------------------------------
(* Quotients and powers of 2. *)

\* Quotient and rest of natural numbers.
LEMMA Division ==
  ASSUME NEW x \in Nat, NEW d \in Nat \ {0}
  PROVE  x \div d \in Nat /\ x % d \in 0 .. d - 1 /\ x = d * (x \div d) + (x % d)
OBVIOUS

\* Two shifts in a row.
LEMMA TwoQuotients ==
  ASSUME NEW x \in Nat, NEW c \in Nat \ {0}, NEW d \in Nat \ {0}
  PROVE  x \div (c * d) = (x \div c) \div d
OBVIOUS

\* g has the powers of 2 up to the n-th.
ArePowers(g, n) ==
  /\ g \in [0 .. n -> Nat]
  /\ g[0] = 1
  /\ \A k \in 1 .. n : g[k] = 2 * g[k - 1]

\* There are such tables, however long.
LEMMA PowersExist == \A n \in Nat : \E g : ArePowers(g, n)
<1>. DEFINE Long == {n \in Nat : \E g : ArePowers(g, n)}
<1>1. 0 \in Long
  <2>. DEFINE g == [k \in 0 .. 0 |-> 1]
  <2>1. ArePowers(g, 0)
    BY DEF ArePowers
  <2>. QED BY <2>1
<1>2. ASSUME NEW n \in Nat, n \in Long PROVE n + 1 \in Long
  <2>1. PICK g : ArePowers(g, n)
    BY <1>2
  <2>. DEFINE h == [k \in 0 .. n + 1 |-> IF k = n + 1 THEN 2 * g[n] ELSE g[k]]
  <2>2. \A k \in 0 .. n : g[k] \in Nat /\ h[k] = g[k]
    BY <2>1 DEF ArePowers
  <2>3. h[n + 1] = 2 * g[n] /\ n \in 0 .. n /\ 0 \in 0 .. n
    OBVIOUS
  <2>4. h \in [0 .. n + 1 -> Nat]
    BY SMTT(20), <2>2, <2>3
  <2>. HIDE DEF h
  <2>5. ASSUME NEW k \in 1 .. n + 1 PROVE h[k] = 2 * h[k - 1]
    <3>1. CASE k = n + 1
      BY <2>2, <2>3, <3>1
    <3>2. CASE k # n + 1
      <4>1. k \in 1 .. n /\ k \in 0 .. n /\ k - 1 \in 0 .. n
        BY <3>2
      <4>. QED BY <2>1, <2>2, <4>1 DEF ArePowers
    <3>. QED BY <3>1, <3>2
  <2>6. ArePowers(h, n + 1)
    BY <2>1, <2>2, <2>3, <2>4, <2>5 DEF ArePowers
  <2>. QED BY <2>6
<1>. HIDE DEF Long
<1>3. \A n \in Nat : n \in Long
  BY <1>1, <1>2, Induction
<1>. QED BY <1>3 DEF Long

\* They all say the same.
LEMMA PowersAgree ==
  ASSUME NEW n \in Nat, NEW g, ArePowers(g, n), NEW h, ArePowers(h, n + 1)
  PROVE  g[n] = h[n]
<1>. DEFINE Same == {k \in Nat : k <= n => g[k] = h[k]}
<1>1. 0 \in Same
  BY DEF ArePowers
<1>2. ASSUME NEW k \in Nat, k \in Same PROVE k + 1 \in Same
  <2>. SUFFICES ASSUME k + 1 <= n PROVE g[k + 1] = h[k + 1]
    OBVIOUS
  <2>1. g[k] = h[k] /\ k + 1 \in 1 .. n /\ k + 1 \in 1 .. n + 1 /\ (k + 1) - 1 = k
    BY <1>2
  <2>. QED BY <2>1 DEF ArePowers
<1>. HIDE DEF Same
<1>3. n \in Same
  BY <1>1, <1>2, Induction
<1>. QED BY <1>3 DEF Same

\* f is defined as the powers of 2 are.
Doubling(f) == f = [n \in Nat |-> IF n = 0 THEN 1 ELSE 2 * f[n - 1]]

\* There is such a function.
LEMMA DoublingExists == \E f : Doubling(f)
<1>. DEFINE T(n) == CHOOSE g : ArePowers(g, n)
<1>. DEFINE G == [n \in Nat |-> T(n)[n]]
<1>1. \A n \in Nat : ArePowers(T(n), n)
  BY PowersExist
<1>. HIDE DEF T
<1>2. G[0] = 1
  <2>1. T(0)[0] = 1
    BY <1>1 DEF ArePowers
  <2>. QED BY <2>1
<1>3. ASSUME NEW n \in Nat, n # 0 PROVE G[n] = 2 * G[n - 1]
  <2>1. n - 1 \in Nat /\ (n - 1) + 1 = n /\ n \in 1 .. n
    BY <1>3
  <2>2. T(n)[n] = 2 * T(n)[n - 1]
    BY <1>1, <2>1 DEF ArePowers
  <2>3. T(n - 1)[n - 1] = T(n)[n - 1]
    <3>1. ArePowers(T(n - 1), n - 1) /\ ArePowers(T(n), (n - 1) + 1)
      BY <1>1, <2>1
    <3>. QED BY <2>1, <3>1, PowersAgree
  <2>. QED BY <2>1, <2>2, <2>3
<1>4. G = [n \in Nat |-> IF n = 0 THEN 1 ELSE 2 * G[n - 1]]
  <2>1. \A n \in Nat : G[n] = IF n = 0 THEN 1 ELSE 2 * G[n - 1]
    BY <1>2, <1>3
  <2>2. G = [n \in Nat |-> G[n]]
    OBVIOUS
  <2>. HIDE DEF G
  <2>. QED BY <2>1, <2>2
<1>. QED BY <1>4 DEF Doubling

\* Its values, and that sums of exponents become products.
LEMMA DoublingIs ==
  ASSUME NEW f, Doubling(f)
  PROVE  /\ f[0] = 1
         /\ \A n \in Nat : f[n] \in Nat \ {0} /\ f[n + 1] = 2 * f[n]
         /\ \A m, n \in Nat : f[m + n] = f[m] * f[n]
<1>1. \A n \in Nat : f[n] = IF n = 0 THEN 1 ELSE 2 * f[n - 1]
  BY DEF Doubling
<1>2. ASSUME NEW n \in Nat PROVE f[n + 1] = 2 * f[n]
  <2>1. n + 1 \in Nat /\ n + 1 # 0 /\ (n + 1) - 1 = n
    OBVIOUS
  <2>. QED BY <1>1, <2>1
<1>. DEFINE Positive == {n \in Nat : f[n] \in Nat \ {0}}
<1>3. 0 \in Positive
  BY <1>1
<1>4. ASSUME NEW n \in Nat, n \in Positive PROVE n + 1 \in Positive
  BY <1>2, <1>4
<1>. HIDE DEF Positive
<1>5. \A n \in Nat : n \in Positive
  BY <1>3, <1>4, Induction
<1>6. \A n \in Nat : f[n] \in Nat \ {0}
  BY <1>5 DEF Positive
<1>7. ASSUME NEW m \in Nat PROVE \A n \in Nat : f[m + n] = f[m] * f[n]
  <2>. DEFINE Law == {n \in Nat : f[m + n] = f[m] * f[n]}
  <2>1. 0 \in Law
    <3>1. m + 0 = m /\ f[0] = 1 /\ f[m] \in Nat
      BY <1>1, <1>6
    <3>. QED BY <3>1
  <2>2. ASSUME NEW n \in Nat, n \in Law PROVE n + 1 \in Law
    <3>1. f[m + n] = f[m] * f[n] /\ f[m] \in Nat /\ f[n] \in Nat
      BY <1>6, <2>2
    <3>2. f[m + (n + 1)] = 2 * f[m + n] /\ f[n + 1] = 2 * f[n]
      <4>1. m + n \in Nat /\ m + (n + 1) = (m + n) + 1
        OBVIOUS
      <4>. QED BY <1>2, <4>1
    <3>3. 2 * (f[m] * f[n]) = f[m] * (2 * f[n])
      BY <3>1
    <3>. QED BY <3>1, <3>2, <3>3
  <2>. HIDE DEF Law
  <2>3. \A n \in Nat : n \in Law
    BY <2>1, <2>2, Induction
  <2>. QED BY <2>3 DEF Law
<1>. QED BY <1>1, <1>2, <1>6, <1>7

-----------------------------------------------------------------------------
(* Sums. *)

\* g gives every part of S the sum of f over it, in whatever order it is taken.
IsSum(g, f, S) ==
  /\ g \in [SUBSET S -> Int]
  /\ g[{}] = 0
  /\ \A T \in SUBSET S : \A x \in T : g[T] = f[x] + g[T \ {x}]

\* Every finite set has one.
LEMMA SumExists ==
  ASSUME NEW f, NEW S, IsFiniteSet(S), \A x \in S : f[x] \in Int
  PROVE  \E g : IsSum(g, f, S)
<1>. DEFINE P == {n \in Nat : \A T \in SUBSET S :
                    Cardinality(T) = n => \E g : IsSum(g, f, T)}
<1>1. 0 \in P
  <2>. SUFFICES ASSUME NEW T \in SUBSET S, Cardinality(T) = 0 PROVE \E g : IsSum(g, f, T)
    OBVIOUS
  <2>1. T = {}
    BY FS_Subset, FS_EmptySet
  <2>2. IsSum([U \in {{}} |-> 0], f, T)
    BY <2>1 DEF IsSum
  <2>. QED BY <2>2
<1>2. ASSUME NEW n \in Nat, n \in P PROVE n + 1 \in P
  <2>. SUFFICES ASSUME NEW T \in SUBSET S, Cardinality(T) = n + 1
                PROVE  \E g : IsSum(g, f, T)
    OBVIOUS
  <2>1. IsFiniteSet(T)
    BY FS_Subset
  <2>2. PICK a : a \in T
    BY FS_EmptySet
  <2>3. Cardinality(T \ {a}) = n
    <3>1. Cardinality(T \ {a}) = Cardinality(T) - 1
      BY <2>1, <2>2, FS_RemoveElement
    <3>. QED BY <3>1
  <2>4. PICK g : IsSum(g, f, T \ {a})
    BY <1>2, <2>3
  <2>. DEFINE G == [U \in SUBSET T |-> IF a \in U THEN f[a] + g[U \ {a}] ELSE g[U]]
  <2>5. \A U \in SUBSET T : U \ {a} \in SUBSET (T \ {a}) /\ (a \notin U => U \in SUBSET (T \ {a}))
    OBVIOUS
  <2>6. f[a] \in Int /\ \A U \in SUBSET (T \ {a}) : g[U] \in Int
    BY <2>2, <2>4 DEF IsSum
  <2>7. \A U \in SUBSET T : G[U] \in Int
    BY <2>5, <2>6
  <2>8. ASSUME NEW U \in SUBSET T, NEW x \in U PROVE G[U] = f[x] + G[U \ {x}]
    <3>1. CASE x = a
      BY <3>1
    <3>2. CASE x # a /\ a \notin U
      BY <3>2, <2>4, <2>5 DEF IsSum
    <3>3. CASE x # a /\ a \in U
      <4>1. (U \ {a}) \ {x} = (U \ {x}) \ {a}
        OBVIOUS
      <4>2. g[U \ {a}] = f[x] + g[(U \ {x}) \ {a}]
        <5>1. U \ {a} \in SUBSET (T \ {a}) /\ x \in U \ {a}
          BY <3>3
        <5>. QED BY <2>4, <4>1, <5>1 DEF IsSum
      <4>3. f[x] \in Int /\ g[(U \ {x}) \ {a}] \in Int
        BY <2>5, <2>6
      <4>. QED BY <2>6, <3>3, <4>2, <4>3
    <3>. QED BY <3>1, <3>2, <3>3
  <2>9. G[{}] = 0
    BY <2>4 DEF IsSum
  <2>. HIDE DEF G
  <2>10. IsSum(G, f, T)
    BY <2>7, <2>8, <2>9 DEF IsSum, G
  <2>. QED BY <2>10
<1>. HIDE DEF P
<1>3. Cardinality(S) \in P
  BY <1>1, <1>2, Induction, FS_CardinalityType
<1>. QED BY <1>3 DEF P

\* And the fold of + finds it.
LEMMA FoldIsSum ==
  ASSUME NEW f, NEW S, IsFiniteSet(S), NEW g, IsSum(g, f, S)
  PROVE  SumFunctionOnSet(f, S) = g[S]
<1>. DEFINE h[T \in SUBSET S] ==
              IF T = {} THEN 0
              ELSE f[CHOOSE x \in T : TRUE] + h[T \ {CHOOSE x \in T : TRUE}]
<1>1. SumFunctionOnSet(f, S) = h[S]
  BY DEF SumFunctionOnSet, FoldFunctionOnSet, MapThenFoldSet
<1>2. g = [T \in SUBSET S |->
             IF T = {} THEN 0
             ELSE f[CHOOSE x \in T : TRUE] + g[T \ {CHOOSE x \in T : TRUE}]]
  <2>1. \A T \in SUBSET S : T # {} => (CHOOSE x \in T : TRUE) \in T
    OBVIOUS
  <2>. QED BY <2>1 DEF IsSum
<1>3. h = [T \in SUBSET S |->
             IF T = {} THEN 0
             ELSE f[CHOOSE x \in T : TRUE] + h[T \ {CHOOSE x \in T : TRUE}]]
  BY <1>2
<1>. HIDE DEF h
<1>. DEFINE P == {n \in Nat : \A T \in SUBSET S : Cardinality(T) = n => h[T] = g[T]}
<1>4. 0 \in P
  <2>1. \A T \in SUBSET S : Cardinality(T) = 0 => T = {}
    BY FS_Subset, FS_EmptySet
  <2>2. h[{}] = 0 /\ g[{}] = 0
    BY <1>3 DEF IsSum
  <2>. QED BY <2>1, <2>2
<1>5. ASSUME NEW n \in Nat, n \in P PROVE n + 1 \in P
  <2>. SUFFICES ASSUME NEW T \in SUBSET S, Cardinality(T) = n + 1 PROVE h[T] = g[T]
    OBVIOUS
  <2>1. IsFiniteSet(T) /\ T # {}
    BY FS_Subset, FS_EmptySet
  <2>. DEFINE a == CHOOSE x \in T : TRUE
  <2>2. a \in T
    BY <2>1
  <2>3. Cardinality(T \ {a}) = n
    <3>1. Cardinality(T \ {a}) = Cardinality(T) - 1
      BY <2>1, <2>2, FS_RemoveElement
    <3>. QED BY <3>1
  <2>4. h[T \ {a}] = g[T \ {a}]
    BY <1>5, <2>3
  <2>5. h[T] = f[a] + h[T \ {a}]
    BY <1>3, <2>1
  <2>. QED BY <2>2, <2>4, <2>5 DEF IsSum
<1>. HIDE DEF P
<1>6. Cardinality(S) \in P
  BY <1>4, <1>5, Induction, FS_CardinalityType
<1>7. h[S] = g[S]
  BY <1>6 DEF P
<1>. QED BY <1>1, <1>7

\* It is an integer.
LEMMA SumType ==
  ASSUME NEW f, NEW S, IsFiniteSet(S), \A x \in S : f[x] \in Int
  PROVE  SumFunctionOnSet(f, S) \in Int
<1>1. PICK g : IsSum(g, f, S)
  BY SumExists
<1>2. SumFunctionOnSet(f, S) = g[S]
  BY <1>1, FoldIsSum
<1>3. g[S] \in Int
  BY <1>1 DEF IsSum
<1>. QED BY <1>2, <1>3

\* The sum over no element is 0.
LEMMA SumEmpty ==
  ASSUME NEW f
  PROVE  SumFunctionOnSet(f, {}) = 0
<1>1. IsSum([U \in {{}} |-> 0], f, {})
  BY DEF IsSum
<1>. QED BY <1>1, FoldIsSum, FS_EmptySet

\* One element more adds its value.
LEMMA SumAdd ==
  ASSUME NEW f, NEW S, IsFiniteSet(S), NEW a, a \notin S,
         \A x \in S \cup {a} : f[x] \in Int
  PROVE  /\ SumFunctionOnSet(f, S \cup {a}) = f[a] + SumFunctionOnSet(f, S)
         /\ SumFunctionOnSet(f, S) \in Int
<1>. DEFINE T == S \cup {a}
<1>1. IsFiniteSet(T)
  BY FS_AddElement
<1>2. PICK g : IsSum(g, f, T)
  BY <1>1, SumExists
<1>. DEFINE r == [U \in SUBSET S |-> g[U]]
<1>3. IsSum(r, f, S)
  BY <1>2 DEF IsSum
<1>4. T \ {a} = S /\ a \in T
  OBVIOUS
<1>. HIDE DEF T, r
<1>5. g[T] = f[a] + g[S]
  BY <1>2, <1>4 DEF IsSum
<1>6. SumFunctionOnSet(f, T) = g[T] /\ SumFunctionOnSet(f, S) = r[S]
  BY <1>1, <1>2, <1>3, FoldIsSum
<1>7. r[S] = g[S] /\ r[S] \in Int
  BY <1>3 DEF r, IsSum
<1>. QED BY <1>5, <1>6, <1>7 DEF T

\* The sum depends on the values over the set only.
LEMMA SumSame ==
  ASSUME NEW f, NEW h, NEW S, IsFiniteSet(S),
         \A x \in S : f[x] \in Int /\ f[x] = h[x]
  PROVE  SumFunctionOnSet(f, S) = SumFunctionOnSet(h, S)
<1>1. PICK g : IsSum(g, f, S)
  BY SumExists
<1>2. IsSum(g, h, S)
  BY <1>1 DEF IsSum
<1>. QED BY <1>1, <1>2, FoldIsSum

\* A sequence of integers with one more.
LEMMA SumAppend ==
  ASSUME NEW q \in Seq(Int), NEW n \in Int
  PROVE  /\ SumFunction(Append(q, n)) = SumFunction(q) + n
         /\ SumFunction(q) \in Int
<1>. DEFINE l == Len(q)
<1>. DEFINE r == Append(q, n)
<1>1. l \in Nat /\ DOMAIN q = 1 .. l /\ DOMAIN r = 1 .. l + 1
  OBVIOUS
<1>2. r[l + 1] = n /\ \A k \in 1 .. l : r[k] = q[k] /\ q[k] \in Int
  OBVIOUS
<1>. HIDE DEF l, r
<1>3. 1 .. l + 1 = (1 .. l) \cup {l + 1} /\ l + 1 \notin 1 .. l /\ IsFiniteSet(1 .. l)
  <2>1. IsFiniteSet(1 .. l)
    BY <1>1, FS_Interval
  <2>. QED BY <1>1, <2>1
<1>4. SumFunctionOnSet(r, 1 .. l + 1) = n + SumFunctionOnSet(r, 1 .. l)
  BY <1>2, <1>3, SumAdd
<1>. DEFINE D == 1 .. l
<1>5. IsFiniteSet(D) /\ \A k \in D : r[k] \in Int /\ q[k] \in Int /\ r[k] = q[k]
  BY <1>2, <1>3
<1>. HIDE DEF D
<1>6. SumFunctionOnSet(r, D) = SumFunctionOnSet(q, D)
  BY <1>5, SumSame
<1>8. SumFunctionOnSet(q, D) \in Int
  BY <1>5, SumType
<1>. QED BY <1>1, <1>4, <1>6, <1>8 DEF SumFunction, r, D

\* The empty sequence sums to 0.
LEMMA SumNothing == SumFunction(<< >>) = 0
BY SumEmpty DEF SumFunction

-----------------------------------------------------------------------------
(* Sequences that hold nothing twice. *)

\* The elements of a sequence.
LEMMA ElementsAre ==
  ASSUME NEW S, NEW q \in Seq(S)
  PROVE  /\ \A x : x \in ToSet(q) <=> \E k \in 1 .. Len(q) : q[k] = x
         /\ IsInjective(q) <=> \A j, k \in 1 .. Len(q) : q[j] = q[k] => j = k
BY DEF ToSet, IsInjective

\* Such a sequence is as long as it has elements.
LEMMA InjectiveLength ==
  ASSUME NEW S, NEW q \in Seq(S), IsInjective(q)
  PROVE  IsFiniteSet(ToSet(q)) /\ Cardinality(ToSet(q)) = Len(q)
<1>. DEFINE D == 1 .. Len(q)
<1>. DEFINE R == ToSet(q)
<1>1. Len(q) \in Nat /\ IsFiniteSet(D) /\ Cardinality(D) = Len(q)
  <2>1. \A n \in Nat : IsFiniteSet(1 .. n) /\ Cardinality(1 .. n) = n
    <3>. SUFFICES ASSUME NEW n \in Nat PROVE IsFiniteSet(1 .. n) /\ Cardinality(1 .. n) = n
      OBVIOUS
    <3>1. IsFiniteSet(1 .. n) /\ Cardinality(1 .. n) = IF 1 > n THEN 0 ELSE n - 1 + 1
      BY FS_Interval
    <3>. QED BY <3>1
  <2>2. Len(q) \in Nat
    OBVIOUS
  <2>. QED BY <2>1, <2>2
<1>2. q \in [D -> R]
  BY DEF ToSet
<1>3. q \in Injection(D, R)
  BY <1>2 DEF Injection, IsInjective
<1>4. q \in Surjection(D, R)
  BY <1>2 DEF Surjection, ToSet
<1>. HIDE DEF D, R
<1>5. ExistsBijection(D, R)
  BY <1>3, <1>4 DEF Bijection, ExistsBijection
<1>. QED BY <1>1, <1>5, FS_Bijection DEF R

\* An element in front.
LEMMA Prepended ==
  ASSUME NEW S, NEW q \in Seq(S), NEW b \in S
  PROVE  /\ <<b>> \o q \in Seq(S)
         /\ Len(<<b>> \o q) = Len(q) + 1
         /\ (<<b>> \o q)[1] = b
         /\ \A k \in 1 .. Len(q) : (<<b>> \o q)[k + 1] = q[k]
         /\ ToSet(<<b>> \o q) = {b} \cup ToSet(q)
         /\ IsInjective(q) /\ b \notin ToSet(q) => IsInjective(<<b>> \o q)
<1>. DEFINE r == <<b>> \o q
<1>. DEFINE l == Len(q)
<1>1. l \in Nat /\ r \in Seq(S) /\ Len(r) = l + 1 /\ r[1] = b
  OBVIOUS
<1>2. \A k \in 1 .. l : r[k + 1] = q[k]
  BY ConcatProperties
<1>. HIDE DEF r
<1>3. \A k \in 1 .. l + 1 : r[k] = IF k = 1 THEN b ELSE q[k - 1]
  <2>. SUFFICES ASSUME NEW k \in 1 .. l + 1, k # 1 PROVE r[k] = q[k - 1]
    BY <1>1
  <2>1. k - 1 \in 1 .. l /\ (k - 1) + 1 = k
    BY <1>1
  <2>. HIDE DEF l
  <2>. QED BY <1>2, <2>1
<1>4. ASSUME NEW x PROVE x \in ToSet(r) <=> x = b \/ x \in ToSet(q)
  <2>1. x \in ToSet(r) <=> \E k \in 1 .. l + 1 : r[k] = x
    BY <1>1, ElementsAre
  <2>2. x \in ToSet(q) <=> \E k \in 1 .. l : q[k] = x
    BY ElementsAre
  <2>. HIDE DEF l
  <2>. QED BY <1>1, <1>2, <1>3, <2>1, <2>2
<1>5. ASSUME IsInjective(q), b \notin ToSet(q) PROVE IsInjective(r)
  <2>1. \A j, k \in 1 .. l : q[j] = q[k] => j = k
    BY <1>5, ElementsAre
  <2>2. \A k \in 1 .. l : q[k] # b
    BY <1>5, ElementsAre
  <2>. HIDE DEF l
  <2>3. ASSUME NEW j \in 1 .. l + 1, NEW k \in 1 .. l + 1, r[j] = r[k] PROVE j = k
    <3>1. /\ j # 1 => j - 1 \in 1 .. l /\ r[j] = q[j - 1]
          /\ k # 1 => k - 1 \in 1 .. l /\ r[k] = q[k - 1]
      BY <1>1, <1>3
    <3>2. r[1] = b
      BY <1>1
    <3>3. CASE j = 1 \/ k = 1
      BY <2>2, <2>3, <3>1, <3>2, <3>3
    <3>4. CASE j # 1 /\ k # 1
      <4>1. j - 1 = k - 1
        BY <2>1, <2>3, <3>1, <3>4
      <4>. QED BY <1>1, <4>1
    <3>. QED BY <3>3, <3>4
  <2>. QED BY <1>1, <2>3, ElementsAre
<1>. QED BY <1>1, <1>2, <1>4, <1>5 DEF r

\* An element taken out of any sequence.
LEMMA TakenOut ==
  ASSUME NEW S, NEW q \in Seq(S), NEW i \in 1 .. Len(q)
  PROVE  /\ RemoveAt(q, i) \in Seq(S)
         /\ Len(RemoveAt(q, i)) = Len(q) - 1
         /\ \A k \in 1 .. Len(q) - 1 : RemoveAt(q, i)[k] = IF k < i THEN q[k] ELSE q[k + 1]
<1>. DEFINE l == Len(q)
<1>. DEFINE u == SubSeq(q, 1, i - 1)
<1>. DEFINE v == SubSeq(q, i + 1, l)
<1>. DEFINE r == RemoveAt(q, i)
<1>1. l \in Nat /\ i \in 1 .. l /\ \A k \in 1 .. l : q[k] \in S
  OBVIOUS
<1>. HIDE DEF l
<1>2. u \in Seq(S) /\ Len(u) = i - 1 /\ \A k \in 1 .. i - 1 : u[k] = q[k]
  BY <1>1, SubSeqProperties
<1>3. v \in Seq(S) /\ Len(v) = l - i /\ \A k \in 1 .. l - i : v[k] = q[k + i]
  <2>1. /\ v \in Seq(S) /\ Len(v) = (IF i + 1 <= l THEN l - (i + 1) + 1 ELSE 0)
        /\ \A k \in 1 .. l - (i + 1) + 1 : v[k] = q[(i + 1) + k - 1]
    BY <1>1, SubSeqProperties
  <2>. HIDE DEF v
  <2>2. l - (i + 1) + 1 = l - i /\ \A k \in 1 .. l - i : (i + 1) + k - 1 = k + i
    BY <1>1
  <2>. QED BY <1>1, <2>1, <2>2
<1>4. r = u \o v
  BY DEF RemoveAt, l
<1>. HIDE DEF u, v, r
<1>5. r \in Seq(S) /\ Len(r) = l - 1
  BY <1>1, <1>2, <1>3, <1>4
<1>6. \A k \in 1 .. l - 1 : r[k] = IF k < i THEN q[k] ELSE q[k + 1]
  <2>1. Len(u) + Len(v) = l - 1
    BY <1>1, <1>2, <1>3
  <2>2. \A k \in 1 .. l - 1 : r[k] = IF k <= i - 1 THEN u[k] ELSE v[k - (i - 1)]
    BY <1>1, <1>2, <1>3, <1>4, <2>1, ConcatProperties
  <2>3. \A k \in 1 .. l - 1 : k > i - 1 => k - (i - 1) \in 1 .. l - i /\ (k - (i - 1)) + i = k + 1
    BY <1>1
  <2>4. \A k \in 1 .. l - 1 : k > i - 1 => v[k - (i - 1)] = q[k + 1]
    BY <1>3, <2>3
  <2>. QED BY <1>1, <1>2, <2>2, <2>4
<1>. QED BY <1>5, <1>6 DEF r, l

\* An element taken out of a sequence without repetitions.
LEMMA Removed ==
  ASSUME NEW S, NEW q \in Seq(S), IsInjective(q), NEW i \in 1 .. Len(q)
  PROVE  /\ RemoveAt(q, i) \in Seq(S)
         /\ Len(RemoveAt(q, i)) = Len(q) - 1
         /\ \A k \in 1 .. Len(q) - 1 : RemoveAt(q, i)[k] = IF k < i THEN q[k] ELSE q[k + 1]
         /\ ToSet(RemoveAt(q, i)) = ToSet(q) \ {q[i]}
         /\ IsInjective(RemoveAt(q, i))
<1>. DEFINE l == Len(q)
<1>. DEFINE r == RemoveAt(q, i)
<1>1. l \in Nat /\ i \in 1 .. l /\ \A k \in 1 .. l : q[k] \in S
  OBVIOUS
<1>2. r \in Seq(S) /\ Len(r) = l - 1
  BY TakenOut
<1>3. \A k \in 1 .. l - 1 : r[k] = IF k < i THEN q[k] ELSE q[k + 1]
  BY TakenOut
<1>. HIDE DEF l, r
<1>4. \A j, k \in 1 .. l : q[j] = q[k] => j = k
  BY ElementsAre DEF l
<1>5. \A j, k \in 1 .. l - 1 : r[j] = r[k] => j = k
  BY <1>1, <1>3, <1>4
<1>6. IsInjective(r)
  BY <1>2, <1>5, ElementsAre
<1>7. ASSUME NEW x PROVE x \in ToSet(r) <=> x \in ToSet(q) /\ x # q[i]
  <2>1. x \in ToSet(r) <=> \E k \in 1 .. l - 1 : r[k] = x
    BY <1>2, ElementsAre
  <2>2. x \in ToSet(q) <=> \E k \in 1 .. l : q[k] = x
    BY ElementsAre DEF l
  <2>3. ASSUME NEW k \in 1 .. l - 1, r[k] = x PROVE x \in ToSet(q) /\ x # q[i]
    BY <1>1, <1>3, <1>4, <2>2, <2>3
  <2>4. ASSUME NEW k \in 1 .. l, q[k] = x, x # q[i] PROVE \E j \in 1 .. l - 1 : r[j] = x
    <3>1. CASE k < i
      BY <1>1, <1>3, <2>4, <3>1
    <3>2. CASE k > i
      <4>1. k - 1 \in 1 .. l - 1 /\ ~ k - 1 < i /\ (k - 1) + 1 = k
        BY <1>1, <3>2
      <4>2. r[k - 1] = q[k]
        BY <1>3, <4>1
      <4>. QED BY <2>4, <4>1, <4>2
    <3>. QED BY <1>1, <2>4, <3>1, <3>2
  <2>. QED BY <2>1, <2>2, <2>3, <2>4
<1>. QED BY <1>2, <1>3, <1>6, <1>7 DEF r, l

\* The last element taken off.
LEMMA LastTakenOff ==
  ASSUME NEW S, NEW q \in Seq(S), Len(q) > 0
  PROVE  /\ Front(q) \in Seq(S)
         /\ Len(Front(q)) = Len(q) - 1
         /\ \A k \in 1 .. Len(q) - 1 : Front(q)[k] = q[k]
<1>. DEFINE l == Len(q)
<1>1. l \in Nat /\ l > 0 /\ \A k \in 1 .. l : q[k] \in S
  OBVIOUS
<1>2. Front(q) = SubSeq(q, 1, l - 1)
  BY DEF Front
<1>. HIDE DEF l
<1>3. \A k \in 1 .. l - 1 : 1 + k - 1 = k /\ k \in 1 .. l
  BY <1>1
<1>4. /\ SubSeq(q, 1, l - 1) \in Seq(S)
      /\ Len(SubSeq(q, 1, l - 1)) = l - 1
      /\ \A k \in 1 .. l - 1 : SubSeq(q, 1, l - 1)[k] = q[k]
  <2>1. /\ SubSeq(q, 1, l - 1) \in Seq(S)
        /\ Len(SubSeq(q, 1, l - 1)) = IF 1 <= l - 1 THEN (l - 1) - 1 + 1 ELSE 0
        /\ \A k \in 1 .. (l - 1) - 1 + 1 : SubSeq(q, 1, l - 1)[k] = q[1 + k - 1]
    BY <1>1, SubSeqProperties
  <2>2. (l - 1) - 1 + 1 = l - 1
    BY <1>1
  <2>. QED BY <1>1, <1>3, <2>1, <2>2
<1>. QED BY <1>2, <1>4 DEF l

\* How to tell that r is q with b in front.
LEMMA IsPrepended ==
  ASSUME NEW S, NEW q \in Seq(S), NEW b \in S, NEW r \in Seq(S),
         Len(r) = Len(q) + 1, r[1] = b, \A k \in 1 .. Len(q) : r[k + 1] = q[k]
  PROVE  r = <<b>> \o q
<1>. DEFINE l == Len(q)
<1>. DEFINE t == <<b>> \o q
<1>1. l \in Nat /\ Len(r) = l + 1
  OBVIOUS
<1>2. t \in Seq(S) /\ Len(t) = l + 1 /\ t[1] = b /\ \A k \in 1 .. l : t[k + 1] = q[k]
  BY Prepended
<1>3. \A k \in 1 .. l : r[k + 1] = q[k]
  OBVIOUS
<1>. HIDE DEF l, t
<1>4. ASSUME NEW k \in 1 .. l + 1 PROVE r[k] = t[k]
  <2>1. CASE k = 1
    BY <1>2, <2>1
  <2>2. CASE k # 1
    <3>1. k - 1 \in 1 .. l /\ (k - 1) + 1 = k
      BY <1>1, <2>2
    <3>. QED BY <1>2, <1>3, <3>1
  <2>. QED BY <2>1, <2>2
<1>5. r = t
  BY <1>1, <1>2, <1>4, SeqEqual
<1>. QED BY <1>5 DEF t

\* How to tell that r is q with the element at i moved to the front.
LEMMA IsMoved ==
  ASSUME NEW S, NEW q \in Seq(S), NEW i \in 1 .. Len(q), NEW r \in Seq(S),
         Len(r) = Len(q), r[1] = q[i],
         \A k \in 1 .. Len(q) - 1 : r[k + 1] = IF k < i THEN q[k] ELSE q[k + 1]
  PROVE  r = <<q[i]>> \o RemoveAt(q, i)
<1>1. /\ RemoveAt(q, i) \in Seq(S) /\ Len(RemoveAt(q, i)) = Len(q) - 1
      /\ \A k \in 1 .. Len(q) - 1 : RemoveAt(q, i)[k] = IF k < i THEN q[k] ELSE q[k + 1]
  BY TakenOut
<1>2. q[i] \in S /\ Len(q) \in Nat
  OBVIOUS
<1>3. Len(r) = Len(RemoveAt(q, i)) + 1
  BY <1>1, <1>2
<1>4. \A k \in 1 .. Len(RemoveAt(q, i)) : r[k + 1] = RemoveAt(q, i)[k]
  BY <1>1
<1>. HIDE DEF RemoveAt
<1>. QED BY <1>1, <1>2, <1>3, <1>4, IsPrepended

-----------------------------------------------------------------------------
(* Sets of numbers put in order. *)

\* w is the numbers of a set, the smaller first.
IsListing(w, numbers) ==
  /\ w \in Seq(Nat)
  /\ ToSet(w) = numbers
  /\ \A j, k \in 1 .. Len(w) : j < k => w[j] < w[k]

\* A listing has every number once.
LEMMA ListingOnce ==
  ASSUME NEW A, NEW w, IsListing(w, A)
  PROVE  /\ IsFiniteSet(A) /\ Cardinality(A) = Len(w)
         /\ \A x : x \in A <=> \E k \in 1 .. Len(w) : w[k] = x
         /\ \A j, k \in 1 .. Len(w) : w[j] = w[k] => j = k
         /\ A \subseteq Nat
<1>1. \A j, k \in 1 .. Len(w) : w[j] = w[k] => j = k
  <2>. DEFINE l == Len(w)
  <2>1. /\ l \in Nat /\ \A k \in 1 .. l : w[k] \in Nat
        /\ \A j, k \in 1 .. l : j < k => w[j] < w[k]
    BY DEF IsListing
  <2>. HIDE DEF l
  <2>2. \A j, k \in 1 .. l : w[j] = w[k] => j = k
    BY <2>1
  <2>. QED BY <2>2 DEF l
<1>2. w \in Seq(Nat) /\ ToSet(w) = A
  BY DEF IsListing
<1>3. IsInjective(w)
  BY <1>1, <1>2, ElementsAre
<1>4. IsFiniteSet(A) /\ Cardinality(A) = Len(w)
  BY <1>2, <1>3, InjectiveLength
<1>5. \A x : x \in A <=> \E k \in 1 .. Len(w) : w[k] = x
  BY <1>2, ElementsAre
<1>6. A \subseteq Nat
  BY <1>2, <1>5
<1>. QED BY <1>1, <1>4, <1>5, <1>6

\* A larger number is appended.
LEMMA ListingAppended ==
  ASSUME NEW A, NEW w, IsListing(w, A), NEW m \in Nat, \A a \in A : a < m
  PROVE  IsListing(Append(w, m), A \cup {m})
<1>. DEFINE l == Len(w)
<1>. DEFINE v == Append(w, m)
<1>1. /\ w \in Seq(Nat) /\ l \in Nat /\ v \in Seq(Nat) /\ Len(v) = l + 1 /\ v[l + 1] = m
      /\ \A k \in 1 .. l : v[k] = w[k]
  BY DEF IsListing
<1>2. /\ \A x : x \in A <=> \E k \in 1 .. l : w[k] = x
      /\ \A j, k \in 1 .. l : j < k => w[j] < w[k]
  BY ListingOnce DEF IsListing
<1>. HIDE DEF l, v
<1>3. ASSUME NEW j \in 1 .. l + 1, NEW k \in 1 .. l + 1, j < k PROVE v[j] < v[k]
  <2>1. j \in 1 .. l /\ (k \in 1 .. l \/ k = l + 1)
    BY <1>1, <1>3
  <2>2. w[j] \in A
    BY <1>2, <2>1
  <2>. QED BY <1>1, <1>2, <1>3, <2>1, <2>2
<1>4. ASSUME NEW x PROVE x \in ToSet(v) <=> x \in A \cup {m}
  <2>1. x \in ToSet(v) <=> \E k \in 1 .. l + 1 : v[k] = x
    <3>1. v \in Seq(Nat) /\ Len(v) = l + 1
      BY <1>1
    <3>. QED BY ONLY <3>1, ElementsAre
  <2>2. (\E k \in 1 .. l + 1 : v[k] = x) <=> (\E k \in 1 .. l : w[k] = x) \/ x = m
    <3>1. \A k \in 1 .. l + 1 : k \in 1 .. l \/ k = l + 1
      BY <1>1
    <3>2. l + 1 \in 1 .. l + 1 /\ \A k \in 1 .. l : k \in 1 .. l + 1
      BY <1>1
    <3>. QED BY <1>1, <3>1, <3>2
  <2>. QED BY <1>2, <2>1, <2>2
<1>. QED BY <1>1, <1>3, <1>4 DEF IsListing, v

\* Whatever the numbers, they can be listed.
LEMMA ListingExists == \A n \in Nat : \A A \in SUBSET (1 .. n) : \E w : IsListing(w, A)
<1>. DEFINE Listed == {n \in Nat : \A A \in SUBSET (1 .. n) : \E w : IsListing(w, A)}
<1>1. 0 \in Listed
  <2>1. << >> \in Seq(Nat) /\ ToSet(<< >>) = {} /\ Len(<< >>) = 0
    BY DEF ToSet
  <2>2. IsListing(<< >>, {})
    BY <2>1 DEF IsListing
  <2>3. \A A \in SUBSET (1 .. 0) : A = {}
    OBVIOUS
  <2>4. \A A \in SUBSET (1 .. 0) : \E w : IsListing(w, A)
    BY <2>2, <2>3
  <2>. QED BY <2>4
<1>2. ASSUME NEW n \in Nat, n \in Listed PROVE n + 1 \in Listed
  <2>. SUFFICES ASSUME NEW A \in SUBSET (1 .. n + 1) PROVE \E w : IsListing(w, A)
    OBVIOUS
  <2>1. A \ {n + 1} \in SUBSET (1 .. n)
    OBVIOUS
  <2>2. PICK w : IsListing(w, A \ {n + 1})
    BY <1>2, <2>1
  <2>3. CASE n + 1 \in A
    <3>1. PICK B : B = A \ {n + 1}
      OBVIOUS
    <3>2. n + 1 \in Nat /\ \A a \in B : a < n + 1
      BY <2>1, <3>1
    <3>3. IsListing(Append(w, n + 1), B \cup {n + 1})
      BY <2>2, <3>1, <3>2, ListingAppended
    <3>4. B \cup {n + 1} = A
      BY <2>3, <3>1
    <3>. QED BY <3>3, <3>4
  <2>4. CASE n + 1 \notin A
    <3>1. A \ {n + 1} = A
      BY <2>4
    <3>. QED BY <2>2, <3>1
  <2>. QED BY <2>3, <2>4
<1>. HIDE DEF Listed
<1>3. \A n \in Nat : n \in Listed
  BY <1>1, <1>2, Induction
<1>. QED BY <1>3 DEF Listed

-----------------------------------------------------------------------------
(* Prefixes, and how long a sequence can be. *)

\* v is the first k elements of w.
IsPrefixOf(v, w, k) ==
  /\ Len(v) = k
  /\ \A j \in 1 .. k : v[j] = w[j]
  /\ k = 0 => v = << >>
  /\ k > 0 => v # << >> /\ Last(v) = w[k]
  /\ k = Len(w) => v = w

LEMMA Prefix ==
  ASSUME NEW S, NEW w \in Seq(S), NEW k \in 0 .. Len(w), NEW v, v = SubSeq(w, 1, k)
  PROVE  v \in Seq(S) /\ IsPrefixOf(v, w, k)
<1>1. Len(w) \in Nat /\ k \in Nat /\ k <= Len(w)
  OBVIOUS
<1>2. v \in Seq(S) /\ Len(v) = k /\ \A j \in 1 .. k : v[j] = w[j]
  <2>1. /\ SubSeq(w, 1, k) \in Seq(S)
        /\ Len(SubSeq(w, 1, k)) = IF 1 <= k THEN k - 1 + 1 ELSE 0
        /\ \A j \in 1 .. k - 1 + 1 : SubSeq(w, 1, k)[j] = w[1 + j - 1]
    BY <1>1, SubSeqProperties
  <2>2. k - 1 + 1 = k
    BY <1>1
  <2>3. \A j \in 1 .. k : 1 + j - 1 = j
    BY <1>1
  <2>. QED BY <1>1, <2>1, <2>2, <2>3
<1>3. k = 0 => v = << >>
  BY <1>2
<1>4. k > 0 => v # << >> /\ Last(v) = w[k]
  BY <1>1, <1>2 DEF Last
<1>5. k = Len(w) => v = w
  BY <1>2, SeqEqual
<1>. QED BY <1>2, <1>3, <1>4, <1>5 DEF IsPrefixOf

\* One element more.
LEMMA PrefixGrows ==
  ASSUME NEW S, NEW w \in Seq(S), NEW k \in 0 .. Len(w), k < Len(w)
  PROVE  Append(SubSeq(w, 1, k), w[k + 1]) = SubSeq(w, 1, k + 1)
<1>1. PICK u : u = SubSeq(w, 1, k)
  OBVIOUS
<1>2. PICK v : v = SubSeq(w, 1, k + 1)
  OBVIOUS
<1>3. Len(w) \in Nat /\ k \in Nat /\ k + 1 \in 0 .. Len(w) /\ k + 1 \in 1 .. Len(w)
  OBVIOUS
<1>4. u \in Seq(S) /\ Len(u) = k /\ \A j \in 1 .. k : u[j] = w[j]
  BY <1>1, Prefix DEF IsPrefixOf
<1>5. v \in Seq(S) /\ Len(v) = k + 1 /\ \A j \in 1 .. k + 1 : v[j] = w[j]
  BY <1>2, <1>3, Prefix DEF IsPrefixOf
<1>6. w[k + 1] \in S
  BY <1>3
<1>7. PICK t : t = Append(u, w[k + 1])
  OBVIOUS
<1>8. t \in Seq(S) /\ Len(t) = k + 1 /\ t[k + 1] = w[k + 1] /\ \A j \in 1 .. k : t[j] = u[j]
  BY <1>4, <1>6, <1>7
<1>9. \A j \in 1 .. k + 1 : t[j] = v[j]
  BY <1>3, <1>4, <1>5, <1>8
<1>10. t = v
  BY <1>5, <1>8, <1>9, SeqEqual
<1>. QED BY <1>1, <1>2, <1>7, <1>10

\* A set that can be numbered from 1 to n has at most n elements.
LEMMA NumberedSet ==
  ASSUME NEW A, NEW n \in Nat, NEW f \in [A -> 1 .. n], \A a, b \in A : f[a] = f[b] => a = b
  PROVE  IsFiniteSet(A) /\ Cardinality(A) <= n
<1>1. IsFiniteSet(1 .. n) /\ Cardinality(1 .. n) = n
  <2>1. IsFiniteSet(1 .. n) /\ Cardinality(1 .. n) = IF 1 > n THEN 0 ELSE n - 1 + 1
    BY FS_Interval
  <2>. QED BY <2>1
<1>2. f \in Injection(A, 1 .. n)
  BY DEF Injection, IsInjective
<1>. QED BY <1>1, <1>2, FS_Injection
=============================================================================
