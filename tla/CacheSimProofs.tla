--------------------------- MODULE CacheSimProofs ---------------------------
(***************************************************************************)
(* CacheSim for any geometry and any trace: types, the permutation of the  *)
(* ranks, no duplicates, unused lines first; and that it implements        *)
(* LRUSets, for which the blocks in order of use are described by their    *)
(* ranks (RecentShape), and the shifts put together again.                 *)
(***************************************************************************)
EXTENDS CacheSim, DataLemmas

\* Unused lines are replaced first: a valid line never ranks below one that
\* was never loaded, so nothing is evicted while there is room.
UnusedFirst ==
  \A set \in Set : \A i, j \in Line :
    cache[set][i].valid = 0 /\ cache[set][j].valid = 1 => queue[set][i] < queue[set][j]

\* Two lines never share a rank: with RanksArePermutation, what keeps the
\* line of rank 0 unique.
RanksDistinct ==
  \A set \in Set : \A i, j \in Line : queue[set][i] = queue[set][j] => i = j

Inv ==
  /\ SimTypeOK
  /\ RanksArePermutation
  /\ RanksDistinct
  /\ NoDuplicateBlock
  /\ UnusedFirst

-----------------------------------------------------------------------------
(* Shifts and masks. *)

\* 1 << n is positive.
LEMMA Power2Positive == \A n \in Nat : Pow2[n] \in Nat \ {0}
<1>1. Doubling(Pow2)
  BY DoublingExists DEF Doubling, Pow2
<1>. QED BY <1>1, DoublingIs

\* 1 << (m + n) is 1 << m, shifted by n.
LEMMA Power2Sum == \A m, n \in Nat : Pow2[m + n] = Pow2[m] * Pow2[n]
<1>1. Doubling(Pow2)
  BY DoublingExists DEF Doubling, Pow2
<1>. QED BY <1>1, DoublingIs

\* The set index and the tag of an address are in range, and they tell which
\* block the address lies in, and nothing else.
LEMMA SelectionTyped ==
  ASSUME NEW a \in Address
  PROVE  /\ SetOf(a) \in Set /\ TagOf(a) \in Nat
         /\ BlockOf(a) \in Nat
         /\ SetOf(a) = BlockOf(a) % S
         /\ TagOf(a) * S + SetOf(a) = BlockOf(a)
<1>1. /\ Pow2[b] \in Nat \ {0} /\ S \in Nat \ {0} /\ a \in Nat
      /\ Pow2[s + b] = Pow2[b] * S
  <2>1. s + b = b + s
    BY SimConstantsOK
  <2>. QED BY <2>1, SimConstantsOK, Power2Positive, Power2Sum DEF S, Address
<1>2. BlockOf(a) \in Nat
  BY <1>1, Division DEF BlockOf
<1>3. TagOf(a) = BlockOf(a) \div S
  BY <1>1, TwoQuotients DEF TagOf, BlockOf
<1>4. /\ BlockOf(a) \div S \in Nat /\ BlockOf(a) % S \in 0 .. S - 1
      /\ BlockOf(a) = S * (BlockOf(a) \div S) + (BlockOf(a) % S)
  BY <1>1, <1>2, Division
<1>5. SetOf(a) = BlockOf(a) % S
  BY DEF SetOf, BlockOf
<1>6. (BlockOf(a) \div S) * S = S * (BlockOf(a) \div S)
  BY <1>1, <1>4
<1>. QED BY <1>1, <1>2, <1>3, <1>4, <1>5, <1>6 DEF Set

-----------------------------------------------------------------------------
(* updateCache with the store that follows it. *)

\* The line numbers are the integers below E.
LEMMA Lines == E \in Nat /\ E > 0 /\ \A n : n \in Line <=> n \in Int /\ 0 <= n /\ n <= E - 1
BY SimConstantsOK DEF Line

\* updateCache yields ranks.
LEMMA PromotedTyped ==
  ASSUME NEW q \in [Line -> Line], NEW i \in Line
  PROVE  Promoted(q, i) \in [Line -> Line]
<1>1. ASSUME NEW j \in Line, j # i, q[j] > q[i] PROVE q[j] - 1 \in Line
  <2>1. q[j] \in Line /\ q[i] \in Line
    OBVIOUS
  <2>. QED BY <1>1, <2>1, Lines
<1>2. E - 1 \in Line
  BY Lines
<1>. QED BY <1>1, <1>2 DEF Promoted

\* Every rank is still taken: the one above q[i] moves down into each gap.
LEMMA PromotedOnto ==
  ASSUME NEW q \in [Line -> Line], NEW i \in Line,
         \A r \in Line : \E j \in Line : q[j] = r,
         NEW r \in Line
  PROVE  \E j \in Line : Promoted(q, i)[j] = r
<1>0. q[i] \in Line /\ \A j \in Line : q[j] \in Line
  OBVIOUS
<1>1. CASE r = E - 1
  BY <1>1 DEF Promoted
<1>2. CASE r < q[i]
  <2>1. PICK j \in Line : q[j] = r
    OBVIOUS
  <2>2. j # i /\ ~ q[j] > q[i]
    BY <1>0, <1>2, <2>1, Lines
  <2>. QED BY <2>1, <2>2 DEF Promoted
<1>3. CASE r >= q[i] /\ r # E - 1
  <2>1. r + 1 \in Line
    BY <1>3, Lines
  <2>2. PICK j \in Line : q[j] = r + 1
    BY <2>1
  <2>3. j # i /\ q[j] > q[i] /\ q[j] - 1 = r
    BY <1>0, <1>3, <2>2, Lines
  <2>. QED BY <2>3 DEF Promoted
<1>. QED BY <1>0, <1>1, <1>2, <1>3, Lines

\* No two lines come to share a rank.
LEMMA PromotedDistinct ==
  ASSUME NEW q \in [Line -> Line], NEW i \in Line,
         \A j, k \in Line : q[j] = q[k] => j = k
  PROVE  \A j, k \in Line : Promoted(q, i)[j] = Promoted(q, i)[k] => j = k
<1>. SUFFICES ASSUME NEW j \in Line, NEW k \in Line, Promoted(q, i)[j] = Promoted(q, i)[k]
              PROVE  j = k
  OBVIOUS
<1>0. q[i] \in Line /\ q[j] \in Line /\ q[k] \in Line
  OBVIOUS
<1>1. q[i] \in 0 .. E - 1 /\ q[j] \in 0 .. E - 1 /\ q[k] \in 0 .. E - 1 /\ E \in Nat
  BY <1>0, Lines
<1>2. q[j] # q[i] \/ j = i
  OBVIOUS
<1>3. q[k] # q[i] \/ k = i
  OBVIOUS
<1>. QED BY <1>1, <1>2, <1>3 DEF Promoted

-----------------------------------------------------------------------------
\* The cleared cache of initCache satisfies the invariant.
LEMMA InitInv == SimInit => Inv
BY SimConstantsOK
DEF SimInit, Inv, SimTypeOK, RanksArePermutation, RanksDistinct, NoDuplicateBlock, UnusedFirst, Line

\* Whichever line a set promotes, the ranks of every set stay a permutation.
LEMMA RanksStep ==
  ASSUME Inv, NEW set \in Set, NEW i \in Line,
         queue' = [queue EXCEPT ![set] = Promoted(queue[set], i)]
  PROVE  /\ queue' \in [Set -> [Line -> Line]]
         /\ RanksArePermutation'
         /\ RanksDistinct'
<1>1. queue[set] \in [Line -> Line]
  BY DEF Inv, SimTypeOK
<1>2. \A other \in Set : queue'[other] = IF other = set THEN Promoted(queue[set], i) ELSE queue[other]
  BY DEF Inv, SimTypeOK
<1>3. queue' \in [Set -> [Line -> Line]]
  BY <1>1, PromotedTyped DEF Inv, SimTypeOK
<1>4. RanksArePermutation'
  <2>. SUFFICES ASSUME NEW x \in Set, NEW r \in Line PROVE \E j \in Line : queue'[x][j] = r
    BY DEF RanksArePermutation
  <2>1. \A y \in Set : \A n \in Line : \E j \in Line : queue[y][j] = n
    BY DEF Inv, RanksArePermutation
  <2>2. \E j \in Line : Promoted(queue[set], i)[j] = r
    BY <1>1, <2>1, PromotedOnto
  <2>. QED BY <1>2, <2>1, <2>2
<1>5. RanksDistinct'
  BY <1>1, <1>2, PromotedDistinct DEF Inv, RanksDistinct
<1>. QED BY <1>3, <1>4, <1>5

\* A hit (scanCache) keeps the invariant.
LEMMA HitInv ==
  ASSUME Inv, NEW set \in Set, NEW tag \in Nat, NEW extra \in {0, 1}, addr' \in Nat,
         Hit(set, tag, extra)
  PROVE  Inv'
<1>1. PICK i \in Matching(set, tag) :
         queue' = [queue EXCEPT ![set] = Promoted(queue[set], i)]
  BY DEF Hit
<1>2. i \in Line /\ cache[set][i].valid = 1
  BY DEF Matching
<1>3. /\ queue' \in [Set -> [Line -> Line]]
      /\ RanksArePermutation'
      /\ RanksDistinct'
  BY <1>1, <1>2, RanksStep
<1>4. cache' = cache /\ SimTypeOK'
  BY <1>3 DEF Hit, Inv, SimTypeOK
<1>5. NoDuplicateBlock'
  BY <1>4 DEF Inv, NoDuplicateBlock
<1>6. UnusedFirst'
  <2>. SUFFICES ASSUME NEW x \in Set, NEW j \in Line, NEW k \in Line,
                       cache[x][j].valid = 0, cache[x][k].valid = 1
                PROVE  queue'[x][j] < queue'[x][k]
    BY <1>4 DEF UnusedFirst
  <2>1. queue[x][j] < queue[x][k]
    BY DEF Inv, UnusedFirst
  <2>2. CASE x # set
    BY <1>1, <2>1, <2>2 DEF Inv, SimTypeOK
  <2>3. CASE x = set
    <3>1. queue[set][j] < queue[set][i]
      BY <1>2, <2>3 DEF Inv, UnusedFirst
    <3>2. queue'[x] = Promoted(queue[set], i)
      BY <1>1, <2>3 DEF Inv, SimTypeOK
    <3>3. queue[set][i] \in Line /\ queue[set][j] \in Line /\ queue[set][k] \in Line
      BY <1>2 DEF Inv, SimTypeOK
    <3>. QED BY <1>2, <2>1, <2>3, <3>1, <3>2, <3>3, Lines DEF Promoted
  <2>. QED BY <2>2, <2>3
<1>. QED BY <1>3, <1>4, <1>5, <1>6 DEF Inv

\* A miss (loadCache) replaces the line of rank 0 and keeps the invariant.
LEMMA MissInv ==
  ASSUME Inv, NEW set \in Set, NEW tag \in Nat, NEW extra \in {0, 1}, addr' \in Nat,
         Miss(set, tag, extra)
  PROVE  Inv'
<1>1. PICK i \in Victims(set) :
        /\ cache' = [cache EXCEPT ![set][i] = [valid |-> 1, tag |-> tag]]
        /\ queue' = [queue EXCEPT ![set] = Promoted(queue[set], i)]
        /\ eviction' = eviction + cache[set][i].valid
  BY DEF Miss
<1>2. i \in Line /\ queue[set][i] = 0
  BY DEF Victims
<1>3. /\ queue' \in [Set -> [Line -> Line]]
      /\ RanksArePermutation'
      /\ RanksDistinct'
  BY <1>1, <1>2, RanksStep
<1>4. \A x \in Set, j \in Line :
        cache'[x][j] = IF x = set /\ j = i THEN [valid |-> 1, tag |-> tag] ELSE cache[x][j]
  BY <1>1, <1>2 DEF Inv, SimTypeOK
<1>5. SimTypeOK'
  <2>1. cache[set][i].valid \in {0, 1}
    BY <1>2 DEF Inv, SimTypeOK
  <2>2. hit' \in Nat /\ miss' \in Nat /\ eviction' \in Nat
    BY <1>1, <2>1 DEF Miss, Inv, SimTypeOK
  <2>3. cache' \in [Set -> [Line -> [valid : {0, 1}, tag : Nat]]]
    BY <1>1, <1>2 DEF Inv, SimTypeOK
  <2>. QED BY <1>3, <2>2, <2>3 DEF SimTypeOK
<1>6. NoDuplicateBlock'
  BY <1>4 DEF Miss, Matching, Inv, NoDuplicateBlock
<1>7. UnusedFirst'
  <2>. SUFFICES ASSUME NEW x \in Set, NEW j \in Line, NEW k \in Line,
                       cache'[x][j].valid = 0, cache'[x][k].valid = 1
                PROVE  queue'[x][j] < queue'[x][k]
    BY DEF UnusedFirst
  <2>1. cache[x][j].valid = 0 /\ (x # set \/ j # i)
    BY <1>4
  <2>2. CASE x # set
    BY <1>1, <1>4, <2>1, <2>2 DEF Inv, SimTypeOK, UnusedFirst
  <2>3. CASE x = set
    <3>1. queue'[x] = Promoted(queue[set], i)
      BY <1>1, <2>3 DEF Inv, SimTypeOK
    <3>2. queue[set][j] \in Line /\ queue[set][k] \in Line
      BY DEF Inv, SimTypeOK
    <3>3. queue[set][j] # 0
      BY <1>2, <2>1, <2>3 DEF Inv, RanksDistinct
    <3>4. k # i => queue[set][j] < queue[set][k]
      BY <1>4, <2>1, <2>3 DEF Inv, UnusedFirst
    <3>. QED BY <1>2, <2>1, <2>3, <3>1, <3>2, <3>3, <3>4, Lines DEF Promoted
  <2>. QED BY <2>2, <2>3
<1>. QED BY <1>3, <1>5, <1>6, <1>7 DEF Inv

\* The invariant holds of every reachable state.
THEOREM Invariance == SimSpec => []Inv
<1>1. Inv /\ [SimNext]_simVars => Inv'
  <2>1. ASSUME Inv, NEW a \in Address, NEW extra \in {0, 1}, Access(a, extra)
        PROVE  Inv'
    BY <2>1, SelectionTyped, HitInv, MissInv DEF Access, Address
  <2>2. ASSUME Inv, UNCHANGED simVars PROVE Inv'
    BY <2>2
    DEF simVars, Inv, SimTypeOK, RanksArePermutation, RanksDistinct, NoDuplicateBlock, UnusedFirst
  <2>. QED BY <2>1, <2>2 DEF SimNext
<1>. QED BY InitInv, <1>1, PTL DEF SimSpec

\* Types, for any geometry.
THEOREM TypeCorrect == SimSpec => []SimTypeOK
BY Invariance, PTL DEF Inv

\* loadCache always finds a line of rank 0.
THEOREM RanksPermuted == SimSpec => []RanksArePermutation
BY Invariance, PTL DEF Inv

\* A block is cached in at most one line.
THEOREM BlocksOnce == SimSpec => []NoDuplicateBlock
BY Invariance, PTL DEF Inv

\* No line in use is replaced while another is unused.
THEOREM UnusedLinesFirst == SimSpec => []UnusedFirst
BY Invariance, PTL DEF Inv

-----------------------------------------------------------------------------
(* The refinement of LRUSets.  Its sets are sequences of blocks; here the  *)
(* highest ranks of a set are those of the n lines in use, and the line of *)
(* rank E - k holds its k-th block.                                        *)

\* The line of a rank has that rank, and no other line has.
LEMMA LineAtIs ==
  ASSUME NEW q \in [Line -> Line],
         \A r \in Line : \E j \in Line : q[j] = r,
         \A j, k \in Line : q[j] = q[k] => j = k
  PROVE  /\ \A r \in Line : LineAt(q, r) \in Line /\ q[LineAt(q, r)] = r
         /\ \A j \in Line : LineAt(q, q[j]) = j
<1>1. ASSUME NEW r \in Line PROVE LineAt(q, r) \in Line /\ q[LineAt(q, r)] = r
  BY DEF LineAt
<1>2. ASSUME NEW j \in Line PROVE LineAt(q, q[j]) = j
  BY <1>1
<1>. QED BY <1>1, <1>2

\* updateCache as it moves the lines through the ranks.
LEMMA LineAtPromoted ==
  ASSUME NEW q \in [Line -> Line],
         \A r \in Line : \E j \in Line : q[j] = r,
         \A j, k \in Line : q[j] = q[k] => j = k,
         NEW i \in Line, NEW r \in Line
  PROVE  LineAt(Promoted(q, i), r) =
           IF r = E - 1 THEN i ELSE IF r >= q[i] THEN LineAt(q, r + 1) ELSE LineAt(q, r)
<1>. DEFINE p == Promoted(q, i)
<1>1. /\ p \in [Line -> Line]
      /\ \A n \in Line : \E j \in Line : p[j] = n
      /\ \A j, k \in Line : p[j] = p[k] => j = k
  BY ZenonT(60), PromotedTyped, PromotedOnto, PromotedDistinct
<1>2. ASSUME NEW j \in Line, p[j] = r PROVE LineAt(p, r) = j
  <2>. HIDE DEF p
  <2>. QED BY <1>1, <1>2, LineAtIs
<1>3. q[i] \in Line /\ E - 1 \in Line /\ \A n \in Line : n \in Int
  BY Lines
<1>4. CASE r = E - 1
  BY <1>2, <1>4 DEF Promoted
<1>5. CASE r # E - 1 /\ r >= q[i]
  <2>. DEFINE j == LineAt(q, r + 1)
  <2>1. r + 1 \in Line /\ r + 1 > q[i] /\ (r + 1) - 1 = r
    BY <1>3, <1>5, Lines
  <2>2. j \in Line /\ q[j] = r + 1
    BY <2>1, LineAtIs
  <2>3. j # i
    BY <1>3, <2>1, <2>2
  <2>4. p[j] = r
    BY <2>1, <2>2, <2>3 DEF Promoted
  <2>. QED BY <1>2, <1>5, <2>2, <2>4
<1>6. CASE r # E - 1 /\ r < q[i]
  <2>. DEFINE j == LineAt(q, r)
  <2>1. j \in Line /\ q[j] = r
    BY LineAtIs
  <2>2. j # i /\ ~ q[j] > q[i]
    BY <1>3, <1>6, <2>1
  <2>3. p[j] = r
    BY <2>1, <2>2 DEF Promoted
  <2>. QED BY <1>2, <1>3, <1>6, <2>1, <2>3
<1>. QED BY <1>3, <1>4, <1>5, <1>6

\* The n highest ranks of a set are those of its lines in use.
InUse(set, n) ==
  /\ n \in 0 .. E
  /\ \A i \in Line : cache[set][i].valid = 1 <=> queue[set][i] >= E - n

LEMMA InUseExists == ASSUME Inv, NEW set \in Set PROVE \E n : InUse(set, n)
<1>. DEFINE q == queue[set]
<1>. DEFINE R == {q[i] : i \in Used(set)}
<1>0. /\ q \in [Line -> Line]
      /\ \A i \in Line : q[i] \in Nat /\ q[i] <= E - 1
      /\ \A i \in Line : cache[set][i].valid \in {0, 1}
      /\ E \in Nat
  <2>1. q \in [Line -> Line]
    BY DEF Inv, SimTypeOK
  <2>2. \A i \in Line : q[i] \in Nat /\ q[i] <= E - 1
    BY <2>1, Lines
  <2>. QED BY <2>1, <2>2, SimConstantsOK DEF Inv, SimTypeOK
<1>1. CASE Used(set) = {}
  <2>1. \A i \in Line : cache[set][i].valid # 1 /\ ~ q[i] >= E - 0
    BY <1>0, <1>1 DEF Used
  <2>2. InUse(set, 0)
    BY <1>0, <2>1 DEF InUse
  <2>. QED BY <2>2
<1>2. CASE Used(set) # {}
  <2>1. R \in SUBSET Nat /\ R # {}
    BY <1>0, <1>2 DEF Used
  <2>2. PICK m \in R : \A k \in R : m <= k
    BY <2>1, LeastNat
  <2>3. PICK i \in Line : cache[set][i].valid = 1 /\ q[i] = m
    BY DEF Used
  <2>4. m \in Nat /\ m <= E - 1 /\ E - m \in 0 .. E /\ E - (E - m) = m
    BY <1>0, <2>3
  <2>5. ASSUME NEW j \in Line PROVE cache[set][j].valid = 1 <=> q[j] >= m
    <3>1. CASE cache[set][j].valid = 1
      BY <1>0, <2>2, <2>4, <3>1 DEF Used
    <3>2. CASE cache[set][j].valid # 1
      <4>1. q[j] < m
        BY <1>0, <2>3, <3>2 DEF Inv, UnusedFirst
      <4>. QED BY <1>0, <2>4, <3>2, <4>1
    <3>. QED BY <3>1, <3>2
  <2>6. InUse(set, E - m)
    BY <2>4, <2>5 DEF InUse
  <2>. QED BY <2>6
<1>. QED BY <1>1, <1>2

\* n is the number of those lines, and what LRUSets sees of the set are their
\* blocks in the order of the ranks.
RecentShape ==
  \A set \in Set : \A n : InUse(set, n) =>
    /\ Recent(set) \in Seq(Nat)
    /\ Len(Recent(set)) = n
    /\ \A k \in 1 .. n :
         Recent(set)[k] = cache[set][LineAt(queue[set], E - k)].tag * S + set

LEMMA RecentNow == Inv => RecentShape
<1>. SUFFICES ASSUME Inv, NEW set \in Set, NEW n, InUse(set, n)
              PROVE  /\ Recent(set) \in Seq(Nat)
                     /\ Len(Recent(set)) = n
                     /\ \A k \in 1 .. n :
                          Recent(set)[k] = cache[set][LineAt(queue[set], E - k)].tag * S + set
  BY DEF RecentShape
<1>. DEFINE q == queue[set]
<1>1. /\ q \in [Line -> Line]
      /\ \A r \in Line : \E j \in Line : q[j] = r
      /\ \A j, k \in Line : q[j] = q[k] => j = k
  BY DEF Inv, SimTypeOK, RanksArePermutation, RanksDistinct
<1>2. /\ \A r \in Line : LineAt(q, r) \in Line /\ q[LineAt(q, r)] = r
      /\ \A j \in Line : LineAt(q, q[j]) = j
  BY <1>1, LineAtIs
<1>3. n \in Nat /\ E \in Nat /\ n <= E
      /\ \A i \in Line : i \in Used(set) <=> q[i] >= E - n
  BY SimConstantsOK DEF InUse, Used
<1>4. \A k \in 1 .. n : E - k \in Line /\ E - k >= E - n
  BY <1>3, Lines
<1>. HIDE DEF q
<1>5. Cardinality(Used(set)) = n
  <2>. DEFINE u == [k \in 1 .. n |-> LineAt(q, E - k)]
  <2>1. u \in Seq(Line) /\ Len(u) = n /\ \A k \in 1 .. n : u[k] = LineAt(q, E - k)
    <3>1. u \in [1 .. n -> Line]
      BY <1>2, <1>4
    <3>. QED BY <1>3, <3>1, SeqDef
  <2>. HIDE DEF u
  <2>2. IsInjective(u)
    <3>1. ASSUME NEW j \in 1 .. n, NEW k \in 1 .. n, u[j] = u[k] PROVE j = k
      <4>1. E - j = E - k
        BY <1>2, <1>4, <2>1, <3>1
      <4>. QED BY <1>3, <4>1
    <3>. QED BY <2>1, <3>1, ElementsAre
  <2>3. ASSUME NEW i PROVE i \in ToSet(u) <=> i \in Used(set)
    <3>1. i \in ToSet(u) <=> \E k \in 1 .. n : u[k] = i
      BY <2>1, ElementsAre
    <3>2. ASSUME NEW k \in 1 .. n, u[k] = i PROVE i \in Used(set)
      <4>1. i \in Line /\ q[i] = E - k
        BY <1>2, <1>4, <2>1, <3>2
      <4>. QED BY <1>3, <1>4, <4>1
    <3>3. ASSUME i \in Used(set) PROVE \E k \in 1 .. n : u[k] = i
      <4>1. i \in Line
        BY <3>3 DEF Used
      <4>2. q[i] \in Line /\ q[i] >= E - n
        BY <1>1, <1>3, <3>3, <4>1
      <4>3. E - q[i] \in 1 .. n /\ E - (E - q[i]) = q[i]
        BY <1>3, <4>2, Lines
      <4>4. u[E - q[i]] = i
        BY <1>2, <2>1, <4>1, <4>3
      <4>. QED BY <4>3, <4>4
    <3>. QED BY <3>1, <3>2, <3>3
  <2>4. ToSet(u) = Used(set)
    BY <2>3
  <2>. QED BY <2>1, <2>2, <2>4, InjectiveLength
<1>6. Recent(set) = [k \in 1 .. n |-> cache[set][LineAt(q, E - k)].tag * S + set]
  BY <1>5 DEF Recent, q
<1>7. ASSUME NEW k \in 1 .. n PROVE cache[set][LineAt(q, E - k)].tag * S + set \in Nat
  <2>1. LineAt(q, E - k) \in Line
    BY <1>2, <1>4
  <2>2. cache[set][LineAt(q, E - k)].tag \in Nat
    BY <2>1 DEF Inv, SimTypeOK
  <2>3. S \in Nat /\ set \in Nat
    BY Power2Positive, SimConstantsOK DEF S, Set
  <2>. QED BY <2>2, <2>3
<1>8. Recent(set) \in [1 .. n -> Nat]
  BY <1>6, <1>7
<1>9. Recent(set) \in Seq(Nat)
  BY <1>3, <1>8, SeqDef
<1>10. Len(Recent(set)) = n
  BY <1>3, <1>8, <1>9
<1>. QED BY <1>6, <1>9, <1>10 DEF q

LEMMA RecentAfter == Inv' => RecentShape'
BY RecentNow, PTL
\* A set that a step does not touch.
LEMMA OtherSet ==
  ASSUME NEW x \in Set, cache'[x] = cache[x], queue'[x] = queue[x]
  PROVE  Recent(x)' = Recent(x)
BY DEF Recent, Used

\* What the invariant says of the ranks of one set.
LEMMA Ranks ==
  ASSUME Inv, NEW set \in Set
  PROVE  /\ queue[set] \in [Line -> Line]
         /\ \A r \in Line : \E j \in Line : queue[set][j] = r
         /\ \A j, k \in Line : queue[set][j] = queue[set][k] => j = k
BY DEF Inv, SimTypeOK, RanksArePermutation, RanksDistinct

\* scanCache finds the block: it moves to the front of its set.
LEMMA HitRecent ==
  ASSUME Inv, Inv', NEW set \in Set, NEW tag \in Nat, NEW extra, Hit(set, tag, extra)
  PROVE  /\ \E k \in 1 .. Len(Recent(set)) :
              /\ Recent(set)[k] = tag * S + set
              /\ Recent(set)' = <<tag * S + set>> \o RemoveAt(Recent(set), k)
         /\ \A x \in Set \ {set} : Recent(x)' = Recent(x)
<1>1. PICK i \in Line : /\ cache[set][i].tag = tag /\ cache[set][i].valid = 1
                        /\ queue' = [queue EXCEPT ![set] = Promoted(queue[set], i)]
  BY DEF Hit, Matching
<1>2. cache' = cache
  BY DEF Hit
<1>3. PICK n : InUse(set, n)
  BY InUseExists
<1>. DEFINE q == queue[set]
<1>. DEFINE m == E - q[i]
<1>4. /\ q \in [Line -> Line]
      /\ \A r \in Line : \E j \in Line : q[j] = r
      /\ \A j, k \in Line : q[j] = q[k] => j = k
  BY Ranks
<1>5. /\ queue'[set] = Promoted(q, i)
      /\ \A x \in Set \ {set} : queue'[x] = queue[x]
  BY <1>1 DEF Inv, SimTypeOK
<1>. HIDE DEF q
<1>6. /\ n \in 0 .. E /\ E \in Nat
      /\ \A j \in Line : cache[set][j].valid = 1 <=> q[j] >= E - n
  BY <1>3, SimConstantsOK DEF InUse, q
<1>7. /\ \A j \in Line : q[j] \in Nat /\ q[j] <= E - 1
      /\ q[i] >= E - n /\ m \in 1 .. n /\ E - m = q[i]
  <2>1. \A j \in Line : q[j] \in Nat /\ q[j] <= E - 1
    BY <1>4, Lines
  <2>. QED BY <1>1, <1>6, <2>1
<1>8. InUse(set, n)'
  <2>. SUFFICES ASSUME NEW j \in Line
                PROVE  cache[set][j].valid = 1 <=> Promoted(q, i)[j] >= E - n
    BY <1>2, <1>5, <1>6 DEF InUse
  <2>1. CASE j = i
    <3>1. Promoted(q, i)[j] = E - 1
      BY <2>1 DEF Promoted
    <3>. QED BY <1>1, <1>6, <1>7, <2>1, <3>1
  <2>2. CASE j # i
    <3>1. Promoted(q, i)[j] = IF q[j] > q[i] THEN q[j] - 1 ELSE q[j]
      BY <2>2 DEF Promoted
    <3>2. q[j] # q[i]
      BY <1>4, <2>2
    <3>. QED BY <1>6, <1>7, <3>1, <3>2
  <2>. QED BY <2>1, <2>2
<1>9. /\ Recent(set) \in Seq(Nat) /\ Len(Recent(set)) = n
      /\ \A k \in 1 .. n : Recent(set)[k] = cache[set][LineAt(q, E - k)].tag * S + set
  BY <1>3, RecentNow DEF RecentShape, q
<1>10. PICK r : r = Recent(set)'
  OBVIOUS
<1>11. /\ r \in Seq(Nat) /\ Len(r) = n
       /\ \A k \in 1 .. n : r[k] = cache[set][LineAt(Promoted(q, i), E - k)].tag * S + set
  BY <1>2, <1>5, <1>8, <1>10, RecentAfter DEF RecentShape
<1>. HIDE DEF m
<1>12. Recent(set)[m] = tag * S + set
  <2>1. LineAt(q, q[i]) = i
    BY <1>4, LineAtIs
  <2>. QED BY <1>1, <1>7, <1>9, <2>1
<1>13. r[1] = tag * S + set
  <2>1. E - 1 \in Line /\ 1 \in 1 .. n
    BY <1>6, <1>7, Lines
  <2>2. LineAt(Promoted(q, i), E - 1) = i
    BY <1>4, <2>1, LineAtPromoted
  <2>. QED BY <1>1, <1>11, <2>1, <2>2
<1>14. ASSUME NEW k \in 1 .. n - 1
       PROVE  r[k + 1] = IF k < m THEN Recent(set)[k] ELSE Recent(set)[k + 1]
  <2>1. /\ k + 1 \in 1 .. n /\ k \in 1 .. n
        /\ E - (k + 1) \in Line /\ E - (k + 1) # E - 1 /\ (E - (k + 1)) + 1 = E - k
    BY <1>6, Lines
  <2>2. E - (k + 1) >= q[i] <=> k < m
    BY <1>6, <1>7
  <2>3. LineAt(Promoted(q, i), E - (k + 1)) =
          IF E - (k + 1) >= q[i] THEN LineAt(q, (E - (k + 1)) + 1) ELSE LineAt(q, E - (k + 1))
    BY <1>4, <2>1, LineAtPromoted
  <2>4. r[k + 1] = cache[set][LineAt(Promoted(q, i), E - (k + 1))].tag * S + set
    BY <1>11, <2>1
  <2>5. CASE k < m
    <3>1. LineAt(Promoted(q, i), E - (k + 1)) = LineAt(q, E - k)
      BY <2>1, <2>2, <2>3, <2>5
    <3>. QED BY <1>9, <2>1, <2>4, <2>5, <3>1
  <2>6. CASE ~ k < m
    <3>1. LineAt(Promoted(q, i), E - (k + 1)) = LineAt(q, E - (k + 1))
      BY <2>2, <2>3, <2>6
    <3>. QED BY <1>9, <2>1, <2>4, <2>6, <3>1
  <2>. QED BY <2>5, <2>6
<1>15. r = <<Recent(set)[m]>> \o RemoveAt(Recent(set), m)
  <2>1. PICK old : old = Recent(set)
    OBVIOUS
  <2>2. /\ old \in Seq(Nat) /\ m \in 1 .. Len(old) /\ Len(r) = Len(old) /\ r[1] = old[m]
        /\ \A k \in 1 .. Len(old) - 1 : r[k + 1] = IF k < m THEN old[k] ELSE old[k + 1]
    BY <1>7, <1>9, <1>11, <1>12, <1>13, <1>14, <2>1
  <2>3. r = <<old[m]>> \o RemoveAt(old, m)
    BY <1>11, <2>2, IsMoved
  <2>. QED BY <2>1, <2>3
<1>16. \A x \in Set \ {set} : Recent(x)' = Recent(x)
  BY <1>2, <1>5, OtherSet
<1>. QED BY <1>7, <1>9, <1>10, <1>12, <1>15, <1>16
\* scanCache finds nothing: the block was in no line, and enters its set at the
\* front; the last block of the set leaves if the set was full.
LEMMA MissRecent ==
  ASSUME Inv, Inv', NEW set \in Set, NEW tag \in Nat, NEW extra, Miss(set, tag, extra)
  PROVE  /\ Recent(set) \in Seq(Nat)
         /\ \A k \in 1 .. Len(Recent(set)) : Recent(set)[k] # tag * S + set
         /\ Recent(set)' = <<tag * S + set>> \o
              (IF Len(Recent(set)) = E THEN Front(Recent(set)) ELSE Recent(set))
         /\ eviction' = eviction + (IF Len(Recent(set)) = E THEN 1 ELSE 0)
         /\ \A x \in Set \ {set} : Recent(x)' = Recent(x)
<1>1. PICK i \in Line : /\ queue[set][i] = 0
                        /\ cache' = [cache EXCEPT ![set][i] = [valid |-> 1, tag |-> tag]]
                        /\ queue' = [queue EXCEPT ![set] = Promoted(queue[set], i)]
                        /\ eviction' = eviction + cache[set][i].valid
  BY DEF Miss, Victims
<1>2. \A j \in Line : cache[set][j].valid = 1 => cache[set][j].tag # tag
  BY DEF Miss, Matching
<1>3. PICK n : InUse(set, n)
  BY InUseExists
<1>. DEFINE q == queue[set]
<1>. DEFINE m == IF n = E THEN E - 1 ELSE n
<1>4. /\ q \in [Line -> Line]
      /\ \A r \in Line : \E j \in Line : q[j] = r
      /\ \A j, k \in Line : q[j] = q[k] => j = k
  BY Ranks
<1>5. /\ queue'[set] = Promoted(q, i)
      /\ \A j \in Line : cache'[set][j] = IF j = i THEN [valid |-> 1, tag |-> tag] ELSE cache[set][j]
      /\ \A x \in Set \ {set} : queue'[x] = queue[x] /\ cache'[x] = cache[x]
      /\ \A j \in Line : cache[set][j].valid \in {0, 1} /\ cache[set][j].tag \in Nat
  BY <1>1 DEF Inv, SimTypeOK
<1>. HIDE DEF q
<1>6. /\ n \in 0 .. E /\ E \in Nat /\ E > 0
      /\ \A j \in Line : cache[set][j].valid = 1 <=> q[j] >= E - n
      /\ q[i] = 0
  BY <1>1, <1>3, SimConstantsOK DEF InUse, q
<1>7. /\ \A j \in Line : q[j] \in Nat /\ q[j] <= E - 1
      /\ \A j \in Line : j # i => q[j] > 0
      /\ m \in 0 .. E - 1 /\ m <= n
  <2>1. \A j \in Line : q[j] \in Nat /\ q[j] <= E - 1
    BY <1>4, Lines
  <2>2. \A j \in Line : j # i => q[j] # 0
    BY <1>4, <1>6
  <2>. QED BY <1>6, <2>1, <2>2
<1>8. InUse(set, m + 1)'
  <2>. SUFFICES ASSUME NEW j \in Line
                PROVE  cache'[set][j].valid = 1 <=> Promoted(q, i)[j] >= E - (m + 1)
    <3>1. m + 1 \in 0 .. E
      BY <1>6, <1>7
    <3>. HIDE DEF m
    <3>. QED BY <1>5, <3>1 DEF InUse
  <2>1. CASE j = i
    <3>1. Promoted(q, i)[j] = E - 1 /\ cache'[set][j].valid = 1
      BY <1>5, <2>1 DEF Promoted
    <3>. QED BY <1>6, <1>7, <3>1
  <2>2. CASE j # i
    <3>1. Promoted(q, i)[j] = q[j] - 1 /\ cache'[set][j] = cache[set][j]
      BY <1>5, <1>6, <1>7, <2>2 DEF Promoted
    <3>2. q[j] \in Nat /\ q[j] > 0 /\ (cache[set][j].valid = 1 <=> q[j] >= E - n)
      BY <1>6, <1>7, <2>2
    <3>3. q[j] >= E - n <=> q[j] - 1 >= E - (m + 1)
      BY <1>6, <3>2
    <3>. QED BY <3>1, <3>2, <3>3
  <2>. QED BY <2>1, <2>2
<1>9. PICK old : old = Recent(set)
  OBVIOUS
<1>10. /\ old \in Seq(Nat) /\ Len(old) = n
       /\ \A k \in 1 .. n : old[k] = cache[set][LineAt(q, E - k)].tag * S + set
  BY <1>3, <1>9, RecentNow DEF RecentShape, q
<1>11. PICK r : r = Recent(set)'
  OBVIOUS
<1>12. /\ r \in Seq(Nat) /\ Len(r) = m + 1
       /\ \A k \in 1 .. m + 1 : r[k] = cache'[set][LineAt(Promoted(q, i), E - k)].tag * S + set
  <2>. HIDE DEF m
  <2>. QED BY <1>5, <1>8, <1>11, RecentAfter DEF RecentShape
<1>13. /\ \A k \in Line : LineAt(q, k) \in Line /\ q[LineAt(q, k)] = k
       /\ \A k \in 1 .. n : E - k \in Line
  BY <1>4, <1>6, LineAtIs, Lines
<1>14. r[1] = tag * S + set
  <2>1. E - 1 \in Line /\ 1 \in 1 .. m + 1
    BY <1>6, <1>7, Lines
  <2>2. LineAt(Promoted(q, i), E - 1) = i
    BY <1>4, <2>1, LineAtPromoted
  <2>. HIDE DEF m
  <2>. QED BY <1>5, <1>12, <2>1, <2>2
<1>15. ASSUME NEW k \in 1 .. m PROVE r[k + 1] = old[k]
  <2>1. /\ k + 1 \in 1 .. m + 1 /\ k \in 1 .. n
        /\ E - (k + 1) \in Line /\ E - (k + 1) # E - 1 /\ (E - (k + 1)) + 1 = E - k
        /\ E - (k + 1) >= q[i]
    BY <1>6, <1>7, Lines
  <2>2. LineAt(Promoted(q, i), E - (k + 1)) = LineAt(q, E - k)
    BY <1>4, <2>1, LineAtPromoted
  <2>3. LineAt(q, E - k) \in Line /\ q[LineAt(q, E - k)] = E - k /\ E - k # 0
    BY <1>6, <1>7, <1>13, <2>1
  <2>4. LineAt(q, E - k) # i
    BY <1>6, <2>3
  <2>. HIDE DEF m
  <2>5. r[k + 1] = cache'[set][LineAt(q, E - k)].tag * S + set
    BY <1>12, <2>1, <2>2
  <2>6. cache'[set][LineAt(q, E - k)] = cache[set][LineAt(q, E - k)]
    BY <1>5, <2>3, <2>4
  <2>7. old[k] = cache[set][LineAt(q, E - k)].tag * S + set
    BY <1>10, <2>1
  <2>. QED BY <2>5, <2>6, <2>7
<1>16. S \in Nat \ {0} /\ set \in Nat
  BY Power2Positive, SimConstantsOK DEF S, Set
<1>17. ASSUME NEW k \in 1 .. n, old[k] = tag * S + set PROVE FALSE
  <2>. DEFINE j == LineAt(q, E - k)
  <2>1. j \in Line /\ q[j] = E - k /\ E - k >= E - n
    BY <1>6, <1>13
  <2>2. cache[set][j].valid = 1 /\ cache[set][j].tag \in Nat
    BY <1>5, <1>6, <2>1
  <2>3. cache[set][j].tag * S + set = tag * S + set
    BY <1>10, <1>17
  <2>. HIDE DEF j
  <2>4. PICK u \in Nat : u = cache[set][j].tag
    BY <2>2
  <2>5. u = tag
    <3>1. u * S = tag * S
      BY <1>16, <2>3, <2>4
    <3>. QED BY <1>16, <3>1
  <2>. QED BY <1>2, <2>1, <2>2, <2>4, <2>5
<1>18. r = <<tag * S + set>> \o (IF n = E THEN Front(old) ELSE old)
  <2>1. tag * S + set \in Nat
    BY <1>16
  <2>2. CASE n = E
    <3>1. Front(old) \in Seq(Nat) /\ Len(Front(old)) = m /\ \A k \in 1 .. m : Front(old)[k] = old[k]
      <4>1. Len(old) > 0 /\ Len(old) - 1 = m
        BY <1>6, <1>10, <2>2
      <4>. HIDE DEF m
      <4>2. /\ Front(old) \in Seq(Nat) /\ Len(Front(old)) = Len(old) - 1
            /\ \A k \in 1 .. Len(old) - 1 : Front(old)[k] = old[k]
        BY <1>10, <4>1, LastTakenOff
      <4>. QED BY <4>1, <4>2
    <3>. HIDE DEF m
    <3>2. Len(r) = Len(Front(old)) + 1 /\ \A k \in 1 .. Len(Front(old)) : r[k + 1] = Front(old)[k]
      BY <1>12, <1>15, <3>1
    <3>3. r = <<tag * S + set>> \o Front(old)
      BY <1>12, <1>14, <2>1, <3>1, <3>2, IsPrepended
    <3>. QED BY <2>2, <3>3
  <2>3. CASE n # E
    <3>1. Len(r) = Len(old) + 1 /\ \A k \in 1 .. Len(old) : r[k + 1] = old[k]
      BY <1>10, <1>12, <1>15, <2>3
    <3>2. r = <<tag * S + set>> \o old
      BY <1>10, <1>12, <1>14, <2>1, <3>1, IsPrepended
    <3>. QED BY <2>3, <3>2
  <2>. QED BY <2>2, <2>3
<1>19. eviction' = eviction + (IF n = E THEN 1 ELSE 0)
  <2>1. cache[set][i].valid = 1 <=> 0 >= E - n
    BY <1>6
  <2>2. cache[set][i].valid = IF n = E THEN 1 ELSE 0
    BY <1>5, <1>6, <2>1
  <2>. QED BY <1>1, <2>2
<1>20. \A x \in Set \ {set} : Recent(x)' = Recent(x)
  BY <1>5, OtherSet
<1>. QED BY <1>9, <1>10, <1>11, <1>17, <1>18, <1>19, <1>20

\* LRUSets has its own copies of the sequence operators.
LEMMA SameOperators ==
  /\ \A q : Abstract!ToSet(q) = ToSet(q)
  /\ \A q, i : Abstract!RemoveAt(q, i) = RemoveAt(q, i)
  /\ \A q : Abstract!Front(q) = Front(q)
BY DEF Abstract!ToSet, ToSet, Abstract!RemoveAt, RemoveAt, Abstract!Front, Front

\* One record of the trace is one step of LRUSets.
LEMMA AccessRefines ==
  ASSUME Inv, Inv', NEW a \in Address, NEW extra \in {0, 1}, Access(a, extra)
  PROVE  Abstract!Next
<1>. DEFINE set == SetOf(a)
<1>. DEFINE tag == TagOf(a)
<1>. DEFINE recent == [x \in Set |-> Recent(x)]
<1>1. /\ set \in Set /\ tag \in Nat /\ BlockOf(addr') = BlockOf(a)
      /\ set = BlockOf(a) % S /\ tag * S + set = BlockOf(a)
  BY SelectionTyped DEF Access
<1>2. BlockOf(addr') \in {BlockOf(x) : x \in Address}
  BY <1>1
<1>. HIDE DEF set, tag
<1>3. CASE Hit(set, tag, extra)
  <2>1. PICK k \in 1 .. Len(Recent(set)) :
          /\ Recent(set)[k] = tag * S + set
          /\ Recent(set)' = <<tag * S + set>> \o RemoveAt(Recent(set), k)
    BY <1>1, <1>3, HitRecent
  <2>2. \A x \in Set \ {set} : Recent(x)' = Recent(x)
    BY <1>1, <1>3, HitRecent
  <2>3. recent' = [recent EXCEPT ![set] = <<BlockOf(a)>> \o Abstract!RemoveAt(@, k)]
    BY <1>1, <2>1, <2>2, SameOperators
  <2>4. recent[set] = Recent(set)
    BY <1>1
  <2>5. k \in DOMAIN recent[set] /\ recent[set][k] = BlockOf(a)
    BY <1>1, <2>1, <2>4
  <2>6. hit' = hit + (1 + extra) /\ UNCHANGED <<miss, eviction>>
    BY <1>3 DEF Hit, Inv, SimTypeOK
  <2>7. Abstract!Hit(1 + extra)
    BY <1>1, <2>3, <2>5, <2>6 DEF Abstract!Hit
  <2>8. 1 + extra = 1 \/ 1 + extra = 2
    OBVIOUS
  <2>. QED BY <1>2, <2>7, <2>8 DEF Abstract!Next
<1>4. CASE Miss(set, tag, extra)
  <2>. DEFINE kept == IF Len(Recent(set)) = E THEN Front(Recent(set)) ELSE Recent(set)
  <2>1. /\ Recent(set) \in Seq(Nat)
        /\ \A k \in 1 .. Len(Recent(set)) : Recent(set)[k] # tag * S + set
        /\ Recent(set)' = <<tag * S + set>> \o kept
        /\ eviction' = eviction + (IF Len(Recent(set)) = E THEN 1 ELSE 0)
        /\ \A x \in Set \ {set} : Recent(x)' = Recent(x)
    BY <1>1, <1>4, MissRecent
  <2>2. recent[set] = Recent(set)
    BY <1>1
  <2>3. recent' = [recent EXCEPT ![set] = <<BlockOf(a)>> \o kept]
    BY <1>1, <2>1
  <2>4. BlockOf(a) \notin Abstract!ToSet(recent[set])
    BY <1>1, <2>1, <2>2, SameOperators, ElementsAre
  <2>5. kept = IF Len(recent[set]) = E THEN Abstract!Front(recent[set]) ELSE recent[set]
    BY <2>2, SameOperators
  <2>6. miss' = miss + 1 /\ hit' = hit + extra
    BY <1>4 DEF Miss
  <2>. HIDE DEF kept
  <2>7. Abstract!Miss(extra)
    BY <1>1, <2>1, <2>2, <2>3, <2>4, <2>5, <2>6 DEF Abstract!Miss
  <2>. QED BY <1>2, <2>7 DEF Abstract!Next
<1>. QED BY <1>3, <1>4 DEF Access, set, tag

\* csim.c simulates a cache whose sets replace their least recently used block:
\* its bits, ranks and counters take no step that LRUSets does not.
THEOREM RefinesLRUSets == SimSpec => ImplementsLRU
<1>1. SimInit => Abstract!Init
  <2>. SUFFICES ASSUME SimInit PROVE Abstract!Init
    OBVIOUS
  <2>1. ASSUME NEW set \in Set PROVE Recent(set) = << >>
    <3>1. Used(set) = {}
      BY <2>1 DEF SimInit, Used
    <3>. QED BY <3>1, FS_EmptySet DEF Recent
  <2>2. BlockOf(addr) = 0
    <3>1. 0 \div Pow2[b] = 0
      BY Power2Positive, SimConstantsOK
    <3>. QED BY <3>1 DEF SimInit, BlockOf
  <2>. QED BY <2>1, <2>2 DEF SimInit, Abstract!Init, Abstract!Set, Set
<1>2. Inv /\ Inv' /\ [SimNext]_simVars => [Abstract!Next]_(Abstract!vars)
  <2>1. ASSUME UNCHANGED simVars PROVE UNCHANGED Abstract!vars
    BY <2>1 DEF simVars, Abstract!vars, Recent, Used
  <2>. QED BY <2>1, AccessRefines DEF SimNext
<1>. QED BY <1>1, <1>2, Invariance, PTL DEF SimSpec, ImplementsLRU, Abstract!Spec
=============================================================================
