------------------------------ MODULE CacheSim ------------------------------
(***************************************************************************)
(* The cache simulator (cache/csim.c): lines with a valid bit and a tag,   *)
(* and a queue that gives every line of a set its rank, 0 for the line to  *)
(* be replaced next and E - 1 for the line used last.                      *)
(*                                                                         *)
(* One record of the trace file is one step.  Sizes are not read by the    *)
(* simulator.  A record that fscanf can match in part only is taken for an *)
(* access of the address before it, so it is one of the records, too.      *)
(* Instruction fetches are skipped.                                        *)
(* initCache clears only S*E bytes of the lines; the memory is fresh from  *)
(* the kernel in this program, hence SimInit has every line invalid.       *)
(***************************************************************************)
EXTENDS Integers, FiniteSets, Sequences

CONSTANTS
  s, E, b,       \* the command line options
  ADDRESSES,     \* the trace names addresses below this one (a bound)
  RECORDS        \* data accesses in a trace (a bound)

ASSUME SimConstantsOK ==
  /\ s \in Nat /\ E \in Nat \ {0} /\ b \in Nat
  /\ ADDRESSES \in Nat /\ RECORDS \in Nat

\* 1 << n, of which a shift to the right is the quotient and a mask the rest.
Pow2[n \in Nat] == IF n = 0 THEN 1 ELSE 2 * Pow2[n - 1]

S == Pow2[s]
Set == 0 .. S - 1
Line == 0 .. E - 1
Address == 0 .. ADDRESSES - 1

VARIABLES
  addr,       \* simuCache's, of the last data access
  cache,      \* cache[set][i]: a line
  queue,      \* queue[set][i]: its rank
  hit, miss, eviction   \* main's counters

simVars == <<addr, cache, queue, hit, miss, eviction>>

SimTypeOK ==
  /\ addr \in Nat
  /\ cache \in [Set -> [Line -> [valid : {0, 1}, tag : Nat]]]
  /\ queue \in [Set -> [Line -> Line]]
  /\ hit \in Nat /\ miss \in Nat /\ eviction \in Nat

\* initCache
SimInit ==
  /\ addr = 0
  /\ cache = [set \in Set |-> [i \in Line |-> [valid |-> 0, tag |-> 0]]]
  /\ queue = [set \in Set |-> [i \in Line |-> i]]
  /\ hit = 0 /\ miss = 0 /\ eviction = 0

\* Mutant: the mask of the set index is a bit short.
SetOf_ShortMask(a) == IF s = 0 THEN 0 ELSE (a \div Pow2[b]) % Pow2[s - 1]

\* addr = [tag][set][block]
SetOf(a) == (a \div Pow2[b]) % S

TagOf(a) == a \div Pow2[s + b]

-----------------------------------------------------------------------------
\* Mutant: the ranks above pos are left alone.
Promoted_NoShift(q, i) == [q EXCEPT ![i] = E - 1]

\* Mutant: the most recent rank is off by one.
Promoted_Over(q, i) ==
  [j \in Line |-> IF j = i THEN E ELSE IF q[j] > q[i] THEN q[j] - 1 ELSE q[j]]

\* updateCache, and the store that follows it in both callers: line i becomes
\* the most recently used, the lines used after it move down by one.
Promoted(q, i) ==
  [j \in Line |-> IF j = i THEN E - 1 ELSE IF q[j] > q[i] THEN q[j] - 1 ELSE q[j]]

\* Mutant: the scan stops one line early.
Matching_AllButLast(set, tag) ==
  {i \in 0 .. E - 2 : cache[set][i].tag = tag /\ cache[set][i].valid = 1}

\* The lines scanCache looks for.
Matching(set, tag) ==
  {i \in Line : cache[set][i].tag = tag /\ cache[set][i].valid = 1}

\* scanCache returns 1: the first matching line is used.
Hit(set, tag, extra) ==
  /\ \E i \in Matching(set, tag) :
       /\ \A j \in Matching(set, tag) : i <= j
       /\ queue' = [queue EXCEPT ![set] = Promoted(queue[set], i)]
  /\ hit' = hit + 1 + extra
  /\ UNCHANGED <<cache, miss, eviction>>

\* The line loadCache replaces.
Victims(set) == {i \in Line : queue[set][i] = 0}

\* scanCache returns 0, loadCache replaces a line and says whether it was in use.
Miss(set, tag, extra) ==
  /\ Matching(set, tag) = {}
  /\ \E i \in Victims(set) :
       /\ \A j \in Victims(set) : i <= j
       /\ cache' = [cache EXCEPT ![set][i] = [valid |-> 1, tag |-> tag]]
       /\ queue' = [queue EXCEPT ![set] = Promoted(queue[set], i)]
       /\ eviction' = eviction + cache[set][i].valid
  /\ hit' = hit + extra
  /\ miss' = miss + 1

\* simuCache: a load or a store (extra = 0), or a modify, whose store hits.
Access(a, extra) ==
  /\ hit + miss < RECORDS
  /\ addr' = a
  /\ Hit(SetOf(a), TagOf(a), extra) \/ Miss(SetOf(a), TagOf(a), extra)

SimNext == \E a \in Address, extra \in {0, 1} : Access(a, extra)

SimSpec == SimInit /\ [][SimNext]_simVars

-----------------------------------------------------------------------------
(* Properties. *)

\* The ranks of a set are a permutation of 0 .. E-1, so loadCache always finds
\* a line of rank 0 and never returns -1.
RanksArePermutation ==
  \A set \in Set : \A r \in Line : \E i \in Line : queue[set][i] = r

\* No block is cached twice in a set: scanCache's first match is the only one.
NoDuplicateBlock ==
  \A set \in Set : \A i, j \in Line :
    /\ cache[set][i].valid = 1 /\ cache[set][j].valid = 1
    /\ cache[set][i].tag = cache[set][j].tag
    => i = j

\* The lines of a set in use, and the line of a rank.
Used(set) == {i \in Line : cache[set][i].valid = 1}

LineAt(q, r) == CHOOSE i \in Line : q[i] = r

\* The blocks of a set, put together from tag and set, the highest rank first.
Recent(set) ==
  [k \in 1 .. Cardinality(Used(set)) |->
     cache[set][LineAt(queue[set], E - k)].tag * S + set]

BlockOf(a) == a \div Pow2[b]

Abstract == INSTANCE LRUSets
  WITH block <- BlockOf(addr), Block <- {BlockOf(a) : a \in Address},
       recent <- [set \in Set |-> Recent(set)],
       hits <- hit, misses <- miss, evictions <- eviction

\* Set index and tag tell all blocks apart and nothing else, the rank queue
\* replaces the least recently used block of its set, an unused line first, and
\* the counters agree with that.
ImplementsLRU == Abstract!Spec
=============================================================================
