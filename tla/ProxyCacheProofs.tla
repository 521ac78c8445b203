-------------------------- MODULE ProxyCacheProofs --------------------------
(***************************************************************************)
(* What ProxyCache guarantees for any number of connections, any uris and  *)
(* any object sizes that fit: proofs of its safety properties, and that    *)
(* it implements LRUList.                                                  *)
(***************************************************************************)
EXTENDS ProxyCache, DataLemmas

\* The semaphore is down while a thread is between P and V, and no thread
\* ever waits inside for a second permission and gets it.
SemaphoreInv ==
  /\ MutualExclusion
  /\ \A t \in Thread : pc[t] \in Critical => mutex = 0
  /\ \A t \in Thread : pc[t] # "evict"

IsStored(p) == p \in Thread /\ Stored(p)

\* Every pointer a thread or a next field holds leads to a stored block, but
\* for the creator's pointer to the block that it is inserting.
PointerInv ==
  /\ \A t \in Thread :
       /\ pc[t] \in {"idle", "fetch", "update_P", "update", "control_P"} =>
            ptr[t] = NULL
       /\ pc[t] \in {"check", "get_start", "get"} => ptr[t] = NULL \/ IsStored(ptr[t])
       /\ pc[t] \in {"move_P", "clear", "respond"} => IsStored(ptr[t])
       /\ pc[t] \in {"insert", "publish", "V"} => ptr[t] = t \/ IsStored(ptr[t])
  /\ \A b \in Thread \cup {head} : next[b] = NULL \/ IsStored(next[b])

Inv == TypeOK /\ SemaphoreInv /\ PointerInv

USE DEF Goto, list

-----------------------------------------------------------------------------
\* No step takes a block that cache_update stored back out of existence: its
\* creator keeps its pointer and ends.
LEMMA StoredStable ==
  ASSUME Inv, Next, NEW b, IsStored(b)
  PROVE  IsStored(b)'
<1>. USE ConstantsOK DEF IsStored, Stored
<1>1. ASSUME NEW t \in Thread, Step(t) PROVE IsStored(b)'
  BY <1>1 DEF Step, Lookup, WalkOn, WalkFinds, CheckMisses, GetStarts, GetReturnsNull,
     P, AfterP, V, IsUpdate, Modify, Clear, InsertAlone, InsertLink, InsertPublish,
     UpdateFits, UpdateOverflows, Respond, Inv, TypeOK, Critical
<1>2. ASSUME NEW t \in Thread, Environment(t) PROVE IsStored(b)'
  BY <1>2 DEF Environment, Request, Fetch, FetchFails, Inv, TypeOK
<1>. QED BY <1>1, <1>2 DEF Next

\* The empty cache satisfies the invariant.
LEMMA InitInv == Init => Inv
BY ConstantsOK
DEF Init, Inv, TypeOK, Location, AfterP, SemaphoreInv, MutualExclusion, Critical,
    PointerInv, IsStored, Stored

\* Lookups (cache_check, cache_get) change no shared state, and a walker that
\* moves on lands on a stored block.
LEMMA LookupInv ==
  ASSUME Inv, Next, NEW t \in Thread, Lookup(t)
  PROVE  Inv'
<1>. USE ConstantsOK DEF Inv, TypeOK, SemaphoreInv, MutualExclusion, Critical, Location,
       AfterP, PointerInv, IsStored, Stored
<1>1. CASE \E from \in {"check", "get"} : WalkOn(t, from)
  BY <1>1 DEF WalkOn
<1>2. CASE WalkFinds(t, "check", "get_start")
  BY <1>2 DEF WalkFinds
<1>3. CASE WalkFinds(t, "get", "move_P")
  BY <1>3 DEF WalkFinds
<1>4. CASE CheckMisses(t)
  BY <1>4 DEF CheckMisses
<1>5. CASE GetStarts(t)
  BY <1>5 DEF GetStarts
<1>6. CASE GetReturnsNull(t)
  BY <1>6 DEF GetReturnsNull
<1>. QED BY <1>1, <1>2, <1>3, <1>4, <1>5, <1>6 DEF Lookup

\* P lets one thread in, V lets it out.
LEMMA SemaphoreStepInv ==
  ASSUME Inv, Next, NEW t \in Thread, P(t) \/ V(t)
  PROVE  Inv'
<1>. USE ConstantsOK DEF Inv, TypeOK, SemaphoreInv, MutualExclusion, Critical, Location,
       AfterP, PointerInv, IsStored, Stored
<1>1. CASE P(t)
  BY <1>1 DEF P
<1>2. CASE V(t)
  BY <1>2 DEF V, IsUpdate
<1>. QED BY <1>1, <1>2

\* The list operations are run by the one thread inside; what they make
\* reachable has been stored.
LEMMA ModifyInv ==
  ASSUME Inv, Next, NEW t \in Thread, Modify(t)
  PROVE  Inv'
<1>. USE ConstantsOK DEF Inv, TypeOK, SemaphoreInv, MutualExclusion, Critical, Location,
       AfterP, PointerInv, IsStored, Stored
<1>1. CASE Clear(t)
  <2>1. TypeOK'
    <3>1. ptr[t] \in Thread
      BY <1>1 DEF Clear
    <3>2. next' \in [Thread \cup {head} -> Thread \cup {NULL}]
      BY <1>1, <3>1 DEF Clear
    <3>3. prev' \in [Thread -> Thread \cup {head, NULL}]
      BY <1>1, <3>1 DEF Clear
    <3>4. cache_size' \in Int /\ block_cnt' \in Int
      BY <1>1, <3>1 DEF Clear
    <3>. QED BY <1>1, <3>2, <3>3, <3>4 DEF Clear
  <2>2. SemaphoreInv'
    BY <1>1 DEF Clear
  <2>3. PointerInv'
    BY <1>1 DEF Clear
  <2>. QED BY <2>1, <2>2, <2>3
<1>2. CASE InsertAlone(t)
  BY <1>2 DEF InsertAlone
<1>3. CASE InsertLink(t)
  BY <1>3 DEF InsertLink
<1>4. CASE InsertPublish(t)
  BY <1>4 DEF InsertPublish
<1>5. CASE UpdateFits(t)
  BY <1>5 DEF UpdateFits
<1>6. CASE UpdateOverflows(t)
  BY <1>6 DEF UpdateOverflows
<1>. QED BY <1>1, <1>2, <1>3, <1>4, <1>5, <1>6 DEF Modify

\* Answering, fetching and new requests leave the cache alone.
LEMMA OutsideInv ==
  ASSUME Inv, Next, NEW t \in Thread, Respond(t) \/ Environment(t)
  PROVE  Inv'
<1>. USE ConstantsOK DEF Inv, TypeOK, SemaphoreInv, MutualExclusion, Critical, Location,
       AfterP, PointerInv, IsStored, Stored
<1>1. CASE Respond(t)
  BY <1>1 DEF Respond
<1>2. CASE \E u \in Uri : Request(t, u)
  BY <1>2 DEF Request
<1>3. CASE \E n \in ObjectSize : Fetch(t, n)
  BY <1>3 DEF Fetch
<1>4. CASE FetchFails(t)
  BY <1>4 DEF FetchFails
<1>. QED BY <1>1, <1>2, <1>3, <1>4 DEF Environment

\* The invariant holds of every reachable state.
THEOREM Invariance == Spec => []Inv
<1>1. Inv /\ [Next]_vars => Inv'
  <2>. SUFFICES ASSUME Inv, [Next]_vars PROVE Inv'
    OBVIOUS
  <2>1. CASE Next
    BY <2>1, LookupInv, SemaphoreStepInv, ModifyInv, OutsideInv DEF Next, Step
  <2>2. CASE UNCHANGED vars
    BY <2>2 DEF vars, Inv, TypeOK, SemaphoreInv, MutualExclusion, PointerInv, IsStored, Stored
  <2>. QED BY <2>1, <2>2
<1>. QED BY InitInv, <1>1, PTL DEF Spec

-----------------------------------------------------------------------------
\* Every variable keeps its type, whatever the number of connections.
THEOREM TypeCorrect == Spec => []TypeOK
BY Invariance, PTL DEF Inv

\* No two threads are ever inside the list operations at once.
THEOREM Exclusion == Spec => []MutualExclusion
BY Invariance, PTL DEF Inv, SemaphoreInv

\* No thread is in the eviction loop, and one that calls cache_control finds the
\* semaphore down.
EvictionUnreached ==
  \A t \in Thread : pc[t] # "evict" /\ (pc[t] = "control_P" => mutex = 0)

\* The eviction loop is dead code: the thread that calls cache_control holds the
\* semaphore itself, and waits for itself for ever.
THEOREM EvictionIsDead == Spec => []EvictionUnreached
<1>1. Inv => EvictionUnreached
  BY DEF Inv, SemaphoreInv, Critical, EvictionUnreached
<1>. QED BY <1>1, Invariance, PTL

\* No lookup ever stands on a block that is still being built.
THEOREM WalkersAreSafe == Spec => []WalkersSeeWholeBlocks
<1>1. Inv => WalkersSeeWholeBlocks
  BY DEF Inv, PointerInv, IsStored, WalkersSeeWholeBlocks
<1>. QED BY <1>1, Invariance, PTL

-----------------------------------------------------------------------------
(* The bound on the cache. *)

\* A thread that holds a block outside the list has room reserved for it.
SizeInv ==
  /\ WithinMaxCacheSize
  /\ \A t \in Thread : Holds(t) => cache_size + size[ptr[t]] <= MAX_CACHE_SIZE

\* Every step keeps the room that the thread inside has set aside: a move puts
\* back what it took off, an insertion what cache_update tested for.
LEMMA SizeStep ==
  ASSUME Inv, SizeInv, NEW t \in Thread, Step(t) \/ Environment(t)
  PROVE  SizeInv'
<1>. USE ConstantsOK DEF Inv, TypeOK, SizeInv, WithinMaxCacheSize, Holds
<1>0. \A u \in Thread : size[u] \in Nat
  <2>1. \A n \in ObjectSize \cup {0} : n \in Nat
    BY SMT
  <2>. QED BY <2>1
<1>1. CASE Lookup(t) \/ P(t) \/ V(t) \/ Respond(t)
  BY <1>1 DEF Lookup, WalkOn, WalkFinds, CheckMisses, GetStarts, GetReturnsNull, P,
     AfterP, V, Respond
<1>2. CASE Modify(t)
  <2>. USE DEF SemaphoreInv, MutualExclusion, Critical, PointerInv, IsStored, Stored
  <2>1. CASE Clear(t)
    <3>1. ptr[t] \in Thread /\ \A u \in Thread : Holds(u)' => u = t
      BY <2>1 DEF Clear
    <3>2. cache_size' + size[ptr[t]] = cache_size
      BY <1>0, <2>1, <3>1 DEF Clear
    <3>. QED BY <1>0, <2>1, <3>1, <3>2 DEF Clear
  <2>2. CASE InsertAlone(t)
    BY <2>2 DEF InsertAlone
  <2>3. CASE InsertLink(t)
    BY <2>3 DEF InsertLink
  <2>4. CASE InsertPublish(t)
    BY <2>4 DEF InsertPublish
  <2>5. CASE UpdateFits(t)
    <3>1. \A u \in Thread : Holds(u)' => u = t
      BY <2>5 DEF UpdateFits
    <3>2. ptr'[t] = t /\ size[t] + cache_size <= MAX_CACHE_SIZE
      BY <2>5 DEF UpdateFits
    <3>. QED BY <1>0, <2>5, <3>1, <3>2 DEF UpdateFits
  <2>6. CASE UpdateOverflows(t)
    BY <2>6 DEF UpdateOverflows
  <2>. QED BY <1>2, <2>1, <2>2, <2>3, <2>4, <2>5, <2>6 DEF Modify
<1>3. CASE \E u \in Uri : Request(t, u)
  BY <1>3 DEF Request
<1>4. CASE \E n \in ObjectSize : Fetch(t, n)
  BY <1>4 DEF Fetch, PointerInv, IsStored, Stored
<1>5. CASE FetchFails(t)
  BY <1>5 DEF FetchFails
<1>. QED BY <1>1, <1>2, <1>3, <1>4, <1>5 DEF Step, Environment

\* cache_size never exceeds MAX_CACHE_SIZE, because cache_update tests and
\* inserts under the semaphore and a move gives back what it takes.
THEOREM CacheBounded == Spec => []WithinMaxCacheSize
<1>1. Init => SizeInv
  BY ConstantsOK DEF Init, SizeInv, WithinMaxCacheSize, Holds
<1>2. Inv /\ SizeInv /\ [Next]_vars => SizeInv'
  BY SizeStep DEF Next, vars, SizeInv, WithinMaxCacheSize, Holds
<1>3. SizeInv => WithinMaxCacheSize
  BY DEF SizeInv
<1>. QED BY <1>1, <1>2, <1>3, Invariance, PTL DEF Spec

-----------------------------------------------------------------------------
(* The shape of the list. *)

Quiet == \A t \in Thread : pc[t] # "publish"

\* What each store of cache.c keeps of the doubly linked list.  While a block
\* is being published the first block already names it as its predecessor.
LinkInv ==
  /\ \A b \in Members \cup {head} : next[b] # NULL => next[b] \in Members
  /\ \A b \in Members \cup {head} :
       next[b] # NULL /\ (b # head \/ Quiet) => prev[next[b]] = b
  /\ \A b \in Members :
       b # next[head] \/ Quiet =>
         prev[b] \in Members \cup {head} /\ next[prev[b]] = b
  /\ \A t \in Thread : pc[t] = "publish" =>
       /\ next[head] # NULL
       /\ next[ptr[t]] = next[head]
       /\ prev[next[head]] = ptr[t]

\* The blocks in the list are the stored ones that nobody is moving.
LEMMA MembersAre ==
  \A b : b \in Members <=>
    IsStored(b) /\ \A t \in Thread : Holds(t) => ptr[t] # b
BY DEF Members, IsStored

\* The same after a step.
LEMMA MembersAfter ==
  \A b : b \in Members' <=>
    IsStored(b)' /\ \A t \in Thread : Holds(t)' => ptr'[t] # b
BY DEF Members, IsStored, Holds, Stored

\* Blocks become stored only by the step that reaches V.
LEMMA StoredAfter ==
  ASSUME Inv, Next, NEW t \in Thread, Step(t) \/ Environment(t), pc'[t] # "V"
  PROVE  \A b : IsStored(b)' <=> IsStored(b)
<1>1. \A b : IsStored(b) => IsStored(b)'
  BY StoredStable
<1>2. ASSUME NEW b, IsStored(b)' PROVE IsStored(b)
  BY <1>2, ConstantsOK DEF IsStored, Stored, Step, Environment, Lookup, WalkOn, WalkFinds,
     CheckMisses, GetStarts, GetReturnsNull, P, AfterP, V, IsUpdate, Modify, Clear,
     InsertAlone, InsertLink, InsertPublish, UpdateFits, UpdateOverflows, Respond,
     Request, Fetch, FetchFails, Inv, TypeOK, PointerInv
<1>. QED BY <1>1, <1>2

\* Every step but the ones of clear_cache and insert_cache_after_head leaves
\* the stored blocks, and the blocks held outside the list, alone.
LEMMA MembersKept ==
  ASSUME Inv, Next, NEW t \in Thread, Step(t) \/ Environment(t),
         pc[t] \notin {"clear", "insert", "publish", "update"}
  PROVE  /\ Members' = Members
         /\ UNCHANGED <<next, prev>>
         /\ \A u \in Thread : pc'[u] = "publish" <=> pc[u] = "publish"
         /\ \A u \in Thread : pc[u] = "publish" => ptr'[u] = ptr[u]
<1>. USE DEF Step, Environment, Lookup, WalkOn, WalkFinds, CheckMisses, GetStarts,
       GetReturnsNull, P, AfterP, V, Modify, Clear, InsertAlone, InsertLink,
       InsertPublish, UpdateFits, UpdateOverflows, Respond, Request, Fetch, FetchFails
<1>1. \A u \in Thread : Holds(u)' <=> Holds(u)
  BY ConstantsOK DEF Inv, TypeOK, Holds, SemaphoreInv, Critical
<1>2. \A u \in Thread : Holds(u) => ptr'[u] = ptr[u]
  BY ConstantsOK DEF Inv, TypeOK, Holds
<1>3. pc'[t] # "V"
  BY ConstantsOK DEF Inv, TypeOK
<1>4. Members' = Members
  <2>. HIDE DEF Step, Environment
  <2>. QED BY <1>1, <1>2, <1>3, StoredAfter, MembersAre, MembersAfter
<1>5. UNCHANGED <<next, prev>>
  OBVIOUS
<1>6. \A u \in Thread : pc'[u] = "publish" <=> pc[u] = "publish"
  BY ConstantsOK DEF Inv, TypeOK
<1>. QED BY <1>2, <1>4, <1>5, <1>6 DEF Holds

\* clear_cache takes the block of the thread inside out of the list.
LEMMA MembersCleared ==
  ASSUME Inv, Next, NEW t \in Thread, alive, Clear(t)
  PROVE  /\ ptr[t] \in Members
         /\ Members' = Members \ {ptr[t]}
         /\ \A u \in Thread : ~ Holds(u)
         /\ \A u \in Thread : Holds(u)' <=> u = t
         /\ \A u \in Thread : pc[u] # "publish" /\ pc'[u] # "publish"
         /\ ptr' = ptr
<1>1. /\ \A u \in Thread : ~ Holds(u)
      /\ \A u \in Thread : Holds(u)' <=> u = t
      /\ \A u \in Thread : pc[u] # "publish" /\ pc'[u] # "publish"
      /\ ptr' = ptr
  BY DEF Clear, Inv, TypeOK, SemaphoreInv, MutualExclusion, Critical, Holds
<1>2. IsStored(ptr[t])
  BY DEF Clear, Inv, PointerInv
<1>3. ptr[t] \in Members
  BY <1>1, <1>2, MembersAre
<1>4. \A c : IsStored(c)' <=> IsStored(c)
  BY StoredAfter, ConstantsOK DEF Step, Modify, Clear, Inv, TypeOK
<1>5. Members' = Members \ {ptr[t]}
  BY <1>1, <1>4, MembersAre, MembersAfter
<1>. QED BY <1>1, <1>3, <1>5

\* The first half of insert_cache_after_head links nothing in yet.
LEMMA MembersLinked ==
  ASSUME Inv, Next, NEW t \in Thread, alive, InsertLink(t)
  PROVE  /\ ptr[t] \in Thread /\ ptr[t] \notin Members
         /\ Members' = Members
         /\ \A u \in Thread : Holds(u) <=> u = t
         /\ \A u \in Thread : Holds(u)' <=> u = t
         /\ \A u \in Thread : pc[u] # "publish" /\ (pc'[u] = "publish" <=> u = t)
         /\ ptr' = ptr
<1>1. /\ \A u \in Thread : Holds(u) <=> u = t
      /\ \A u \in Thread : Holds(u)' <=> u = t
      /\ \A u \in Thread : pc[u] # "publish" /\ (pc'[u] = "publish" <=> u = t)
      /\ ptr' = ptr
  BY DEF InsertLink, Inv, TypeOK, SemaphoreInv, MutualExclusion, Critical, Holds
<1>2. \A c : IsStored(c)' <=> IsStored(c)
  BY StoredAfter, ConstantsOK DEF Step, Modify, InsertLink, Inv, TypeOK
<1>3. Members' = Members /\ ptr[t] \notin Members
  BY <1>1, <1>2, MembersAre, MembersAfter
<1>4. ptr[t] \in Thread
  BY ConstantsOK DEF Inv, PointerInv, InsertLink, IsStored
<1>. QED BY <1>1, <1>3, <1>4

\* An insertion, of a new block or of a moved one, adds it to the list.
LEMMA MembersInserted ==
  ASSUME Inv, Next, NEW t \in Thread, alive, InsertAlone(t) \/ InsertPublish(t)
  PROVE  /\ ptr[t] \in Thread /\ ptr[t] \notin Members
         /\ Members' = Members \cup {ptr[t]}
         /\ \A u \in Thread : Holds(u) <=> u = t
         /\ \A u \in Thread : ~ Holds(u)'
         /\ \A u \in Thread : pc'[u] # "publish"
         /\ ptr' = ptr
<1>. DEFINE b == ptr[t]
<1>1. /\ \A u \in Thread : Holds(u) <=> u = t
      /\ \A u \in Thread : ~ Holds(u)'
      /\ \A u \in Thread : pc'[u] # "publish"
      /\ ptr' = ptr
  <2>1. pc[t] \in {"insert", "publish"} /\ pc' = [pc EXCEPT ![t] = "V"] /\ ptr' = ptr
    BY DEF InsertAlone, InsertPublish
  <2>2. \A u \in Thread : pc[u] \in Critical => u = t
    BY <2>1 DEF Inv, SemaphoreInv, MutualExclusion, Critical
  <2>. HIDE DEF InsertAlone, InsertPublish
  <2>. QED BY <2>1, <2>2 DEF Inv, TypeOK, Critical, Holds
<1>2. \A c : IsStored(c)' <=> IsStored(c) \/ c = b
  <2>1. \A c : IsStored(c) => IsStored(c)'
    BY StoredStable
  <2>2. pc' = [pc EXCEPT ![t] = "V"] /\ (b = t \/ IsStored(b))
    BY DEF InsertAlone, InsertPublish, Inv, PointerInv
  <2>3. \A c : c = b => IsStored(c)'
    BY <1>1, <2>1, <2>2 DEF IsStored, Stored, Inv, TypeOK
  <2>4. ASSUME NEW c, IsStored(c)', c # t PROVE IsStored(c)
    BY <1>1, <2>2, <2>4 DEF IsStored, Stored, Inv, TypeOK
  <2>5. IsStored(t)' => t = b
    BY <1>1 DEF IsStored, Stored
  <2>. QED BY <2>1, <2>3, <2>4, <2>5
<1>3. Members' = Members \cup {b} /\ b \notin Members
  BY <1>1, <1>2, MembersAre, MembersAfter
<1>4. b \in Thread
  BY ConstantsOK DEF Inv, PointerInv, InsertAlone, InsertPublish, IsStored
<1>. QED BY <1>1, <1>3, <1>4

\* create_block makes a block that is not in the list.
LEMMA MembersCreated ==
  ASSUME Inv, Next, NEW t \in Thread, alive, UpdateFits(t)
  PROVE  /\ t \notin Members
         /\ Members' = Members
         /\ \A u \in Thread : ~ Holds(u)
         /\ \A u \in Thread : Holds(u)' <=> u = t
         /\ \A u \in Thread : pc[u] # "publish" /\ pc'[u] # "publish"
         /\ ptr'[t] = t
<1>1. /\ \A u \in Thread : ~ Holds(u)
      /\ \A u \in Thread : Holds(u)' <=> u = t
      /\ \A u \in Thread : pc[u] # "publish" /\ pc'[u] # "publish"
      /\ ptr'[t] = t
  BY DEF UpdateFits, Inv, TypeOK, SemaphoreInv, MutualExclusion, Critical, Holds
<1>2. \A c : IsStored(c)' <=> IsStored(c)
  BY StoredAfter, ConstantsOK DEF Step, Modify, UpdateFits, Inv, TypeOK
<1>3. ~ IsStored(t)
  BY DEF UpdateFits, IsStored, Stored
<1>4. Members' = Members /\ t \notin Members
  BY <1>1, <1>2, <1>3, MembersAre, MembersAfter
<1>. QED BY <1>1, <1>4

\* cache_control is called by a thread that holds no block.
LEMMA MembersOverflow ==
  ASSUME Inv, Next, NEW t \in Thread, alive, UpdateOverflows(t)
  PROVE  /\ Members' = Members
         /\ \A u \in Thread : /\ Holds(u)' <=> Holds(u)
                              /\ pc'[u] = "publish" <=> pc[u] = "publish"
<1>1. \A u \in Thread : /\ Holds(u)' <=> Holds(u)
                        /\ pc'[u] = "publish" <=> pc[u] = "publish"
  BY DEF UpdateOverflows, Inv, TypeOK, Holds
<1>2. \A c : IsStored(c)' <=> IsStored(c)
  BY StoredAfter, ConstantsOK DEF Step, Modify, UpdateOverflows, Inv, TypeOK
<1>3. Members' = Members
  BY <1>1, <1>2, MembersAre, MembersAfter DEF UpdateOverflows
<1>. QED BY <1>1, <1>3

\* A step that touches neither links nor members keeps the link invariant.
LEMMA LinkKept ==
  ASSUME LinkInv, Members' = Members, UNCHANGED <<next, prev>>,
         \A u \in Thread : pc'[u] = "publish" <=> pc[u] = "publish",
         \A u \in Thread : pc[u] = "publish" => ptr'[u] = ptr[u]
  PROVE  LinkInv'
BY DEF LinkInv, Quiet

\* clear_cache joins the neighbours of the block that leaves.
LEMMA LinkClear ==
  ASSUME Inv, LinkInv, Next, NEW t \in Thread, alive, Clear(t)
  PROVE  LinkInv'
<1>. DEFINE b == ptr[t]
<1>1. /\ \A u \in Thread : pc[u] # "publish" /\ pc'[u] # "publish"
      /\ b \in Members
      /\ Members' = Members \ {b}
  BY MembersCleared
<1>6. prev[b] \in Members \cup {head} /\ next[prev[b]] = b
  BY <1>1 DEF LinkInv, Quiet
<1>7. Members \subseteq Thread
  BY DEF Members
<1>8. \A c \in Members \cup {head} : c # prev[b] => next[c] # b
  BY <1>1, ConstantsOK, <1>7 DEF LinkInv, Quiet
<1>9. \A c \in Members \cup {head} : next'[c] = IF c = prev[b] THEN next[b] ELSE next[c]
  BY <1>6, <1>7 DEF Clear, Inv, TypeOK
<1>10. \A c \in Members : prev'[c] = IF c = next[b] THEN prev[b] ELSE prev[c]
  BY <1>7, ConstantsOK DEF Clear, Inv, TypeOK
<1>. HIDE DEF b
<1>11. next[b] # NULL => next[b] \in Members /\ prev[next[b]] = b
  BY <1>1, <1>7, ConstantsOK DEF LinkInv, Quiet
<1>12. NULL \notin Members /\ head \notin Members
  BY <1>7, ConstantsOK
<1>. USE DEF LinkInv, Quiet
<1>13. \A c \in Members' \cup {head} : next'[c] # NULL => next'[c] \in Members'
  BY <1>1, <1>8, <1>9, <1>11, <1>12
<1>14. \A c \in Members' \cup {head} : next'[c] # NULL => prev'[next'[c]] = c
  BY <1>1, <1>6, <1>8, <1>9, <1>10, <1>11, <1>12
<1>15. \A c \in Members' : prev'[c] \in Members' \cup {head} /\ next'[prev'[c]] = c
  BY <1>1, <1>6, <1>8, <1>9, <1>10, <1>11, <1>12
<1>. QED BY <1>1, <1>13, <1>14, <1>15

\* The first half of insert_cache_after_head leaves only the first block
\* pointing back at the block to come.
LEMMA LinkLink ==
  ASSUME Inv, LinkInv, Next, NEW t \in Thread, alive, InsertLink(t)
  PROVE  LinkInv'
<1>. DEFINE b == ptr[t]
<1>1. /\ \A u \in Thread : pc[u] # "publish" /\ (pc'[u] = "publish" <=> u = t)
      /\ ptr' = ptr
  BY MembersLinked
<1>3. Members' = Members /\ b \notin Members /\ b \in Thread
  BY MembersLinked
<1>4. Members \subseteq Thread /\ b \in Thread
  BY <1>3 DEF Members
<1>5. next' = [next EXCEPT ![b] = next[head]] /\ prev' = [prev EXCEPT ![next[head]] = b]
  BY DEF InsertLink
<1>6. next[head] \in Members /\ next[head] # NULL
  BY DEF InsertLink, LinkInv
<1>. HIDE DEF b
<1>7. \A c \in Members \cup {head} : next'[c] = next[c]
  BY <1>3, <1>4, <1>5, ConstantsOK DEF Inv, TypeOK
<1>8. next'[b] = next[head] /\ prev'[next[head]] = b
  BY <1>4, <1>5, <1>6 DEF Inv, TypeOK
<1>9. \A c \in Members : c # next[head] => prev'[c] = prev[c]
  BY <1>4, <1>5 DEF Inv, TypeOK
<1>10. \A c \in Members : next[c] # NULL => next[c] # next[head]
  BY <1>1, <1>4, <1>6, ConstantsOK DEF LinkInv, Quiet
<1>11. ptr'[t] = b
  BY <1>1 DEF b
<1>12. NULL \notin Members /\ head \notin Members
  BY <1>4, ConstantsOK
<1>. QED
  BY <1>1, <1>3, <1>6, <1>7, <1>8, <1>9, <1>10, <1>11, <1>12 DEF LinkInv, Quiet

\* The insertion completes the links of the head.
LEMMA LinkInserted ==
  ASSUME Inv, LinkInv, Next, NEW t \in Thread, alive, InsertAlone(t) \/ InsertPublish(t)
  PROVE  LinkInv'
<1>. DEFINE b == ptr[t]
<1>1. /\ \A u \in Thread : Holds(u) <=> u = t
      /\ \A u \in Thread : pc'[u] # "publish"
  BY MembersInserted
<1>3. Members' = Members \cup {b} /\ b \notin Members
  BY MembersInserted
<1>4. Members \subseteq Thread /\ b \in Thread
  BY MembersInserted DEF Members
<1>5. NULL \notin Members' /\ head \notin Members' /\ b # NULL /\ b # head
  BY <1>3, <1>4, ConstantsOK
<1>6. prev' = [prev EXCEPT ![b] = head]
  BY DEF InsertAlone, InsertPublish
<1>. HIDE DEF b
<1>7. prev'[b] = head /\ \A c \in Members : prev'[c] = prev[c]
  BY <1>3, <1>4, <1>6 DEF Inv, TypeOK
<1>8. CASE InsertAlone(t)
  <2>1. next' = [next EXCEPT ![head] = b, ![b] = NULL] /\ next[head] = NULL
    BY <1>8 DEF InsertAlone, b
  <2>2. next'[head] = b /\ next'[b] = NULL /\ \A c \in Members : next'[c] = next[c]
    BY <1>3, <1>4, <1>5, <2>1, ConstantsOK DEF Inv, TypeOK
  <2>3. \A u \in Thread : pc[u] # "publish"
    BY <1>1, <1>8 DEF InsertAlone, Holds
  <2>4. \A c \in Members : prev[c] \in Members /\ next[prev[c]] = c
    BY <1>5, <1>3, <2>1, <2>3 DEF LinkInv, Quiet
  <2>5. \A c \in Members : next[c] # NULL => next[c] \in Members /\ prev[next[c]] = c
    BY <1>5, <1>3, <2>3 DEF LinkInv, Quiet
  <2>. HIDE <1>8
  <2>. QED BY <1>1, <1>3, <1>5, <1>7, <2>2, <2>4, <2>5 DEF LinkInv, Quiet
<1>9. CASE InsertPublish(t)
  <2>1. next' = [next EXCEPT ![head] = b]
    BY <1>9 DEF InsertPublish, b
  <2>2. next'[head] = b /\ next'[b] = next[b] /\ \A c \in Members : next'[c] = next[c]
    BY <1>3, <1>4, <1>5, <2>1, ConstantsOK DEF Inv, TypeOK
  <2>3. next[head] # NULL /\ next[b] = next[head] /\ prev[next[head]] = b
    BY <1>9 DEF InsertPublish, LinkInv, b
  <2>4. next[head] \in Members
    BY <2>3 DEF LinkInv
  <2>. QED BY <1>1, <1>3, <1>5, <1>7, <2>2, <2>3, <2>4 DEF LinkInv, Quiet
<1>. QED BY <1>8, <1>9

\* A new block has no links and no neighbours yet.
LEMMA LinkCreated ==
  ASSUME Inv, LinkInv, Next, NEW t \in Thread, alive, UpdateFits(t)
  PROVE  LinkInv'
<1>1. \A u \in Thread : pc[u] # "publish" /\ pc'[u] # "publish"
  BY MembersCreated
<1>4. Members' = Members /\ t \notin Members
  BY MembersCreated
<1>5. Members \subseteq Thread
  BY DEF Members
<1>6. /\ \A c \in Members \cup {head} : next'[c] = next[c]
      /\ \A c \in Members : prev'[c] = prev[c]
  BY <1>4, <1>5, ConstantsOK DEF UpdateFits, Inv, TypeOK
<1>7. NULL \notin Members /\ head \notin Members
  BY <1>5, ConstantsOK
<1>. QED BY <1>1, <1>4, <1>6, <1>7 DEF LinkInv, Quiet

\* Every store keeps the links of the list as LinkInv has them.
THEOREM LinkInvariance == Spec => []LinkInv
<1>1. Init => LinkInv
  <2>1. Init => Members = {}
    BY ConstantsOK DEF Init, Members, Stored
  <2>2. Init => Quiet /\ next[head] = NULL
    BY ConstantsOK DEF Init, Quiet
  <2>. QED BY <2>1, <2>2 DEF LinkInv, Quiet
<1>2. ASSUME Inv, LinkInv, NEW t \in Thread, Step(t) \/ Environment(t) PROVE LinkInv'
  <2>1. Next
    BY <1>2 DEF Next
  <2>2. CASE pc[t] \notin {"clear", "insert", "publish", "update"}
    BY <1>2, <2>1, <2>2, MembersKept, LinkKept
  <2>3. CASE pc[t] \in {"clear", "insert", "publish", "update"}
    <3>1. alive /\ Modify(t)
      BY <1>2, <2>3 DEF Step, Environment, Lookup, WalkOn, WalkFinds, CheckMisses, GetStarts,
         GetReturnsNull, P, AfterP, V, Respond, Request, Fetch, FetchFails
    <3>2. CASE UpdateOverflows(t)
      BY <1>2, <2>1, <3>1, <3>2, MembersOverflow, LinkKept DEF UpdateOverflows
    <3>. QED BY <1>2, <2>1, <3>1, <3>2, LinkClear, LinkLink, LinkInserted, LinkCreated DEF Modify
  <2>. QED BY <2>2, <2>3
<1>3. Inv /\ LinkInv /\ UNCHANGED vars => LinkInv'
  BY DEF vars, LinkInv, Members, Stored, Holds, Quiet
<1>4. Inv /\ LinkInv /\ [Next]_vars => LinkInv'
  BY <1>2, <1>3 DEF Next
<1>. QED BY <1>1, <1>4, Invariance, PTL DEF Spec

\* The two links of neighbouring blocks agree after every store.
THEOREM LinksConsistent == Spec => []LinksAgree
<1>1. Inv /\ LinkInv => LinksAgree
  <2>. SUFFICES ASSUME Inv, LinkInv, NEW b \in Members \cup {head}, next[b] # NULL
                PROVE  next[b] \in Members /\ Follows(b, next[b])
    BY DEF LinksAgree
  <2>1. next[b] \in Members
    BY DEF LinkInv
  <2>2. ASSUME NEW t \in Thread, pc[t] = "publish"
        PROVE  (CHOOSE u \in Thread : pc[u] = "publish") = t
    BY <2>2 DEF Inv, SemaphoreInv, MutualExclusion, Critical
  <2>3. CASE b = head /\ \E t \in Thread : pc[t] = "publish"
    BY <2>1, <2>2, <2>3 DEF LinkInv, Follows
  <2>4. CASE b # head \/ ~ \E t \in Thread : pc[t] = "publish"
    BY <2>1, <2>4 DEF LinkInv, Follows, Quiet
  <2>. QED BY <2>1, <2>3, <2>4
<1>. QED BY <1>1, Invariance, LinkInvariance, PTL

-----------------------------------------------------------------------------
(* The totals. *)

\* The blocks in the list are finitely many and have sizes.
LEMMA MembersFinite ==
  ASSUME Inv
  PROVE  /\ IsFiniteSet(Members)
         /\ Members \subseteq Thread
         /\ \A b \in Thread : size[b] \in Int
<1>1. Members \subseteq Thread
  BY DEF Members
<1>2. IsFiniteSet(Members)
  BY <1>1, FS_Subset, ConstantsOK
<1>3. \A b \in Thread : size[b] \in Int
  <2>1. \A n \in ObjectSize \cup {0} : n \in Int
    BY ConstantsOK, SMT
  <2>. QED BY <2>1 DEF Inv, TypeOK
<1>. QED BY <1>1, <1>2, <1>3

\* A step that changes neither the list nor the two totals keeps them right,
\* though it may fetch an object that is not stored yet.
LEMMA TotalsKept ==
  ASSUME Inv, TotalsRight, Members' = Members, UNCHANGED <<cache_size, block_cnt>>,
         \A b \in Members : size'[b] = size[b]
  PROVE  TotalsRight'
<1>1. SumFunctionOnSet(size, Members) = SumFunctionOnSet(size', Members)
  BY MembersFinite, SumSame
<1>. QED BY <1>1 DEF TotalsRight

\* A block enters: insert_cache_after_head counts it and adds its size.
LEMMA TotalsInserted ==
  ASSUME Inv, TotalsRight, Next, NEW t \in Thread, alive,
         InsertAlone(t) \/ InsertPublish(t)
  PROVE  TotalsRight'
<1>. DEFINE b == ptr[t]
<1>1. b \in Thread /\ b \notin Members /\ Members' = Members \cup {b}
  BY MembersInserted
<1>2. size' = size /\ cache_size' = cache_size + size[b] /\ block_cnt' = block_cnt + 1
  BY DEF InsertAlone, InsertPublish
<1>. HIDE DEF b
<1>3. Cardinality(Members \cup {b}) = Cardinality(Members) + 1
  BY <1>1, MembersFinite, FS_AddElement
<1>4. /\ SumFunctionOnSet(size, Members \cup {b}) = size[b] + SumFunctionOnSet(size, Members)
      /\ SumFunctionOnSet(size, Members) \in Int
  BY <1>1, MembersFinite, SumAdd
<1>5. size[b] \in Int
  BY <1>1, MembersFinite
<1>. QED BY <1>1, <1>2, <1>3, <1>4, <1>5 DEF TotalsRight

\* A block leaves: clear_cache takes the same off again.
LEMMA TotalsCleared ==
  ASSUME Inv, TotalsRight, Next, NEW t \in Thread, alive, Clear(t)
  PROVE  TotalsRight'
<1>. DEFINE b == ptr[t]
<1>. DEFINE rest == Members \ {b}
<1>1. b \in Members /\ Members' = rest
  BY MembersCleared
<1>2. size' = size /\ cache_size' = cache_size - size[b] /\ block_cnt' = block_cnt - 1
  BY DEF Clear
<1>3. b \notin rest /\ rest \cup {b} = Members /\ rest \subseteq Members
  BY <1>1
<1>. HIDE DEF b, rest
<1>4. IsFiniteSet(rest)
  BY <1>3, MembersFinite, FS_Subset
<1>5. /\ Cardinality(Members) = Cardinality(rest) + 1
      /\ Cardinality(rest) \in Nat
  BY <1>3, <1>4, FS_AddElement, FS_CardinalityType
<1>6. /\ SumFunctionOnSet(size, rest \cup {b}) = size[b] + SumFunctionOnSet(size, rest)
      /\ SumFunctionOnSet(size, rest) \in Int
  <2>1. \A x \in rest \cup {b} : size[x] \in Int
    BY <1>3, MembersFinite
  <2>. QED BY <1>3, <1>4, <2>1, SumAdd
<1>7. size[b] \in Int
  BY <1>1, MembersFinite
<1>8. block_cnt' = Cardinality(rest)
  <2>1. block_cnt = Cardinality(rest) + 1
    BY <1>5 DEF TotalsRight
  <2>. QED BY <1>2, <1>5, <2>1
<1>9. cache_size' = SumFunctionOnSet(size, rest)
  <2>1. cache_size = size[b] + SumFunctionOnSet(size, rest)
    BY <1>3, <1>6 DEF TotalsRight
  <2>. QED BY <1>2, <1>6, <1>7, <2>1
<1>. QED BY <1>1, <1>2, <1>8, <1>9 DEF TotalsRight

\* cache_size and block_cnt always count exactly the blocks in the list, so
\* that cache_update decides on the true size: what clear_cache takes off is
\* what insert_cache_after_head put on.
THEOREM TotalsCorrect == Spec => []TotalsRight
<1>1. Init => TotalsRight
  <2>1. Init => Members = {} /\ cache_size = 0 /\ block_cnt = 0
    BY ConstantsOK DEF Init, Members, Stored
  <2>. QED BY <2>1, SumEmpty, FS_EmptySet DEF TotalsRight
<1>2. ASSUME Inv, TotalsRight, NEW t \in Thread, Step(t) \/ Environment(t) PROVE TotalsRight'
  <2>1. Next
    BY <1>2 DEF Next
  <2>2. CASE pc[t] \notin {"clear", "insert", "publish", "update"}
    <3>1. Members' = Members
      BY <1>2, <2>1, <2>2, MembersKept
    <3>2. /\ UNCHANGED <<cache_size, block_cnt>>
          /\ \A b \in Thread : pc[b] # "fetch" => size'[b] = size[b]
      BY <1>2, <2>2 DEF Step, Environment, Lookup, WalkOn, WalkFinds, CheckMisses, GetStarts,
         GetReturnsNull, P, AfterP, V, Modify, Clear, InsertAlone, InsertLink, InsertPublish,
         UpdateFits, UpdateOverflows, Respond, Request, Fetch, FetchFails, Inv, TypeOK
    <3>3. \A b \in Members : b \in Thread /\ pc[b] # "fetch"
      BY DEF Members, Stored
    <3>. QED BY <1>2, <3>1, <3>2, <3>3, TotalsKept
  <2>3. CASE pc[t] \in {"clear", "insert", "publish", "update"}
    <3>1. alive /\ Modify(t)
      BY <1>2, <2>3 DEF Step, Environment, Lookup, WalkOn, WalkFinds, CheckMisses, GetStarts,
         GetReturnsNull, P, AfterP, V, Respond, Request, Fetch, FetchFails
    <3>2. CASE InsertLink(t)
      <4>1. Members' = Members /\ UNCHANGED <<cache_size, block_cnt, size>>
        BY <1>2, <2>1, <3>1, <3>2, MembersLinked DEF InsertLink
      <4>. QED BY <1>2, <4>1, TotalsKept
    <3>3. CASE UpdateFits(t)
      <4>1. Members' = Members /\ UNCHANGED <<cache_size, block_cnt, size>>
        BY <1>2, <2>1, <3>1, <3>3, MembersCreated DEF UpdateFits
      <4>. QED BY <1>2, <4>1, TotalsKept
    <3>4. CASE UpdateOverflows(t)
      <4>1. Members' = Members /\ UNCHANGED <<cache_size, block_cnt, size>>
        BY <1>2, <2>1, <3>1, <3>4, MembersOverflow DEF UpdateOverflows
      <4>. QED BY <1>2, <4>1, TotalsKept
    <3>. QED BY <1>2, <2>1, <3>1, <3>2, <3>3, <3>4, TotalsCleared, TotalsInserted DEF Modify
  <2>. QED BY <2>2, <2>3
<1>3. Inv /\ TotalsRight /\ UNCHANGED vars => TotalsRight'
  BY DEF vars, TotalsRight, Members, Stored, Holds
<1>4. Inv /\ TotalsRight /\ [Next]_vars => TotalsRight'
  BY <1>2, <1>3 DEF Next
<1>. QED BY <1>1, <1>4, Invariance, PTL DEF Spec

-----------------------------------------------------------------------------
(* The list as a sequence. *)

\* The block a walk that has met the first k blocks of q looks at last.
Before(q, k) == IF k = 1 THEN head ELSE q[k - 1]

\* q is what a walk from the sentinel meets, and it meets no block twice.
IsChain(q) ==
  /\ q \in Seq(Thread)
  /\ Len(q) <= Cardinality(Thread)
  /\ \A k \in 1 .. Len(q) : next[Before(q, k)] = q[k]
  /\ next[Before(q, Len(q) + 1)] = NULL

\* Chain finds every sequence of that kind: its cut-off cuts off nothing.
LEMMA ChainIs == \A q : IsChain(q) => Chain = q
<1>. SUFFICES ASSUME NEW q, IsChain(q) PROVE Chain = q
  OBVIOUS
<1>. DEFINE l == Len(q)
<1>. DEFINE n == Cardinality(Thread) + 1
<1>. DEFINE G == [k \in 0 .. n |-> IF k <= l THEN SubSeq(q, 1, k) ELSE q]
<1>. DEFINE Longer(w, k) ==
       LET b == next[IF w = << >> THEN head ELSE w[Len(w)]]
       IN  IF Len(w) < k - 1 \/ b = NULL THEN w ELSE Append(w, b)
<1>1. l \in Nat /\ n \in Nat /\ l < n /\ q \in Seq(Thread)
  BY FS_CardinalityType, ConstantsOK DEF IsChain
<1>2. \A k \in 0 .. l : /\ SubSeq(q, 1, k) \in Seq(Thread)
                        /\ Len(SubSeq(q, 1, k)) = k
                        /\ \A i \in 1 .. k : SubSeq(q, 1, k)[i] = q[i]
  BY <1>1, SubSeqProperties
<1>3. /\ \A k \in 1 .. l : next[Before(q, k)] = q[k] /\ q[k] # NULL
      /\ next[Before(q, l + 1)] = NULL
  BY ConstantsOK, <1>1 DEF IsChain
<1>4. SubSeq(q, 1, 0) = << >> /\ SubSeq(q, 1, l) = q
  BY <1>1
<1>. HIDE DEF l, n
<1>5. \A k \in 1 .. n : G[k] = Longer(G[k - 1], k)
  <2>. SUFFICES ASSUME NEW k \in 1 .. n PROVE G[k] = Longer(G[k - 1], k)
    OBVIOUS
  <2>1. CASE k <= l
    <3>. DEFINE w == SubSeq(q, 1, k - 1)
    <3>1. w \in Seq(Thread) /\ Len(w) = k - 1 /\ (k > 1 => w[k - 1] = q[k - 1])
      BY <1>1, <1>2, <2>1
    <3>2. (IF w = << >> THEN head ELSE w[Len(w)]) = Before(q, k)
      <4>. HIDE DEF w
      <4>1. w = << >> <=> k = 1
        BY <3>1
      <4>. QED BY <3>1, <4>1 DEF Before
    <3>3. Append(w, q[k]) = SubSeq(q, 1, k)
      <4>. HIDE DEF w
      <4>1. q[k] \in Thread
        BY <1>1, <2>1 DEF l
      <4>2. SubSeq(q, 1, k) \in Seq(Thread) /\ Len(SubSeq(q, 1, k)) = k
        BY <1>1, <1>2, <2>1
      <4>3. \A i \in 1 .. k : Append(w, q[k])[i] = SubSeq(q, 1, k)[i]
        <5>1. \A i \in 1 .. k - 1 : w[i] = q[i]
          BY <1>1, <1>2, <2>1 DEF w
        <5>2. \A i \in 1 .. k : SubSeq(q, 1, k)[i] = q[i]
          BY <1>1, <1>2, <2>1
        <5>. QED BY <3>1, <4>1, <5>1, <5>2
      <4>. QED BY <3>1, <4>1, <4>2, <4>3
    <3>4. G[k - 1] = w /\ G[k] = SubSeq(q, 1, k)
      BY <1>1, <2>1
    <3>. HIDE DEF w, G
    <3>5. Len(w) = k - 1 /\ next[IF w = << >> THEN head ELSE w[Len(w)]] = q[k]
      BY <1>3, <2>1, <3>1, <3>2
    <3>6. ~ (Len(w) < k - 1 \/ q[k] = NULL)
      BY <1>1, <1>3, <2>1, <3>5
    <3>. QED BY <3>3, <3>4, <3>5, <3>6, Zenon
  <2>2. CASE k = l + 1
    <3>1. G[k - 1] = q /\ G[k] = q
      BY <1>1, <1>4, <2>2
    <3>2. (IF q = << >> THEN head ELSE q[Len(q)]) = Before(q, l + 1)
      <4>1. q = << >> <=> l + 1 = 1
        BY <1>1 DEF l
      <4>. QED BY <1>1, <4>1 DEF Before, l
    <3>. HIDE DEF G
    <3>. QED BY <1>3, <3>1, <3>2
  <2>3. CASE k > l + 1
    <3>1. G[k - 1] = q /\ G[k] = q /\ Len(q) < k - 1
      BY <1>1, <2>3 DEF l
    <3>. HIDE DEF G
    <3>. QED BY <3>1
  <2>4. k <= l \/ k = l + 1 \/ k > l + 1
    BY <1>1
  <2>. HIDE DEF G, Longer
  <2>. QED BY <2>1, <2>2, <2>3, <2>4
<1>6. G[0] = << >> /\ G[n] = q
  BY <1>1, <1>4
<1>7. G = [k \in 0 .. n |-> IF k = 0 THEN << >> ELSE Longer(G[k - 1], k)]
  <2>1. \A k \in 0 .. n : k = 0 \/ k \in 1 .. n
    BY <1>1
  <2>2. G = [k \in 0 .. n |-> G[k]]
    OBVIOUS
  <2>. HIDE DEF G, Longer
  <2>. QED BY <1>5, <1>6, <2>1, <2>2
<1>8. Walk = [k \in 0 .. n |-> IF k = 0 THEN << >> ELSE Longer(Walk[k - 1], k)]
  <2>. HIDE DEF G
  <2>. QED BY <1>7 DEF Walk, n
<1>. HIDE DEF G, Longer
<1>. DEFINE Same == {k \in Nat : k <= n => Walk[k] = G[k]}
<1>9. 0 \in Same
  BY <1>1, <1>6, <1>8
<1>10. ASSUME NEW k \in Nat, k \in Same PROVE k + 1 \in Same
  <2>. SUFFICES ASSUME k + 1 <= n PROVE Walk[k + 1] = G[k + 1]
    OBVIOUS
  <2>1. Walk[k] = G[k] /\ k + 1 \in 1 .. n /\ k + 1 # 0 /\ (k + 1) - 1 = k
    BY <1>10, <1>1
  <2>2. Walk[k + 1] = Longer(Walk[k], k + 1)
    BY <1>1, <1>8, <2>1
  <2>3. G[k + 1] = Longer(G[k], k + 1)
    BY <1>5, <2>1
  <2>. QED BY <2>1, <2>2, <2>3
<1>. HIDE DEF Same
<1>11. n \in Same
  BY <1>1, <1>9, <1>10, Induction
<1>. QED BY <1>1, <1>6, <1>11 DEF Same, Chain, n

\* q is the list: what a walk meets are the members, each once.
ListIs(q) == IsChain(q) /\ IsInjective(q) /\ ToSet(q) = Members

ListInv == \E q : ListIs(q)

\* The elements of the list, in order.
LEMMA ListElements ==
  ASSUME NEW q, ListIs(q)
  PROVE  /\ Len(q) \in Nat /\ q \in Seq(Thread)
         /\ \A b : b \in Members <=> \E k \in 1 .. Len(q) : q[k] = b
         /\ \A j, k \in 1 .. Len(q) : q[j] = q[k] => j = k
         /\ \A k \in 1 .. Len(q) + 1 : Before(q, k) \in Members \cup {head}
<1>1. q \in Seq(Thread) /\ Len(q) \in Nat
  BY DEF ListIs, IsChain
<1>2. /\ \A b : b \in Members <=> \E k \in 1 .. Len(q) : q[k] = b
      /\ \A j, k \in 1 .. Len(q) : q[j] = q[k] => j = k
  BY <1>1, ElementsAre DEF ListIs
<1>3. ASSUME NEW k \in 1 .. Len(q) + 1, k # 1 PROVE q[k - 1] \in Members
  BY <1>1, <1>2, <1>3
<1>. QED BY <1>1, <1>2, <1>3 DEF Before

\* A store to a block outside of the list leaves the list as it is.
LEMMA ListKept ==
  ASSUME NEW q, ListIs(q), Members' = Members,
         \A b \in Members \cup {head} : next'[b] = next[b]
  PROVE  ListIs(q)'
<1>1. \A k \in 1 .. Len(q) + 1 : next'[Before(q, k)] = next[Before(q, k)]
  BY ListElements
<1>2. Len(q) \in Nat
  BY ListElements
<1>3. \A k \in 1 .. Len(q) : k \in 1 .. Len(q) + 1
  BY <1>2
<1>4. Len(q) + 1 \in 1 .. Len(q) + 1
  BY <1>2
<1>. QED BY <1>1, <1>3, <1>4 DEF ListIs, IsChain

\* A block that becomes the first one before the whole list.
LEMMA ListInserted ==
  ASSUME Inv, LinkInv, Next, NEW t \in Thread, alive, InsertAlone(t) \/ InsertPublish(t),
         NEW q, ListIs(q), NEW b, b = ptr[t]
  PROVE  ListIs(<<b>> \o q)'
<1>. DEFINE r == <<b>> \o q
<1>. DEFINE l == Len(q)
<1>1. b \in Thread /\ b \notin Members /\ Members' = Members \cup {b}
  BY MembersInserted
<1>2. q \in Seq(Thread) /\ l \in Nat
  BY ListElements
<1>3. /\ r \in Seq(Thread) /\ Len(r) = l + 1 /\ r[1] = b
      /\ \A k \in 1 .. l : r[k + 1] = q[k]
      /\ ToSet(r) = Members'
      /\ IsInjective(r)
  BY <1>1, <1>2, Prepended DEF ListIs
<1>4. Len(r) <= Cardinality(Thread)
  <2>1. ToSet(r) \subseteq Thread
    BY <1>1, <1>3 DEF Members
  <2>2. Cardinality(ToSet(r)) <= Cardinality(Thread)
    BY <2>1, FS_Subset, ConstantsOK
  <2>. HIDE DEF r
  <2>3. Cardinality(ToSet(r)) = Len(r)
    BY <1>3, InjectiveLength
  <2>. QED BY <2>2, <2>3
<1>5. /\ next'[head] = b
      /\ next'[b] = next[head]
      /\ \A c \in Members : next'[c] = next[c]
  <2>1. Members \subseteq Thread /\ head \notin Members /\ b # head
    BY <1>1, ConstantsOK DEF Members
  <2>2. CASE InsertAlone(t)
    <3>1. next' = [next EXCEPT ![head] = b, ![b] = NULL] /\ next[head] = NULL
      BY <2>2 DEF InsertAlone
    <3>. QED BY <1>1, <2>1, <3>1 DEF Inv, TypeOK
  <2>3. CASE InsertPublish(t)
    <3>1. next' = [next EXCEPT ![head] = b] /\ next[b] = next[head]
      BY <2>3 DEF InsertPublish, LinkInv
    <3>. QED BY <1>1, <2>1, <3>1 DEF Inv, TypeOK
  <2>. QED BY <2>2, <2>3
<1>6. /\ \A k \in 1 .. l : next[Before(q, k)] = q[k]
      /\ next[Before(q, l + 1)] = NULL
      /\ \A k \in 1 .. l : q[k] \in Members
  BY ListElements DEF ListIs, IsChain
<1>. HIDE DEF r, l
<1>7. \A k \in 1 .. l + 1 : next'[Before(r, k + 1)] = next[Before(q, k)]
  <2>. SUFFICES ASSUME NEW k \in 1 .. l + 1 PROVE next'[Before(r, k + 1)] = next[Before(q, k)]
    OBVIOUS
  <2>1. CASE k = 1
    BY <1>3, <1>5, <2>1 DEF Before
  <2>2. CASE k # 1
    <3>1. k - 1 \in 1 .. l /\ (k - 1) + 1 = k /\ (k + 1) - 1 = k /\ k + 1 # 1
      BY <1>2, <2>2 DEF l
    <3>2. r[k] = q[k - 1]
      BY <1>3, <3>1
    <3>. QED BY <1>5, <1>6, <2>2, <3>1, <3>2 DEF Before
  <2>. QED BY <2>1, <2>2
<1>8. ASSUME NEW k \in 1 .. l + 1 PROVE next'[Before(r, k)] = r[k]
  <2>1. CASE k = 1
    BY <1>3, <1>5, <2>1 DEF Before
  <2>2. CASE k # 1
    <3>1. k - 1 \in 1 .. l /\ k - 1 \in 1 .. l + 1 /\ (k - 1) + 1 = k
      BY <1>2, <2>2 DEF l
    <3>. QED BY <1>3, <1>6, <1>7, <3>1
  <2>. QED BY <2>1, <2>2
<1>9. next'[Before(r, (l + 1) + 1)] = NULL
  BY <1>2, <1>6, <1>7 DEF l
<1>. QED BY <1>3, <1>4, <1>8, <1>9 DEF ListIs, IsChain, r

\* A block that its neighbours leave out.
LEMMA ListCleared ==
  ASSUME Inv, LinkInv, Next, NEW t \in Thread, alive, Clear(t), NEW q, ListIs(q)
  PROVE  \E i \in 1 .. Len(q) : q[i] = ptr[t] /\ ListIs(RemoveAt(q, i))'
<1>. DEFINE b == ptr[t]
<1>. DEFINE l == Len(q)
<1>1. /\ \A u \in Thread : pc[u] # "publish"
      /\ b \in Members
      /\ Members' = Members \ {b}
  BY MembersCleared
<1>2. q \in Seq(Thread) /\ l \in Nat
  BY ListElements
<1>3. PICK i \in 1 .. l : q[i] = b
  BY <1>1, ListElements
<1>. DEFINE r == RemoveAt(q, i)
<1>4. /\ r \in Seq(Thread) /\ Len(r) = l - 1
      /\ \A k \in 1 .. l - 1 : r[k] = IF k < i THEN q[k] ELSE q[k + 1]
      /\ ToSet(r) = Members'
      /\ IsInjective(r)
  <2>1. IsInjective(q) /\ ToSet(q) = Members /\ i \in 1 .. Len(q)
    BY <1>3 DEF ListIs
  <2>2. /\ RemoveAt(q, i) \in Seq(Thread) /\ Len(RemoveAt(q, i)) = Len(q) - 1
        /\ \A k \in 1 .. Len(q) - 1 : RemoveAt(q, i)[k] = IF k < i THEN q[k] ELSE q[k + 1]
        /\ ToSet(RemoveAt(q, i)) = ToSet(q) \ {q[i]}
        /\ IsInjective(RemoveAt(q, i))
    BY <1>2, <2>1, Removed
  <2>. QED BY <1>1, <1>3, <2>1, <2>2
<1>5. Len(r) <= Cardinality(Thread)
  <2>1. l <= Cardinality(Thread) /\ Cardinality(Thread) \in Nat
    BY FS_CardinalityType, ConstantsOK DEF ListIs, IsChain
  <2>. HIDE DEF l, r
  <2>. QED BY <1>2, <1>4, <2>1 DEF l
<1>6. /\ \A k \in 1 .. l : next[Before(q, k)] = q[k]
      /\ next[Before(q, l + 1)] = NULL
      /\ \A k \in 1 .. l + 1 : Before(q, k) \in Members \cup {head}
      /\ \A j, k \in 1 .. l : q[j] = q[k] => j = k
  BY ListElements DEF ListIs, IsChain
<1>7. /\ prev[b] = Before(q, i)
      /\ \A c \in Members \cup {head} : next'[c] = IF c = Before(q, i) THEN next[b] ELSE next[c]
  <2>1. next[Before(q, i)] = b /\ Before(q, i) \in Members \cup {head} /\ b # NULL
    BY <1>1, <1>2, <1>3, <1>6, ConstantsOK DEF Members
  <2>2. prev[b] = Before(q, i)
    BY <1>1, <2>1 DEF LinkInv, Quiet
  <2>3. next' = [next EXCEPT ![prev[b]] = next[b]]
    BY DEF Clear
  <2>4. Members \cup {head} \subseteq Thread \cup {head}
    BY DEF Members
  <2>. QED BY <2>1, <2>2, <2>3, <2>4 DEF Inv, TypeOK
<1>. HIDE DEF b, l, r
<1>8. Before(q, i + 1) = b
  BY <1>2, <1>3 DEF Before
<1>9. \A k \in 1 .. l + 1 : Before(q, k) = Before(q, i) => k = i
  <2>. SUFFICES ASSUME NEW k \in 1 .. l + 1, Before(q, k) = Before(q, i), k # i PROVE FALSE
    OBVIOUS
  <2>1. next[Before(q, i)] = q[i] /\ q[i] # NULL
    <3>1. q[i] \in Thread
      BY <1>2, <1>3 DEF l
    <3>. QED BY <1>6, <3>1, ConstantsOK
  <2>2. k \in 1 .. l
    BY <1>2, <1>6, <2>1
  <2>. QED BY <1>3, <1>6, <2>1, <2>2
<1>10. ASSUME NEW k \in 1 .. l
       PROVE  next'[Before(r, k)] = IF k < i THEN next[Before(q, k)] ELSE next[Before(q, k + 1)]
  <2>1. CASE k <= i
    <3>1. Before(r, k) = Before(q, k)
      <4>1. k # 1 => k - 1 \in 1 .. l - 1 /\ k - 1 < i
        BY <1>2, <1>3, <2>1
      <4>. QED BY <1>4, <4>1 DEF Before
    <3>2. Before(q, k) \in Members \cup {head} /\ k \in 1 .. l + 1 /\ i \in 1 .. l + 1
      BY <1>2, <1>3, <1>6
    <3>3. CASE k < i
      <4>1. Before(q, k) # Before(q, i)
        BY <1>3, <1>9, <3>2, <3>3
      <4>. QED BY <1>7, <3>1, <3>2, <3>3, <4>1
    <3>4. CASE k = i
      BY <1>3, <1>7, <1>8, <3>1, <3>2, <3>4
    <3>. QED BY <1>3, <2>1, <3>3, <3>4
  <2>2. CASE k > i
    <3>1. k - 1 \in 1 .. l - 1 /\ ~ k - 1 < i /\ (k - 1) + 1 = k /\ k # 1 /\ k + 1 # 1
          /\ (k + 1) - 1 = k /\ k + 1 \in 1 .. l + 1
      BY <1>2, <1>3, <2>2
    <3>2. Before(r, k) = Before(q, k + 1)
      BY <1>4, <3>1 DEF Before
    <3>3. Before(q, k + 1) # Before(q, i)
      BY <1>9, <1>3, <2>2, <3>1
    <3>. QED BY <1>3, <1>6, <1>7, <2>2, <3>1, <3>2, <3>3
  <2>. QED BY <1>3, <2>1, <2>2
<1>11. ASSUME NEW k \in 1 .. l - 1 PROVE next'[Before(r, k)] = r[k]
  <2>1. k \in 1 .. l /\ k + 1 \in 1 .. l
    BY <1>2
  <2>. QED BY <1>4, <1>6, <1>10, <2>1
<1>12. next'[Before(r, (l - 1) + 1)] = NULL
  <2>1. (l - 1) + 1 = l /\ l \in 1 .. l /\ ~ l < i
    BY <1>2, <1>3
  <2>. QED BY <1>6, <1>10, <2>1
<1>13. ListIs(r)'
  BY <1>4, <1>5, <1>11, <1>12 DEF ListIs, IsChain
<1>. QED BY <1>3, <1>13 DEF b, l, r

\* What LRUList sees: the list, with the block that is being moved in front.
OrderFollowsList ==
  \A q : ListIs(q) =>
    /\ (\A t \in Thread : Holds(t) => IsUpdate(t)) => Order = q
    /\ \A t \in Thread : Holds(t) /\ ~ IsUpdate(t) => Order = <<ptr[t]>> \o q

LEMMA OrderNow == Inv => OrderFollowsList
<1>. USE DEF OrderFollowsList
<1>. SUFFICES ASSUME Inv, NEW q, ListIs(q)
              PROVE  /\ (\A t \in Thread : Holds(t) => IsUpdate(t)) => Order = q
                     /\ \A t \in Thread : Holds(t) /\ ~ IsUpdate(t) => Order = <<ptr[t]>> \o q
  OBVIOUS
<1>1. Chain = q
  BY ChainIs DEF ListIs
<1>2. ASSUME NEW t \in Thread, Holds(t)
      PROVE  (CHOOSE u \in Thread : Holds(u)) = t
  BY <1>2 DEF Inv, SemaphoreInv, MutualExclusion, Critical, Holds
<1>. QED BY <1>1, <1>2 DEF Order

LEMMA OrderAfter == Inv' => OrderFollowsList'
BY OrderNow, PTL

\* LRUList has its own copies of the sequence operators.
LEMMA SameOperators ==
  /\ \A s : Abstract!ToSet(s) = ToSet(s)
  /\ \A s, i : Abstract!RemoveAt(s, i) = RemoveAt(s, i)
BY DEF Abstract!ToSet, ToSet, Abstract!RemoveAt, RemoveAt

\* The last halves of the list operations, and the abstract steps they take:
\* the block that was created is added, the one being moved is in place already.
LEMMA InsertedOrder ==
  ASSUME Inv, Inv', LinkInv, Next, NEW t \in Thread, alive, InsertAlone(t) \/ InsertPublish(t),
         NEW q, ListIs(q)
  PROVE  /\ \E r : ListIs(r)'
         /\ Abstract!Next \/ Order' = Order
<1>. DEFINE b == ptr[t]
<1>. DEFINE r == <<b>> \o q
<1>1. PICK c : c = b
  OBVIOUS
<1>2. ListIs(<<c>> \o q)'
  BY <1>1, ListInserted
<1>3. /\ \A u \in Thread : Holds(u) <=> u = t
      /\ \A u \in Thread : ~ Holds(u)'
      /\ b \in Thread /\ b \notin Members
  BY MembersInserted
<1>4. Order' = <<c>> \o q
  <2>1. OrderFollowsList'
    BY OrderAfter
  <2>. QED BY <1>2, <1>3, <2>1 DEF OrderFollowsList
<1>5. CASE IsUpdate(t)
  <2>1. Order = q
    BY <1>3, <1>5, OrderNow DEF OrderFollowsList
  <2>2. b \notin ToSet(q)
    BY <1>3 DEF ListIs
  <2>3. Abstract!Add(b)
    BY <1>1, <1>4, <2>1, <2>2, SameOperators DEF Abstract!Add
  <2>. QED BY <1>2, <1>3, <2>3 DEF Abstract!Next
<1>6. CASE ~ IsUpdate(t)
  BY <1>1, <1>2, <1>3, <1>4, <1>6, OrderNow DEF OrderFollowsList
<1>. QED BY <1>5, <1>6

\* clear_cache: to LRUList the block moves to the front at once.
LEMMA ClearedOrder ==
  ASSUME Inv, Inv', LinkInv, Next, NEW t \in Thread, alive, Clear(t), NEW q, ListIs(q)
  PROVE  /\ \E r : ListIs(r)'
         /\ Abstract!Next
<1>1. PICK i \in 1 .. Len(q) : q[i] = ptr[t] /\ ListIs(RemoveAt(q, i))'
  BY ListCleared
<1>2. /\ ptr[t] \in Members
      /\ \A u \in Thread : ~ Holds(u)
      /\ \A u \in Thread : Holds(u)' <=> u = t
      /\ ptr' = ptr
  BY MembersCleared
<1>3. ~ IsUpdate(t)'
  BY <1>2 DEF Clear, Inv, PointerInv, IsStored, Stored, IsUpdate
<1>4. Order' = <<ptr[t]>> \o RemoveAt(q, i)
  <2>1. OrderFollowsList'
    BY OrderAfter
  <2>. QED BY <1>1, <1>2, <1>3, <2>1 DEF OrderFollowsList
<1>5. Order = q
  BY <1>2, OrderNow DEF OrderFollowsList
<1>6. i \in DOMAIN q
  BY <1>1, ListElements
<1>7. ptr[t] \in Thread
  BY <1>2 DEF Members
<1>8. Abstract!Touch(ptr[t])
  BY <1>1, <1>4, <1>5, <1>6, SameOperators DEF Abstract!Touch
<1>. QED BY <1>1, <1>7, <1>8 DEF Abstract!Next

\* Every other step leaves the list as it was, for LRUList, too.
LEMMA QuietOrder ==
  ASSUME Inv, Inv', NEW q, ListIs(q), Members' = Members,
         \A b \in Members \cup {head} : next'[b] = next[b],
         \A u \in Thread : Holds(u)' <=> Holds(u),
         \A u \in Thread : Holds(u) => ptr'[u] = ptr[u]
  PROVE  (\E r : ListIs(r)') /\ Order' = Order
<1>1. ListIs(q)'
  BY ListKept
<1>2. OrderFollowsList /\ OrderFollowsList'
  BY OrderNow, OrderAfter
<1>. USE DEF OrderFollowsList
<1>3. \A u \in Thread : Holds(u) => (IsUpdate(u)' <=> IsUpdate(u))
  BY DEF IsUpdate
<1>4. CASE \A u \in Thread : Holds(u) => IsUpdate(u)
  BY <1>1, <1>2, <1>3, <1>4, OrderNow DEF OrderFollowsList
<1>5. ASSUME NEW u \in Thread, Holds(u), ~ IsUpdate(u) PROVE Order' = Order
  <2>1. Order = <<ptr[u]>> \o q
    BY <1>5, OrderNow DEF OrderFollowsList
  <2>2. Order' = <<ptr'[u]>> \o q
    BY <1>1, <1>2, <1>3, <1>5
  <2>. QED BY <1>5, <2>1, <2>2
<1>. QED BY <1>1, <1>4, <1>5

\* One step of the proxy, of whatever thread.
LEMMA ListStep ==
  ASSUME Inv, Inv', LinkInv, ListInv, NEW t \in Thread, Step(t) \/ Environment(t)
  PROVE  ListInv' /\ (Abstract!Next \/ Order' = Order)
<1>. PICK q : ListIs(q)
  BY DEF ListInv
<1>1. Next
  BY DEF Next
<1>. USE DEF ListInv
<1>2. CASE pc[t] \notin {"clear", "insert", "publish", "update"}
  <2>1. Members' = Members /\ UNCHANGED next
    BY <1>1, <1>2, MembersKept
  <2>2. \A u \in Thread : /\ Holds(u)' <=> Holds(u)
                          /\ Holds(u) => ptr'[u] = ptr[u]
    BY <1>2, ConstantsOK DEF Step, Environment, Lookup, WalkOn, WalkFinds, CheckMisses,
       GetStarts, GetReturnsNull, P, AfterP, V, Modify, Clear, InsertAlone, InsertLink,
       InsertPublish, UpdateFits, UpdateOverflows, Respond, Request, Fetch, FetchFails,
       Inv, TypeOK, Holds, SemaphoreInv, Critical
  <2>. QED BY <2>1, <2>2, QuietOrder
<1>3. CASE pc[t] \in {"clear", "insert", "publish", "update"}
  <2>1. alive /\ Modify(t)
    BY <1>3 DEF Step, Environment, Lookup, WalkOn, WalkFinds, CheckMisses, GetStarts,
       GetReturnsNull, P, AfterP, V, Respond, Request, Fetch, FetchFails
  <2>2. CASE InsertLink(t)
    <3>1. /\ ptr[t] \in Thread /\ ptr[t] \notin Members /\ Members' = Members
          /\ \A u \in Thread : Holds(u)' <=> Holds(u)
          /\ ptr' = ptr
      BY <1>1, <2>1, <2>2, MembersLinked
    <3>2. \A b \in Members \cup {head} : next'[b] = next[b]
      BY <2>2, <3>1, ConstantsOK DEF InsertLink, Inv, TypeOK, Members
    <3>. QED BY <3>1, <3>2, QuietOrder
  <2>3. CASE UpdateFits(t)
    <3>1. /\ t \notin Members /\ Members' = Members
          /\ \A u \in Thread : ~ Holds(u)
          /\ \A u \in Thread : Holds(u)' => u = t
          /\ ptr'[t] = t
      BY <1>1, <2>1, <2>3, MembersCreated
    <3>2. \A b \in Members \cup {head} : next'[b] = next[b]
      BY <2>3, <3>1, ConstantsOK DEF UpdateFits, Inv, TypeOK, Members
    <3>3. ListIs(q)'
      BY <3>1, <3>2, ListKept
    <3>4. OrderFollowsList /\ OrderFollowsList'
      BY OrderNow, OrderAfter
    <3>5. Order' = q /\ Order = q
      BY <3>1, <3>3, <3>4 DEF OrderFollowsList, IsUpdate
    <3>. QED BY <3>3, <3>5
  <2>4. CASE UpdateOverflows(t)
    <3>1. /\ Members' = Members
          /\ \A u \in Thread : Holds(u)' <=> Holds(u)
          /\ ptr' = ptr /\ next' = next
      BY <1>1, <2>1, <2>4, MembersOverflow DEF UpdateOverflows
    <3>. QED BY <3>1, QuietOrder
  <2>. QED BY <1>1, <2>1, <2>2, <2>3, <2>4, ClearedOrder, InsertedOrder DEF Modify
<1>. QED BY <1>2, <1>3

\* Nothing is in the list at first.
LEMMA ListInit == Init => ListIs(<< >>)
<1>. SUFFICES ASSUME Init PROVE ListIs(<< >>)
  OBVIOUS
<1>1. Members = {} /\ next[head] = NULL
  BY ConstantsOK DEF Init, Members, Stored
<1>2. Len(<< >>) = 0 /\ << >> \in Seq(Thread) /\ ToSet(<< >>) = {} /\ IsInjective(<< >>)
  BY DEF ToSet, IsInjective
<1>3. 0 <= Cardinality(Thread)
  BY FS_CardinalityType, ConstantsOK
<1>. QED BY <1>1, <1>2, <1>3 DEF ListIs, IsChain, Before

\* The list has the members in some order, and a stutter changes nothing.
THEOREM ListInvariance == Spec => []ListInv
<1>1. Init => ListInv
  BY ListInit DEF ListInv
<1>2. Inv /\ Inv' /\ LinkInv /\ ListInv /\ [Next]_vars => ListInv'
  <2>1. ASSUME ListInv, UNCHANGED vars PROVE ListInv'
    BY <2>1 DEF vars, list, ListInv, ListIs, IsChain, Members, Stored, Holds
  <2>. QED BY <2>1, ListStep DEF Next
<1>. QED BY <1>1, <1>2, Invariance, LinkInvariance, PTL DEF Spec

\* However moves and updates interleave with each other and with the walkers,
\* a walk over the whole list meets the blocks that were stored and are not
\* being moved, and each of them once.
THEOREM NothingLost == Spec => []NoBlockLost
<1>1. ListInv => NoBlockLost
  <2>. SUFFICES ASSUME NEW q, ListIs(q) PROVE NoBlockLost
    BY DEF ListInv
  <2>1. Chain = q
    BY ChainIs DEF ListIs
  <2>2. Cardinality(ToSet(q)) = Len(q)
    BY ListElements, InjectiveLength DEF ListIs
  <2>. QED BY <2>1, <2>2 DEF NoBlockLost, ListIs
<1>. QED BY <1>1, ListInvariance, PTL

\* The list operations of cache.c, several stores each and walked over at any
\* time, do what LRUList says: a hit moves its block to the front at once, an
\* update adds its block in front at once, and no other step shows.
THEOREM RefinesLRUList == Spec => ImplementsLRUList
<1>1. Init => Abstract!Init
  <2>. SUFFICES ASSUME Init PROVE Order = << >>
    BY DEF Abstract!Init
  <2>1. \A t \in Thread : ~ Holds(t)
    BY DEF Init, Holds
  <2>. QED BY <2>1, ListInit, InitInv, OrderNow DEF OrderFollowsList
<1>2. Inv /\ Inv' /\ LinkInv /\ ListInv /\ [Next]_vars => [Abstract!Next]_Order
  <2>1. ASSUME UNCHANGED vars PROVE Order' = Order
    BY <2>1 DEF vars, list, Order, Holds, IsUpdate, Chain, Walk
  <2>. QED BY <2>1, ListStep DEF Next
<1>. QED
  BY <1>1, <1>2, Invariance, LinkInvariance, ListInvariance, PTL
  DEF Spec, ImplementsLRUList, Abstract!Spec
=============================================================================
