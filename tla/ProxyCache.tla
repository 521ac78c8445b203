----------------------------- MODULE ProxyCache -----------------------------
(***************************************************************************)
(* The shared object cache of the proxy (proxylab-handout/cache.c) under   *)
(* the calls that the connection threads make to it (thread_pro and        *)
(* adjust_cache of proxylab-handout/proxy.c).                              *)
(*                                                                         *)
(* Every thread serves one connection and then ends: it looks the uri up   *)
(* (cache_check), on a hit looks it up again and moves the block to the    *)
(* head (cache_get), on a miss fetches the object and inserts it           *)
(* (cache_update).  The two lookups walk the list without the semaphore,   *)
(* so every load and store of a next field that a walker can see is a step *)
(* of its own.  The Makefile builds without optimisation and the walkers   *)
(* store nothing, hence the interleaving of those steps is what the        *)
(* hardware produces.  Fields read only under the semaphore (prev,         *)
(* cache_size, block_cnt) are written together with the store next to them.*)
(*                                                                         *)
(* A thread calls create_block at most once, so its block carries the name *)
(* of the thread, and the id and size of the block are the uri and size of *)
(* the thread that created it.                                             *)
(***************************************************************************)
EXTENDS Integers, FiniteSets, Sequences, SequencesExt

CONSTANTS
  Thread,            \* the connections accepted in a behaviour (a bound)
  Uri,               \* the uris clients ask for
  ObjectSize,        \* the sizes of the objects servers return
  MAX_CACHE_SIZE,    \* cache.h
  MAX_OBJECT_SIZE,   \* cache.h
  head,              \* the sentinel cache->head
  NULL

ASSUME ConstantsOK ==
  /\ IsFiniteSet(Thread)
  /\ head \notin Thread /\ NULL \notin Thread /\ NULL # head
  /\ Uri # {}
  /\ MAX_CACHE_SIZE \in Nat /\ MAX_OBJECT_SIZE \in Nat
  /\ MAX_OBJECT_SIZE <= MAX_CACHE_SIZE
  /\ ObjectSize \subseteq 0 .. MAX_OBJECT_SIZE

VARIABLES
  next,         \* next[b]: the next field of a block or of the sentinel
  prev,         \* prev[b]: the prev field of a block
  cache_size,   \* cache->cache_size
  block_cnt,    \* cache->block_cnt
  mutex,        \* the value of the semaphore cache->mutex
  pc,           \* where each thread is
  uri,          \* the uri the thread was asked for
  size,         \* the size of the object the thread fetched
  ptr,          \* the thread's list pointer: ptr, block or new_block
  alive         \* FALSE once the process died of a NULL dereference

list == <<next, prev, cache_size, block_cnt>>
vars == <<next, prev, cache_size, block_cnt, mutex, pc, uri, size, ptr, alive>>

\* The threads between a return of P and the matching call of V.
Critical == {"clear", "insert", "publish", "update", "control_P", "evict", "V"}

\* Where a thread blocked in P goes on once sem_wait returns.
AfterP == [move_P |-> "clear", update_P |-> "update", control_P |-> "evict"]

Location == Critical \cup DOMAIN AfterP \cup
            {"idle", "check", "get_start", "get", "respond", "fetch", "done"}

TypeOK ==
  /\ next \in [Thread \cup {head} -> Thread \cup {NULL}]
  /\ prev \in [Thread -> Thread \cup {head, NULL}]
  /\ cache_size \in Int
  /\ block_cnt \in Int
  /\ mutex \in {0, 1}
  /\ pc \in [Thread -> Location]
  /\ uri \in [Thread -> Uri \cup {NULL}]
  /\ size \in [Thread -> ObjectSize \cup {0}]
  /\ ptr \in [Thread -> Thread \cup {NULL}]
  /\ alive \in BOOLEAN

-----------------------------------------------------------------------------
\* cache_init: the sentinel alone, the semaphore at 1.
Init ==
  /\ next = [b \in Thread \cup {head} |-> NULL]
  /\ prev = [b \in Thread |-> NULL]
  /\ cache_size = 0
  /\ block_cnt = 0
  /\ mutex = 1
  /\ pc = [t \in Thread |-> "idle"]
  /\ uri = [t \in Thread |-> NULL]
  /\ size = [t \in Thread |-> 0]
  /\ ptr = [t \in Thread |-> NULL]
  /\ alive = TRUE

Goto(t, l) == pc' = [pc EXCEPT ![t] = l]

-----------------------------------------------------------------------------
(* Lookups, without the semaphore. *)

\* A request for u arrives; cache_check loads cache->head->next.
Request(t, u) ==
  /\ pc[t] = "idle"
  /\ uri' = [uri EXCEPT ![t] = u]
  /\ ptr' = [ptr EXCEPT ![t] = next[head]]
  /\ Goto(t, "check")
  /\ UNCHANGED <<list, mutex, size, alive>>

\* Mutant: the walk does not leave a block that does not match.
WalkOn_Stays(t, from) ==
  /\ pc[t] = from
  /\ ptr[t] # NULL
  /\ uri[ptr[t]] # uri[t]
  /\ UNCHANGED vars

\* One turn of a walk: the block is not the one, follow its next field.
WalkOn(t, from) ==
  /\ pc[t] = from
  /\ ptr[t] # NULL
  /\ uri[ptr[t]] # uri[t]
  /\ ptr' = [ptr EXCEPT ![t] = next[ptr[t]]]
  /\ UNCHANGED <<list, mutex, pc, uri, size, alive>>

\* A walk ends on a block with the uri.
WalkFinds(t, from, to) ==
  /\ pc[t] = from
  /\ ptr[t] # NULL
  /\ uri[ptr[t]] = uri[t]
  /\ Goto(t, to)
  /\ UNCHANGED <<list, mutex, uri, size, ptr, alive>>

\* cache_check returns 0: thread_pro goes to the server.
CheckMisses(t) ==
  /\ pc[t] = "check"
  /\ ptr[t] = NULL
  /\ Goto(t, "fetch")
  /\ UNCHANGED <<list, mutex, uri, size, ptr, alive>>

\* cache_check returned 1: adjust_cache calls cache_get, which starts anew.
GetStarts(t) ==
  /\ pc[t] = "get_start"
  /\ ptr' = [ptr EXCEPT ![t] = next[head]]
  /\ Goto(t, "get")
  /\ UNCHANGED <<list, mutex, uri, size, alive>>

\* cache_get returns NULL and adjust_cache reads cached_object->data.
GetReturnsNull(t) ==
  /\ pc[t] = "get"
  /\ ptr[t] = NULL
  /\ alive' = FALSE
  /\ UNCHANGED <<list, mutex, pc, uri, size, ptr>>

Lookup(t) ==
  \/ WalkOn(t, "check")
  \/ WalkFinds(t, "check", "get_start")
  \/ CheckMisses(t)
  \/ GetStarts(t)
  \/ WalkOn(t, "get")
  \/ WalkFinds(t, "get", "move_P")
  \/ GetReturnsNull(t)

-----------------------------------------------------------------------------
(* The semaphore. *)

\* Mutant: P does not wait.
P_Unguarded(t) ==
  /\ pc[t] \in DOMAIN AfterP
  /\ mutex' = mutex - 1
  /\ Goto(t, AfterP[pc[t]])
  /\ UNCHANGED <<list, uri, size, ptr, alive>>

P(t) ==
  /\ pc[t] \in DOMAIN AfterP
  /\ mutex > 0
  /\ mutex' = mutex - 1
  /\ Goto(t, AfterP[pc[t]])
  /\ UNCHANGED <<list, uri, size, ptr, alive>>

\* cache_update inserts the block it created, cache_move_to_head another one.
IsUpdate(t) == ptr[t] = t

\* Mutant: V is forgotten on the way out.
V_Omitted(t) ==
  /\ pc[t] = "V"
  /\ mutex' = mutex
  /\ Goto(t, IF IsUpdate(t) THEN "done" ELSE "respond")
  /\ UNCHANGED <<list, uri, size, ptr, alive>>

V(t) ==
  /\ pc[t] = "V"
  /\ mutex' = mutex + 1
  /\ Goto(t, IF IsUpdate(t) THEN "done" ELSE "respond")
  /\ UNCHANGED <<list, uri, size, ptr, alive>>

-----------------------------------------------------------------------------
(* The list operations, under the semaphore. *)

\* Mutant: a hit block is inserted again without leaving its old place.
Clear_Skipped(t) ==
  /\ pc[t] = "clear"
  /\ Goto(t, "insert")
  /\ UNCHANGED <<list, mutex, uri, size, ptr, alive>>

\* Mutant: the unlinked block's successor keeps pointing back at it.
Clear_KeepsPrev(t) ==
  LET b == ptr[t] IN
  /\ pc[t] = "clear"
  /\ next' = [next EXCEPT ![prev[b]] = next[b]]
  /\ prev' = prev
  /\ cache_size' = cache_size - size[b]
  /\ block_cnt' = block_cnt - 1
  /\ Goto(t, "insert")
  /\ UNCHANGED <<mutex, uri, size, ptr, alive>>

\* Mutant: the size of the unlinked block is not given back.
Clear_KeepsSize(t) ==
  LET b == ptr[t] IN
  /\ pc[t] = "clear"
  /\ next' = [next EXCEPT ![prev[b]] = next[b]]
  /\ prev' = IF next[b] = NULL THEN prev ELSE [prev EXCEPT ![next[b]] = prev[b]]
  /\ UNCHANGED <<cache_size, block_cnt>>
  /\ Goto(t, "insert")
  /\ UNCHANGED <<mutex, uri, size, ptr, alive>>

\* clear_cache: the block leaves the list but keeps its own two fields.
Clear(t) ==
  LET b == ptr[t] IN
  /\ pc[t] = "clear"
  /\ next' = [next EXCEPT ![prev[b]] = next[b]]
  /\ prev' = IF next[b] = NULL THEN prev ELSE [prev EXCEPT ![next[b]] = prev[b]]
  /\ cache_size' = cache_size - size[b]
  /\ block_cnt' = block_cnt - 1
  /\ Goto(t, "insert")
  /\ UNCHANGED <<mutex, uri, size, ptr, alive>>

\* insert_cache_after_head into an empty list.
InsertAlone(t) ==
  LET b == ptr[t] IN
  /\ pc[t] = "insert"
  /\ next[head] = NULL
  /\ next' = [next EXCEPT ![head] = b, ![b] = NULL]
  /\ prev' = [prev EXCEPT ![b] = head]
  /\ cache_size' = cache_size + size[b]
  /\ block_cnt' = block_cnt + 1
  /\ Goto(t, "V")
  /\ UNCHANGED <<mutex, uri, size, ptr, alive>>

\* Mutant: the two halves of insert_cache_after_head in the other order.
InsertLink_PublishesFirst(t) ==
  LET b == ptr[t] IN
  /\ pc[t] = "insert"
  /\ next[head] # NULL
  /\ next' = [next EXCEPT ![head] = b]
  /\ prev' = [prev EXCEPT ![next[head]] = b]
  /\ Goto(t, "publish")
  /\ UNCHANGED <<cache_size, block_cnt, mutex, uri, size, ptr, alive>>

\* insert_cache_after_head, first half: the block points at the old first.
InsertLink(t) ==
  LET b == ptr[t] IN
  /\ pc[t] = "insert"
  /\ next[head] # NULL
  /\ next' = [next EXCEPT ![b] = next[head]]
  /\ prev' = [prev EXCEPT ![next[head]] = b]
  /\ Goto(t, "publish")
  /\ UNCHANGED <<cache_size, block_cnt, mutex, uri, size, ptr, alive>>

\* insert_cache_after_head, second half: walkers can reach the block.
InsertPublish(t) ==
  LET b == ptr[t] IN
  /\ pc[t] = "publish"
  /\ next' = [next EXCEPT ![head] = b]
  /\ prev' = [prev EXCEPT ![b] = head]
  /\ cache_size' = cache_size + size[b]
  /\ block_cnt' = block_cnt + 1
  /\ Goto(t, "V")
  /\ UNCHANGED <<mutex, uri, size, ptr, alive>>

\* Mutant: the room is computed without the object that is to be stored.
UpdateFits_IgnoresSize(t) ==
  /\ pc[t] = "update"
  /\ cache_size <= MAX_CACHE_SIZE
  /\ next' = [next EXCEPT ![t] = NULL]
  /\ prev' = [prev EXCEPT ![t] = NULL]
  /\ ptr' = [ptr EXCEPT ![t] = t]
  /\ Goto(t, "insert")
  /\ UNCHANGED <<cache_size, block_cnt, mutex, uri, size, alive>>

\* cache_update with P returned, room in the cache: create_block, which finds
\* memory.  The first test of cache_update (size > MAX_OBJECT_SIZE) never holds:
\* thread_pro, the only caller, accumulates no more than MAX_OBJECT_SIZE bytes
\* (ObjectFits of Proxy, for every response).
UpdateFits(t) ==
  /\ pc[t] = "update"
  /\ size[t] + cache_size <= MAX_CACHE_SIZE
  /\ next' = [next EXCEPT ![t] = NULL]
  /\ prev' = [prev EXCEPT ![t] = NULL]
  /\ ptr' = [ptr EXCEPT ![t] = t]
  /\ Goto(t, "insert")
  /\ UNCHANGED <<cache_size, block_cnt, mutex, uri, size, alive>>

\* cache_update with P returned, no room: cache_control, which calls P again.
UpdateOverflows(t) ==
  /\ pc[t] = "update"
  /\ size[t] + cache_size > MAX_CACHE_SIZE
  /\ Goto(t, "control_P")
  /\ UNCHANGED <<list, mutex, uri, size, ptr, alive>>

Modify(t) ==
  \/ Clear(t) \/ InsertAlone(t) \/ InsertLink(t) \/ InsertPublish(t)
  \/ UpdateFits(t) \/ UpdateOverflows(t)

-----------------------------------------------------------------------------
(* The rest of thread_pro. *)

\* adjust_cache writes the block to the client.
Respond(t) ==
  /\ pc[t] = "respond"
  /\ Goto(t, "done")
  /\ UNCHANGED <<list, mutex, uri, size, ptr, alive>>

\* The server sent an object of n bytes: thread_pro calls cache_update.
Fetch(t, n) ==
  /\ pc[t] = "fetch"
  /\ size' = [size EXCEPT ![t] = n]
  /\ Goto(t, "update_P")
  /\ UNCHANGED <<list, mutex, uri, ptr, alive>>

\* The server cannot be reached: thread_pro returns.
FetchFails(t) ==
  /\ pc[t] = "fetch"
  /\ Goto(t, "done")
  /\ UNCHANGED <<list, mutex, uri, size, ptr, alive>>

\* What the thread does without waiting for a client or a server.
Step(t) == alive /\ (Lookup(t) \/ P(t) \/ V(t) \/ Modify(t) \/ Respond(t))

Environment(t) ==
  /\ alive
  /\ \/ \E u \in Uri : Request(t, u)
     \/ \E n \in ObjectSize : Fetch(t, n)
     \/ FetchFails(t)

Next == \E t \in Thread : Step(t) \/ Environment(t)

Spec == Init /\ [][Next]_vars

\* The kernel runs every thread that can run.  A thread blocked in sem_wait
\* is woken after finitely many others only because the number of
\* connections is bounded here: weak fairness is then enough.
FairSpec == Spec /\ \A t \in Thread : WF_vars(Step(t))
-----------------------------------------------------------------------------
(* The list as the properties see it. *)

\* Thread t has unlinked or created the block ptr[t] and not yet linked it in.
Holds(t) == pc[t] \in {"insert", "publish"}

\* The block of thread b has been linked into the list by cache_update.
Stored(b) == ptr[b] = b /\ pc[b] \in {"V", "done"}

Members == {b \in Thread : Stored(b)} \ {ptr[t] : t \in {u \in Thread : Holds(u)}}

\* The blocks a walk from the sentinel meets, cut off once it must be cyclic.
Walk[n \in 0 .. Cardinality(Thread) + 1] ==
  IF n = 0 THEN << >>
  ELSE LET w == Walk[n - 1]
           b == next[IF w = << >> THEN head ELSE w[Len(w)]]
       IN  IF Len(w) < n - 1 \/ b = NULL THEN w ELSE Append(w, b)

Chain == Walk[Cardinality(Thread) + 1]

\* The cached blocks as LRUList sees them: a move happens when the block is
\* unlinked, an insertion when the block can be reached.
Order ==
  IF \E t \in Thread : Holds(t) /\ ~ IsUpdate(t)
  THEN <<ptr[CHOOSE t \in Thread : Holds(t)]>> \o Chain
  ELSE Chain

Abstract == INSTANCE LRUList WITH Block <- Thread, order <- Order

-----------------------------------------------------------------------------
(* Properties. *)

\* At most one thread is between P and V, so at most one is inside the list
\* operations of cache.c, whichever of move_to_head and update it runs.
MutualExclusion ==
  \A t, u \in Thread : pc[t] \in Critical /\ pc[u] \in Critical => t = u

\* A walk from the sentinel (cache_check, cache_get) meets exactly the blocks
\* that were stored and are not being moved, each once: no interleaving of
\* moves and updates loses a block, stores it twice or closes a cycle.
NoBlockLost == ToSet(Chain) = Members /\ Len(Chain) = Cardinality(Members)

\* The prev fields, which clear_cache trusts, name the neighbour that points
\* here.  Only between the two halves of insert_cache_after_head does the
\* first block name the one that is about to precede it.
Follows(a, b) ==
  prev[b] = IF a = head /\ \E t \in Thread : pc[t] = "publish"
            THEN ptr[CHOOSE t \in Thread : pc[t] = "publish"] ELSE a

LinksAgree ==
  \A b \in Members \cup {head} :
    next[b] # NULL => next[b] \in Members /\ Follows(b, next[b])

\* cache_size and block_cnt are the totals of the blocks in the list, though
\* move_to_head takes its block off the totals and puts it back.
TotalsRight ==
  /\ block_cnt = Cardinality(Members)
  /\ cache_size = SumFunctionOnSet(size, Members)

\* "maintain the size of cache within the required MAX_CACHE_SIZE".
WithinMaxCacheSize == cache_size <= MAX_CACHE_SIZE

\* A walker never stands on a block whose fields are still being set: what
\* it can reach was published by a store of next after the other stores.
WalkersSeeWholeBlocks ==
  \A t \in Thread :
    ptr[t] # NULL /\ pc[t] \in {"check", "get", "move_P", "respond"} =>
      Stored(ptr[t])

\* A walker that loses the race with a move is at worst sent back to the head
\* of the list: what lies ahead of it is always finite, so that a lookup ends.
LookupsEnd ==
  \A t \in Thread :
    pc[t] \in {"check", "get"} ~> pc[t] \notin {"check", "get"} \/ ~ alive

\* Every object that was fetched is stored and every hit is answered, however
\* the threads contend for the semaphore, as long as no update overflows the
\* cache (whose thread then waits for itself).
WorkEnds ==
  \A t \in Thread :
    pc[t] \in {"move_P", "update_P"} ~>
      pc[t] = "done" \/ ~ alive \/ \E u \in Thread : pc[u] = "control_P"

\* The list operations, each several stores, implement atomic Touch and Add.
ImplementsLRUList == Abstract!Spec

-----------------------------------------------------------------------------
(* What the comments promise and the code does not do. *)

\* adjust_cache: "send the request information from cache when the requested
\* information (url) is in the cache".  cache_check has just found it, so
\* cache_get should find it, too, and not return NULL.
HitIsFound == alive

\* cache.c: "cache web content using LRU policy", and cache_control: "maintain
\* the size of cache within the required MAX_CACHE_SIZE".  A thread whose object
\* does not fit should come to the loop that takes old blocks out, and its store
\* should end.
OverflowEvicts ==
  \A t \in Thread : pc[t] = "control_P" ~> pc[t] \in {"evict", "done"} \/ ~ alive
=============================================================================
