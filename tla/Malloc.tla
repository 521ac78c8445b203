------------------------------- MODULE Malloc -------------------------------
(***************************************************************************)
(* The allocator (malloc-lab.c): boundary tags, ten segregated free lists, *)
(* coalescing at once.  One call is one step; the allocator has one thread.*)
(*                                                                         *)
(* Addresses are offsets from the start of the heap, in bytes, and 0 is    *)
(* NULL.  h is the heap: its break, the words that hold tags, the heads of *)
(* the lists and the links in the free blocks.  A word inside a block      *)
(* belongs to its user; reading it as a tag yields Payload, which no       *)
(* correct heap ever does.                                                 *)
(***************************************************************************)
EXTENDS Integers, FiniteSets, Sequences, SequencesExt

CONSTANTS
  CHUNKSIZE,    \* 1024 in the source
  LIMIT,        \* mem_sbrk fails beyond this break
  SIZE_T,       \* size_t counts modulo SIZE_T
  WORD,         \* a tag is an unsigned int, which counts modulo WORD
  Size,         \* the sizes callers ask for
  Count         \* the numbers of elements callers of calloc ask for

ASSUME MallocConstantsOK ==
  /\ CHUNKSIZE \in Nat /\ LIMIT \in Nat /\ SIZE_T \in Nat
  /\ CHUNKSIZE % 32 = 0 /\ CHUNKSIZE >= 96
  /\ WORD \in Nat /\ WORD % 8 = 0 /\ WORD >= 16
  /\ Size \subseteq 0 .. SIZE_T - 1 /\ Count \subseteq 0 .. SIZE_T - 1

WSIZE == 4
DSIZE == 8
MIN_BLK_SIZE == 3 * DSIZE
Seg == 0 .. 9
NULL == 0

VARIABLES
  h,       \* [brk, mem, seg, link]; brk = 0: there is none
  live,    \* live[bp]: the size asked for, for each pointer handed out
  up       \* FALSE once the process died on a bad address

mallocVars == <<h, live, up>>

-----------------------------------------------------------------------------
(* The macros. *)

Smaller(x, y) == IF x < y THEN x ELSE y
Larger(x, y) == IF x > y THEN x ELSE y

ALIGN(p) == 8 * (((p + 7) % SIZE_T) \div 8)

BLK_SIZE(size) ==
  IF size <= 2 * DSIZE THEN MIN_BLK_SIZE ELSE ALIGN((DSIZE + size) % SIZE_T)

\* PACK into a word.  Sizes are multiples of 8: the low bits are free.
Tag(size, alloc) == [size |-> size % WORD, alloc |-> alloc]
Payload == Tag(0, FALSE)

GET(g, p) == IF p \in DOMAIN g.mem THEN g.mem[p] ELSE Payload
HDRP(bp) == bp - WSIZE
SizeAt(g, bp) == GET(g, HDRP(bp)).size
AllocAt(g, bp) == GET(g, HDRP(bp)).alloc
FTRP(g, bp) == bp + SizeAt(g, bp) - DSIZE
NEXT_BLKP(g, bp) == bp + SizeAt(g, bp)
PREV_BLKP(g, bp) == bp - GET(g, bp - DSIZE).size

\* PUT of the header and then, at the place the header says, of the footer.
\* The words between them are payload from now on.  (When both neighbours are
\* free, coalesce puts the footer where the block after ends: the same place,
\* unless the sum is too large for a word.)
PutBlock(g, bp, size, alloc) ==
  LET tag == Tag(size, alloc)
      foot == bp + tag.size - DSIZE
      Tags == {HDRP(bp), foot}
  IN  [g EXCEPT !.mem = [p \in (DOMAIN g.mem \ (HDRP(bp) .. foot)) \cup Tags |->
                           IF p \in Tags THEN tag ELSE g.mem[p]]]

-----------------------------------------------------------------------------
(* The free lists. *)

index_seg(size) ==
  IF size < 33 THEN 0 ELSE IF size < 65 THEN 1 ELSE IF size < 129 THEN 2
  ELSE IF size < 257 THEN 3 ELSE IF size < 513 THEN 4 ELSE IF size < 1025 THEN 5
  ELSE IF size < 2049 THEN 6 ELSE IF size < 4097 THEN 7 ELSE IF size < 8193 THEN 8
  ELSE 9

\* A free block keeps its links in its payload; an allocated one has none.
SetLink(f, bp, link) == [p \in DOMAIN f \cup {bp} |-> IF p = bp THEN link ELSE f[p]]
DropLink(f, bp) == [p \in DOMAIN f \ {bp} |-> f[p]]

add_to_list(g, bp) ==
  LET i == index_seg(SizeAt(g, bp))
      linked == SetLink(g.link, bp, [next |-> g.seg[i], prev |-> NULL])
  IN  [g EXCEPT !.seg[i] = bp,
                !.link = IF g.seg[i] = NULL THEN linked
                         ELSE [linked EXCEPT ![g.seg[i]].prev = bp]]

delete_from_list(g, bp) ==
  LET i == index_seg(SizeAt(g, bp))
      n == g.link[bp].next
      p == g.link[bp].prev
      after == IF n = NULL THEN g.link ELSE [g.link EXCEPT ![n].prev = p]
      both == IF p = NULL THEN after ELSE [after EXCEPT ![p].next = n]
  IN  [g EXCEPT !.seg[i] = IF p = NULL THEN n ELSE @,
                !.link = DropLink(both, bp)]

\* The blocks of list i from its head.
Bucket(g, i) ==
  LET walk[k \in 0 .. LIMIT \div MIN_BLK_SIZE + 1] ==
        IF k = 0 THEN << >>
        ELSE LET w == walk[k - 1]
                 bp == IF w = << >> THEN g.seg[i] ELSE g.link[Last(w)].next
             IN  IF Len(w) < k - 1 \/ bp = NULL THEN w ELSE Append(w, bp)
  IN  walk[LIMIT \div MIN_BLK_SIZE + 1]

-----------------------------------------------------------------------------
(* The helpers. *)

\* Mutant: the block after is not looked at.
coalesce_BackOnly(g, bp) ==
  LET before == PREV_BLKP(g, bp)
      size == SizeAt(g, bp)
  IN  IF GET(g, FTRP(g, before)).alloc
      THEN [heap |-> add_to_list(g, bp), bp |-> bp]
      ELSE [heap |-> add_to_list(PutBlock(delete_from_list(g, before), before,
                                          size + SizeAt(g, before), FALSE), before),
            bp |-> before]

\* Mutant: the merged block is listed under its old size.
coalesce_ListsEarly(g, bp) ==
  LET after == NEXT_BLKP(g, bp)
      size == SizeAt(g, bp)
  IN  IF AllocAt(g, after)
      THEN [heap |-> add_to_list(g, bp), bp |-> bp]
      ELSE [heap |-> PutBlock(add_to_list(delete_from_list(g, after), bp), bp,
                              size + SizeAt(g, after), FALSE),
            bp |-> bp]

\* The four cases: the neighbours that are free leave their lists, the merged
\* block takes their space and enters its own list.
coalesce(g, bp) ==
  LET before == PREV_BLKP(g, bp)
      after == NEXT_BLKP(g, bp)
      prev_alloc == GET(g, FTRP(g, before)).alloc
      next_alloc == AllocAt(g, after)
      size == SizeAt(g, bp)
              + (IF prev_alloc THEN 0 ELSE SizeAt(g, before))
              + (IF next_alloc THEN 0 ELSE SizeAt(g, after))
      first == IF prev_alloc THEN bp ELSE before
      g1 == IF prev_alloc THEN g ELSE delete_from_list(g, before)
      g2 == IF next_alloc THEN g1 ELSE delete_from_list(g1, after)
  IN  [heap |-> add_to_list(PutBlock(g2, first, size, FALSE), first), bp |-> first]

\* extend_heap; bp = NULL when mem_sbrk fails.
extend_heap(g, words) ==
  LET size == (IF words % 2 = 1 THEN words + 1 ELSE words) * WSIZE
      bp == g.brk
      grown == PutBlock([g EXCEPT !.brk = @ + size], bp, size, FALSE)
      end == HDRP(NEXT_BLKP(grown, bp))
      closed == [grown EXCEPT !.mem = [p \in DOMAIN @ \cup {end} |->
                                         IF p = end THEN Tag(0, TRUE) ELSE @[p]]]
  IN  IF g.brk + size > LIMIT THEN [heap |-> g, bp |-> NULL] ELSE coalesce(closed, bp)

\* find_fit: the best of the first four fits in the first list that has one.
FITS == 4

\* The places of the fits in list i.
Fits(g, i, blksize) ==
  LET bps == Bucket(g, i) IN {k \in DOMAIN bps : blksize <= SizeAt(g, bps[k])}

BestOf(g, i, blksize) ==
  LET bps == Bucket(g, i)
      fits == Fits(g, i, blksize)
      looked == {k \in fits : Cardinality({j \in fits : j < k}) < FITS}
  IN  bps[CHOOSE k \in looked : \A j \in looked :
            \/ SizeAt(g, bps[k]) < SizeAt(g, bps[j])
            \/ SizeAt(g, bps[k]) = SizeAt(g, bps[j]) /\ k <= j]

\* Mutant: the search looks at one list only.
find_fit_OneList(g, blksize) ==
  LET i == index_seg(blksize)
  IN  IF Fits(g, i, blksize) = {} THEN NULL ELSE BestOf(g, i, blksize)

find_fit(g, blksize) ==
  LET Useful == {i \in index_seg(blksize) .. 9 : Fits(g, i, blksize) # {}}
  IN  IF Useful = {} THEN NULL
      ELSE BestOf(g, CHOOSE i \in Useful : \A j \in Useful : i <= j, blksize)

\* Mutant: the block stays in its list.
place_StaysListed(g, bp, blksize) ==
  LET freed == SizeAt(g, bp)
      front == PutBlock(g, bp, blksize, TRUE)
      rest == NEXT_BLKP(front, bp)
  IN  IF (freed - blksize) % SIZE_T >= MIN_BLK_SIZE
      THEN add_to_list(PutBlock(front, rest, freed - blksize, FALSE), rest)
      ELSE PutBlock(g, bp, freed, TRUE)

\* place: the block leaves its list; a large enough rest becomes a free block.
\* (The test of the allocated bit reads the block's next link, whose low bit
\* is always 0.)  The rest is not coalesced: what follows it is allocated.
place(g, bp, blksize) ==
  LET freed == SizeAt(g, bp)
      out == delete_from_list(g, bp)
      front == PutBlock(out, bp, blksize, TRUE)
      rest == NEXT_BLKP(front, bp)
  IN  IF (freed - blksize) % SIZE_T >= MIN_BLK_SIZE
      THEN add_to_list(PutBlock(front, rest, freed - blksize, FALSE), rest)
      ELSE PutBlock(out, bp, freed, TRUE)

\* The heap before mm_init.
NoHeap == [brk |-> 0, mem |-> << >>, seg |-> [i \in Seg |-> NULL], link |-> << >>]

\* Prologue, epilogue and empty lists.
EmptyHeap ==
  [brk |-> 4 * WSIZE,
   mem |-> [p \in {WSIZE, 2 * WSIZE, 3 * WSIZE} |->
              IF p = 3 * WSIZE THEN Tag(0, TRUE) ELSE Tag(DSIZE, TRUE)],
   seg |-> [i \in Seg |-> NULL],
   link |-> << >>]

\* mm_init: an empty heap with a first free block.  There may be room for the
\* first only, or for neither; malloc does not look.  (With room for neither
\* heap_listp becomes -1, so mm_init is not called again: it would fail again.)
mm_init ==
  IF EmptyHeap.brk > LIMIT THEN NoHeap
  ELSE extend_heap(EmptyHeap, CHUNKSIZE \div (WSIZE * 4)).heap

-----------------------------------------------------------------------------
(* The calls.  Each is computed as a heap and the pointer it returns. *)

\* malloc on an initialised heap.
Served(g, size) ==
  LET blksize == BLK_SIZE(size)
      fit == find_fit(g, blksize)
      extdsize == Larger(blksize, Smaller(g.brk, CHUNKSIZE))
      more == extend_heap(g, extdsize \div WSIZE)
  IN  IF size = 0 THEN [heap |-> g, bp |-> NULL]
      ELSE IF fit # NULL THEN [heap |-> place(g, fit, blksize), bp |-> fit]
      ELSE IF more.bp = NULL THEN more
      ELSE [heap |-> place(more.heap, more.bp, blksize), bp |-> more.bp]

\* malloc; bp = NULL when there is no memory, or nothing is asked for.
malloc(g, size) == Served(IF g.brk = 0 THEN mm_init ELSE g, size)

free(g, bp) == coalesce(PutBlock(g, bp, SizeAt(g, bp), FALSE), bp).heap

Handed(f, bp, size) == [p \in DOMAIN f \cup {bp} |-> IF p = bp THEN size ELSE f[p]]
Returned(f, bp) == [p \in DOMAIN f \ {bp} |-> f[p]]

MallocInit ==
  /\ h = NoHeap
  /\ live = << >>
  /\ up = TRUE

\* malloc, and realloc of NULL.
Malloc(size) ==
  LET r == malloc(h, size)
  IN  /\ up
      /\ h' = r.heap
      /\ live' = IF r.bp = NULL THEN live ELSE Handed(live, r.bp, size)
      /\ UNCHANGED up

\* free, and realloc to size 0.  (free(NULL) changes nothing.)
Free(bp) ==
  /\ up
  /\ bp \in DOMAIN live
  /\ h' = free(h, bp)
  /\ live' = Returned(live, bp)
  /\ UNCHANGED up

\* Mutant: the old block is freed even if there is no new one.
Realloc_FreesAlways(bp, size) ==
  LET r == malloc(h, size)
  IN  /\ up
      /\ bp \in DOMAIN live /\ size # 0
      /\ h' = free(r.heap, bp)
      /\ live' = IF r.bp = NULL THEN live ELSE Returned(Handed(live, r.bp, size), bp)
      /\ UNCHANGED up

\* realloc: a new block first, then the old one is freed.
Realloc(bp, size) ==
  LET r == malloc(h, size)
  IN  /\ up
      /\ bp \in DOMAIN live /\ size # 0
      /\ h' = IF r.bp = NULL THEN r.heap ELSE free(r.heap, bp)
      /\ live' = IF r.bp = NULL THEN live ELSE Returned(Handed(live, r.bp, size), bp)
      /\ UNCHANGED up

\* calloc: the product wraps, and memset does not look at the pointer.
Calloc(nmemb, size) ==
  LET bytes == (nmemb * size) % SIZE_T
      r == malloc(h, bytes)
  IN  /\ up
      /\ h' = r.heap
      /\ live' = IF r.bp = NULL THEN live ELSE Handed(live, r.bp, nmemb * size)
      /\ up' = (r.bp # NULL \/ bytes = 0)

MallocNext ==
  \/ \E size \in Size : Malloc(size)
  \/ \E bp \in DOMAIN live : Free(bp)
  \/ \E bp \in DOMAIN live, size \in Size : Realloc(bp, size)
  \/ \E nmemb \in Count, size \in Size : Calloc(nmemb, size)

MallocSpec == MallocInit /\ [][MallocNext]_mallocVars

-----------------------------------------------------------------------------
(* Properties. *)

\* The pointers from the prologue on, until a block of size 0.
Walk(g) ==
  LET walk[k \in 0 .. LIMIT \div DSIZE + 1] ==
        IF k = 0 THEN <<DSIZE>>
        ELSE LET w == walk[k - 1]
             IN  IF SizeAt(g, Last(w)) = 0 THEN w
                 ELSE Append(w, NEXT_BLKP(g, Last(w)))
  IN  walk[LIMIT \div DSIZE + 1]

\* The blocks between the prologue and the epilogue.
Blocks(g) == LET w == Walk(g) IN SubSeq(w, 2, Len(w) - 1)
FreeBlocks(g) == {bp \in ToSet(Blocks(g)) : ~ AllocAt(g, bp)}

\* The heap is what mm_checkheap and checkblock want: from the prologue to the
\* epilogue at the break, aligned blocks whose footers repeat their headers,
\* and no two free neighbours.
HeapOK ==
  h.brk # 0 =>
    LET w == Walk(h)
        Inner == 2 .. Len(w) - 1
    IN  /\ SizeAt(h, DSIZE) = DSIZE /\ AllocAt(h, DSIZE)
        /\ Last(w) = h.brk /\ GET(h, HDRP(h.brk)) = Tag(0, TRUE)
        /\ \A k \in Inner :
             /\ w[k] % DSIZE = 0 /\ SizeAt(h, w[k]) >= MIN_BLK_SIZE
             /\ GET(h, HDRP(w[k])) = GET(h, FTRP(h, w[k]))
             /\ AllocAt(h, w[k]) \/ AllocAt(h, w[k + 1])

\* The lists are what checkfreelist wants, and more: each holds free blocks of
\* its sizes only and reads the same backwards, and together they hold every
\* free block of the heap once.
FreeListsOK ==
  /\ h.brk # 0 =>
       \A bp \in FreeBlocks(h) : \E i \in Seg : Contains(Bucket(h, i), bp)
  /\ \A i \in Seg :
       LET bps == Bucket(h, i)
       IN  /\ IsInjective(bps)
           /\ \A k \in 1 .. Len(bps) :
                /\ bps[k] \in FreeBlocks(h)
                /\ index_seg(SizeAt(h, bps[k])) = i
                /\ h.link[bps[k]].prev = IF k = 1 THEN NULL ELSE bps[k - 1]

\* The blocks that are taken are those callers hold, none is lost, and each
\* has room for what its caller asked for besides its two tags.
LiveOK ==
  h.brk # 0 =>
    /\ DOMAIN live = ToSet(Blocks(h)) \ FreeBlocks(h)
    /\ \A bp \in DOMAIN live : live[bp] + DSIZE <= SizeAt(h, bp)

\* What callers are promised: each call returns bytes that nobody else holds, or
\* has a reason not to, and no call takes away what a caller holds.  held and top
\* are the pointers handed out and the break.
Allocated == INSTANCE Allocator WITH held <- live, top <- h.brk

ImplementsAllocator == Allocated!Spec

\* The heap is extended only for a request that no free block could hold.
GrowsOnlyWhenFull ==
  [][\A bp \in DOMAIN live' \ DOMAIN live :
       h.brk # 0 /\ h'.brk > h.brk =>
         \A f \in FreeBlocks(h) : SizeAt(h, f) < BLK_SIZE(live'[bp])]_mallocVars
=============================================================================
