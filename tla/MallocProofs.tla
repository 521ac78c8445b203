---------------------------- MODULE MallocProofs ----------------------------
(***************************************************************************)
(* Malloc for any heap whose sizes fit a tag, and any requests that        *)
(* BLK_SIZE can round up.                                                  *)
(*                                                                         *)
(* The properties walk the heap and the lists; the proofs name what such a *)
(* walk meets: the set P of the blocks (Shape: their tags tile the heap)   *)
(* and the set of those that are listed (ListsHold).  Each helper is shown *)
(* to change these as it should, each call to keep them, and the walks to  *)
(* meet just them.                                                         *)
(***************************************************************************)
EXTENDS Malloc, DataLemmas

-----------------------------------------------------------------------------
(* Tags. *)

\* The heap ends before its sizes outgrow a tag; beyond that PUT cuts them off.
TagsFit == LIMIT <= WORD

LEMMA ModSmall == \A x, m \in Nat : x < m => x % m = x
OBVIOUS

LEMMA TagIs == \A n \in Nat : n < WORD => n % WORD = n
BY ModSmall, MallocConstantsOK

\* The tags of the prologue and the epilogue.
LEMMA EndTags == 8 % WORD = 8 /\ 0 % WORD = 0
<1>1. 8 \in Nat /\ 0 \in Nat /\ 8 < WORD /\ 0 < WORD
  BY MallocConstantsOK
<1>. QED BY <1>1, TagIs

IsHeap(g) ==
  /\ g = [brk |-> g.brk, mem |-> g.mem, seg |-> g.seg, link |-> g.link]
  /\ g.brk \in Nat

\* What PutBlock changes, and what it does not.
IsPut(k, g, bp, n, a) ==
  /\ IsHeap(k) /\ k.brk = g.brk /\ k.seg = g.seg /\ k.link = g.link
  /\ GET(k, bp - 4) = Tag(n, a) /\ GET(k, bp + n - 8) = Tag(n, a)
  /\ \A p \in Int : p < bp - 4 \/ p > bp + n - 8 => GET(k, p) = GET(g, p)

LEMMA PutGet ==
  ASSUME NEW g, IsHeap(g), NEW bp \in Nat, NEW n \in Nat, n >= 8, n < WORD, NEW a,
         NEW k, k = PutBlock(g, bp, n, a)
  PROVE  IsPut(k, g, bp, n, a)
<1>. DEFINE foot == bp + n - DSIZE
<1>. DEFINE Inside == HDRP(bp) .. foot
<1>. DEFINE Tags == {HDRP(bp), foot}
<1>. DEFINE mem == [p \in (DOMAIN g.mem \ Inside) \cup Tags |->
                      IF p \in Tags THEN Tag(n, a) ELSE g.mem[p]]
<1>. DEFINE g1 == [brk |-> g.brk, mem |-> mem, seg |-> g.seg, link |-> g.link]
<1>1. PutBlock(g, bp, n, a) = g1
  <2>1. Tag(n, a).size = n
    BY TagIs DEF Tag
  <2>2. PutBlock(g, bp, n, a) = [g EXCEPT !.mem = mem]
    BY <2>1 DEF PutBlock
  <2>. HIDE DEF mem
  <2>3. [g EXCEPT !.mem = mem] = g1
    BY DEF IsHeap
  <2>. QED BY <2>2, <2>3
<1>2. HDRP(bp) = bp - 4 /\ DSIZE = 8
  BY DEF HDRP, WSIZE, DSIZE
<1>3. GET(g1, bp - 4) = Tag(n, a) /\ GET(g1, bp + n - 8) = Tag(n, a)
  BY <1>2 DEF GET
<1>4. ASSUME NEW p \in Int, p < bp - 4 \/ p > bp + n - 8 PROVE GET(g1, p) = GET(g, p)
  <2>1. p \notin Inside /\ p \notin Tags
    BY <1>2, <1>4
  <2>. HIDE DEF foot, Inside, Tags
  <2>. QED BY <2>1 DEF GET
<1>5. IsHeap(g1) /\ g1.brk = g.brk /\ g1.seg = g.seg /\ g1.link = g.link
  BY DEF IsHeap
<1>. HIDE DEF g1
<1>. QED BY <1>1, <1>3, <1>4, <1>5 DEF IsPut

-----------------------------------------------------------------------------
(* The blocks of the heap. *)

Block(g, bp) ==
  /\ bp >= 16 /\ bp % 8 = 0
  /\ SizeAt(g, bp) \in Nat /\ SizeAt(g, bp) % 8 = 0 /\ SizeAt(g, bp) >= 24
  /\ AllocAt(g, bp) \in BOOLEAN
  /\ GET(g, bp - 4) = GET(g, bp + SizeAt(g, bp) - 8)

Ends(g) ==
  /\ GET(g, 4) = Tag(8, TRUE) /\ GET(g, 8) = Tag(8, TRUE)
  /\ GET(g, g.brk - 4) = Tag(0, TRUE)

Tiled(g, P) == P \cup {g.brk} = {16} \cup {bp + SizeAt(g, bp) : bp \in P}

\* The blocks P fill the heap between the prologue and the epilogue: each
\* starts where the prologue or another block ends, and no two overlap.
Shape(g, P) ==
  /\ IsHeap(g) /\ TagsFit
  /\ g.brk % 8 = 0 /\ g.brk >= 16 /\ g.brk <= LIMIT
  /\ Ends(g)
  /\ P \in SUBSET Nat
  /\ \A bp \in P : Block(g, bp) /\ bp + SizeAt(g, bp) <= g.brk
  /\ Tiled(g, P)
  /\ \A p, q \in P : p < q => p + SizeAt(g, p) <= q

\* Only what the tags say matters to the shape.
SameTags(k, g) == \A bp : SizeAt(k, bp) = SizeAt(g, bp) /\ AllocAt(k, bp) = AllocAt(g, bp)

LEMMA SameShape ==
  ASSUME NEW g, NEW P, Shape(g, P), NEW k, IsHeap(k), k.brk = g.brk, k.mem = g.mem
  PROVE  Shape(k, P) /\ SameTags(k, g)
<1>1. \A p : GET(k, p) = GET(g, p)
  BY DEF GET
<1>2. \A bp : SizeAt(k, bp) = SizeAt(g, bp) /\ AllocAt(k, bp) = AllocAt(g, bp)
  BY <1>1 DEF SizeAt, AllocAt
<1>4. Ends(g) => Ends(k)
  BY <1>1 DEF Ends
<1>3. Tiled(k, P)
  <2>1. {bp + SizeAt(k, bp) : bp \in P} = {bp + SizeAt(g, bp) : bp \in P}
    BY <1>2
  <2>2. Tiled(g, P)
    BY DEF Shape
  <2>. QED BY <2>1, <2>2 DEF Tiled
<1>5. Shape(k, P)
  BY <1>1, <1>2, <1>3, <1>4 DEF Shape, Block
<1>. QED BY <1>2, <1>5 DEF SameTags

\* What precedes a block, or the end of the heap.
LEMMA Before ==
  ASSUME NEW g, NEW P, Shape(g, P), NEW bp \in P \cup {g.brk}
  PROVE  \/ /\ PREV_BLKP(g, bp) = 8 /\ bp = 16
            /\ GET(g, FTRP(g, PREV_BLKP(g, bp))).alloc
         \/ /\ PREV_BLKP(g, bp) \in P /\ PREV_BLKP(g, bp) + SizeAt(g, PREV_BLKP(g, bp)) = bp
            /\ GET(g, FTRP(g, PREV_BLKP(g, bp))).alloc = AllocAt(g, PREV_BLKP(g, bp))
<1>. USE DEF WSIZE, DSIZE
<1>1. bp = 16 \/ \E q \in P : bp = q + SizeAt(g, q)
  BY DEF Shape, Tiled
<1>2. CASE bp = 16
  <2>1. GET(g, 8) = Tag(8, TRUE) /\ GET(g, 4) = Tag(8, TRUE)
    BY DEF Shape, Ends
  <2>2. PREV_BLKP(g, 16) = 8
    BY <2>1, EndTags DEF PREV_BLKP, Tag
  <2>3. FTRP(g, 8) = 8
    BY <2>1, EndTags DEF FTRP, SizeAt, HDRP, Tag
  <2>. QED BY <1>2, <2>1, <2>2, <2>3 DEF Tag
<1>3. ASSUME NEW q \in P, bp = q + SizeAt(g, q)
      PROVE  /\ PREV_BLKP(g, bp) = q
             /\ GET(g, FTRP(g, q)).alloc = AllocAt(g, q)
  <2>1. q \in Nat /\ SizeAt(g, q) \in Nat /\ GET(g, q - 4) = GET(g, q + SizeAt(g, q) - 8)
    BY DEF Shape, Block
  <2>2. GET(g, bp - 8) = GET(g, q - 4)
    BY <1>3, <2>1
  <2>3. GET(g, bp - 8).size = SizeAt(g, q)
    BY <2>2 DEF SizeAt, HDRP
  <2>4. PREV_BLKP(g, bp) = q
    BY <1>3, <2>1, <2>3 DEF PREV_BLKP
  <2>5. GET(g, FTRP(g, q)).alloc = AllocAt(g, q)
    BY <2>1 DEF FTRP, AllocAt, HDRP
  <2>. QED BY <2>4, <2>5
<1>. QED BY <1>1, <1>2, <1>3

\* What follows a block.
LEMMA After ==
  ASSUME NEW g, NEW P, Shape(g, P), NEW bp \in P
  PROVE  /\ NEXT_BLKP(g, bp) = bp + SizeAt(g, bp) /\ NEXT_BLKP(g, bp) \in P \cup {g.brk}
         /\ NEXT_BLKP(g, bp) \in Nat /\ NEXT_BLKP(g, bp) >= bp + 24
         /\ SizeAt(g, g.brk) = 0 /\ AllocAt(g, g.brk) = TRUE /\ g.brk \notin P
         /\ bp \in Nat /\ SizeAt(g, bp) \in Nat
<1>1. NEXT_BLKP(g, bp) = bp + SizeAt(g, bp)
  BY DEF NEXT_BLKP
<1>2. bp + SizeAt(g, bp) \in P \cup {g.brk}
  BY DEF Shape, Tiled
<1>3. \A p \in P : p \in Nat /\ SizeAt(g, p) \in Nat /\ SizeAt(g, p) >= 24 /\ p + SizeAt(g, p) <= g.brk
  BY DEF Shape, Block
<1>4. g.brk \in Nat
  BY DEF Shape, IsHeap
<1>5. SizeAt(g, g.brk) = 0 /\ AllocAt(g, g.brk) = TRUE
  <2>1. Ends(g)
    BY DEF Shape
  <2>. QED BY <2>1, EndTags DEF Ends, SizeAt, AllocAt, HDRP, WSIZE, Tag
<1>. QED BY <1>1, <1>2, <1>3, <1>4, <1>5

\* One block in the place of some.
IsCarved(k, g, Q, first, n, a) ==
  /\ Shape(k, Q) /\ k.brk = g.brk /\ k.seg = g.seg /\ k.link = g.link
  /\ SizeAt(k, first) = n /\ AllocAt(k, first) = a /\ n >= SizeAt(g, first)
  /\ \A p \in Q \ {first} : SizeAt(k, p) = SizeAt(g, p) /\ AllocAt(k, p) = AllocAt(g, p)

LEMMA Carve ==
  ASSUME NEW g, NEW P, Shape(g, P), NEW first \in P, NEW end \in P \cup {g.brk}, first < end,
         NEW n, n = end - first, NEW a \in BOOLEAN, NEW k, k = PutBlock(g, first, n, a),
         NEW Q, Q = {p \in P : p <= first \/ p >= end}
  PROVE  IsCarved(k, g, Q, first, n, a)
<1>1. /\ IsHeap(g) /\ g.brk \in Nat /\ g.brk % 8 = 0 /\ g.brk >= 16 /\ g.brk <= LIMIT
      /\ LIMIT \in Nat /\ WORD \in Nat /\ LIMIT <= WORD
      /\ P \in SUBSET Nat
      /\ \A p \in P : /\ p >= 16 /\ p % 8 = 0 /\ SizeAt(g, p) \in Nat /\ SizeAt(g, p) % 8 = 0
                      /\ SizeAt(g, p) >= 24 /\ p + SizeAt(g, p) <= g.brk
                      /\ AllocAt(g, p) \in BOOLEAN
                      /\ GET(g, p - 4) = GET(g, p + SizeAt(g, p) - 8)
      /\ \A p, q \in P : p < q => p + SizeAt(g, p) <= q
  BY MallocConstantsOK DEF Shape, Block, IsHeap, TagsFit
<1>2. \A p \in P : p < end => p + SizeAt(g, p) <= end
  BY <1>1
<1>3. end \in Nat /\ first \in Nat /\ n \in Nat /\ n >= SizeAt(g, first) /\ n >= 24 /\ n % 8 = 0
      /\ n < WORD
  <2>1. end \in Nat /\ first \in Nat /\ end % 8 = 0 /\ first % 8 = 0
    BY <1>1
  <2>2. n >= SizeAt(g, first) /\ n \in Nat /\ n >= 24 /\ n < WORD
    BY <1>1, <1>2, <2>1
  <2>3. n % 8 = 0
    BY <2>1
  <2>. QED BY <2>1, <2>2, <2>3
<1>4. /\ IsHeap(k) /\ k.brk = g.brk /\ k.seg = g.seg /\ k.link = g.link
      /\ GET(k, first - 4) = Tag(n, a) /\ GET(k, first + n - 8) = Tag(n, a)
      /\ \A p \in Int : p < first - 4 \/ p > first + n - 8 => GET(k, p) = GET(g, p)
  <2>1. IsHeap(g) /\ first \in Nat /\ n \in Nat /\ n >= 8 /\ n < WORD
    BY <1>1, <1>3
  <2>2. IsPut(k, g, first, n, a)
    BY <2>1, PutGet
  <2>. QED BY <2>2 DEF IsPut
<1>5. ASSUME NEW p \in Q \ {first}
      PROVE  /\ SizeAt(k, p) = SizeAt(g, p) /\ AllocAt(k, p) = AllocAt(g, p)
             /\ GET(k, p - 4) = GET(k, p + SizeAt(k, p) - 8)
  <2>1. /\ p - 4 \in Int /\ p + SizeAt(g, p) - 8 \in Int
        /\ p - 4 < first - 4 \/ p - 4 > first + n - 8
        /\ p + SizeAt(g, p) - 8 < first - 4 \/ p + SizeAt(g, p) - 8 > first + n - 8
    <3>1. p \in P /\ p # first /\ (p < first \/ p >= end)
      BY <1>1, <1>3
    <3>2. p \in Nat /\ SizeAt(g, p) \in Nat /\ SizeAt(g, p) >= 24
      BY <1>1, <3>1
    <3>3. CASE p < first
      <4>1. p + SizeAt(g, p) <= first
        BY <1>1, <3>1, <3>3
      <4>. QED BY <1>3, <3>2, <3>3, <4>1
    <3>4. CASE p >= end
      BY <1>3, <3>2, <3>4
    <3>. QED BY <3>1, <3>3, <3>4
  <2>2. GET(k, p - 4) = GET(g, p - 4) /\ GET(k, p + SizeAt(g, p) - 8) = GET(g, p + SizeAt(g, p) - 8)
    BY <1>4, <2>1
  <2>3. SizeAt(k, p) = SizeAt(g, p) /\ AllocAt(k, p) = AllocAt(g, p)
    BY <2>2 DEF SizeAt, AllocAt, HDRP, WSIZE
  <2>. QED BY <1>1, <2>2, <2>3
<1>6. SizeAt(k, first) = n /\ AllocAt(k, first) = a
  BY <1>3, <1>4, TagIs DEF SizeAt, AllocAt, HDRP, WSIZE, Tag
<1>7. ASSUME NEW p \in Q PROVE Block(k, p) /\ p + SizeAt(k, p) <= k.brk
  <2>1. CASE p = first
    BY <1>1, <1>3, <1>4, <1>6, <2>1 DEF Block
  <2>2. CASE p # first
    BY <1>1, <1>4, <1>5, <2>2 DEF Block
  <2>. QED BY <2>1, <2>2
<1>8. ASSUME NEW p \in Q, NEW q \in Q, p < q PROVE p + SizeAt(k, p) <= q
  <2>1. CASE p = first
    BY <1>1, <1>3, <1>6, <1>8, <2>1
  <2>2. CASE p # first
    BY <1>1, <1>5, <1>8, <2>2
  <2>. QED BY <2>1, <2>2
<1>9. Tiled(k, Q)
  <2>1. P \cup {g.brk} = {16} \cup {p + SizeAt(g, p) : p \in P}
    BY DEF Shape, Tiled
  <2>2. ASSUME NEW x \in Q \cup {k.brk}, x # 16 PROVE \E p \in Q : x = p + SizeAt(k, p)
    <3>1. PICK p \in P : x = p + SizeAt(g, p)
      BY <1>4, <2>1, <2>2
    <3>2. CASE p < first \/ p >= end
      <4>1. p \in Q \ {first}
        BY <1>1, <1>3, <3>2
      <4>. QED BY <1>5, <3>1, <4>1
    <3>3. CASE p >= first /\ p < end
      <4>1. x <= end /\ x \in Nat /\ x > first
        BY <1>1, <1>2, <1>3, <3>1, <3>3
      <4>2. x >= end
        BY <1>1, <1>3, <1>4, <2>2, <4>1
      <4>3. x = first + n /\ first \in Q
        BY <1>1, <1>3, <4>1, <4>2
      <4>. QED BY <1>6, <4>3
    <3>. QED BY <1>1, <1>3, <3>2, <3>3
  <2>3. 16 \in Q \cup {k.brk}
    <3>1. 16 \in P \cup {g.brk} /\ 16 <= first
      BY <1>1, <2>1
    <3>. QED BY <1>4, <3>1
  <2>4. ASSUME NEW p \in Q PROVE p + SizeAt(k, p) \in Q \cup {k.brk}
    <3>1. CASE p = first
      <4>1. p + SizeAt(k, p) = end
        BY <1>3, <1>6, <3>1
      <4>. QED BY <1>1, <1>3, <1>4, <4>1
    <3>2. CASE p # first
      <4>1. p + SizeAt(k, p) = p + SizeAt(g, p) /\ p + SizeAt(g, p) \in P \cup {g.brk}
        BY <1>5, <2>1, <3>2
      <4>2. p + SizeAt(g, p) <= first \/ p + SizeAt(g, p) >= end
        BY <1>1, <1>3, <3>2
      <4>. QED BY <1>4, <4>1, <4>2
    <3>. QED BY <3>1, <3>2
  <2>. QED BY <2>2, <2>3, <2>4 DEF Tiled
<1>10. Ends(k)
  <2>1. 4 < first - 4 /\ 8 < first - 4 /\ g.brk - 4 > first + n - 8 /\ g.brk - 4 \in Int
    BY <1>1, <1>3
  <2>2. GET(k, 4) = GET(g, 4) /\ GET(k, 8) = GET(g, 8) /\ GET(k, k.brk - 4) = GET(g, g.brk - 4)
    BY <1>4, <2>1
  <2>3. Ends(g)
    BY DEF Shape
  <2>. QED BY <2>2, <2>3 DEF Ends
<1>11. Shape(k, Q)
  BY <1>1, <1>4, <1>7, <1>8, <1>9, <1>10 DEF Shape, TagsFit
<1>. QED BY <1>3, <1>4, <1>5, <1>6, <1>11 DEF IsCarved

\* Two blocks in the place of one, as place leaves them.
IsSplit(k, g, P, Q, first, n, rest, a, b) ==
  /\ Shape(k, Q) /\ k.brk = g.brk /\ k.seg = g.seg /\ k.link = g.link
  /\ first + n \notin P
  /\ SizeAt(k, first) = n /\ AllocAt(k, first) = a
  /\ SizeAt(k, first + n) = rest /\ AllocAt(k, first + n) = b
  /\ \A p \in P \ {first} : SizeAt(k, p) = SizeAt(g, p) /\ AllocAt(k, p) = AllocAt(g, p)

LEMMA Split ==
  ASSUME NEW g, NEW P, Shape(g, P), NEW first \in P, NEW n, n \in Nat, n >= 24, n % 8 = 0,
         NEW rest, rest \in Nat, rest = SizeAt(g, first) - n, rest >= 24,
         NEW a \in BOOLEAN, NEW b \in BOOLEAN, NEW m, m = PutBlock(g, first, n, a),
         NEW k, k = PutBlock(m, first + n, rest, b), NEW Q, Q = P \cup {first + n}
  PROVE  IsSplit(k, g, P, Q, first, n, rest, a, b)
<1>1. /\ IsHeap(g) /\ g.brk \in Nat /\ g.brk % 8 = 0 /\ g.brk >= 16 /\ g.brk <= LIMIT
      /\ LIMIT \in Nat /\ WORD \in Nat /\ LIMIT <= WORD
      /\ P \in SUBSET Nat
      /\ \A p \in P : /\ p >= 16 /\ p % 8 = 0 /\ SizeAt(g, p) \in Nat /\ SizeAt(g, p) % 8 = 0
                      /\ SizeAt(g, p) >= 24 /\ p + SizeAt(g, p) <= g.brk
                      /\ AllocAt(g, p) \in BOOLEAN
                      /\ GET(g, p - 4) = GET(g, p + SizeAt(g, p) - 8)
      /\ \A p, q \in P : p < q => p + SizeAt(g, p) <= q
  BY MallocConstantsOK DEF Shape, Block, IsHeap, TagsFit
<1>2. /\ first \in Nat /\ first + n \in Nat /\ (first + n) % 8 = 0 /\ rest % 8 = 0
      /\ first + n + rest = first + SizeAt(g, first) /\ first >= 16
      /\ n < WORD /\ rest < WORD
  <2>1. first \in Nat /\ first % 8 = 0 /\ SizeAt(g, first) \in Nat /\ SizeAt(g, first) % 8 = 0
        /\ first >= 16 /\ SizeAt(g, first) < WORD
    BY <1>1
  <2>2. (first + n) % 8 = 0 /\ rest % 8 = 0
    BY <2>1
  <2>3. n < WORD /\ rest < WORD
    BY <1>1, <2>1
  <2>. QED BY <2>1, <2>2, <2>3
<1>3. /\ IsHeap(m) /\ m.brk = g.brk /\ m.seg = g.seg /\ m.link = g.link
      /\ GET(m, first - 4) = Tag(n, a) /\ GET(m, first + n - 8) = Tag(n, a)
      /\ \A p \in Int : p < first - 4 \/ p > first + n - 8 => GET(m, p) = GET(g, p)
  <2>1. IsHeap(g) /\ first \in Nat /\ n \in Nat /\ n >= 8 /\ n < WORD
    BY <1>1, <1>2
  <2>2. IsPut(m, g, first, n, a)
    BY <2>1, PutGet
  <2>. QED BY <2>2 DEF IsPut
<1>4. /\ IsHeap(k) /\ k.brk = m.brk /\ k.seg = m.seg /\ k.link = m.link
      /\ GET(k, (first + n) - 4) = Tag(rest, b) /\ GET(k, (first + n) + rest - 8) = Tag(rest, b)
      /\ \A p \in Int : p < (first + n) - 4 \/ p > (first + n) + rest - 8 => GET(k, p) = GET(m, p)
  <2>1. IsHeap(m) /\ first + n \in Nat /\ rest \in Nat /\ rest >= 8 /\ rest < WORD
    BY <1>2, <1>3
  <2>2. IsPut(k, m, first + n, rest, b)
    BY <2>1, PutGet
  <2>3. /\ IsHeap(k) /\ k.brk = m.brk /\ k.seg = m.seg /\ k.link = m.link
        /\ GET(k, (first + n) - 4) = Tag(rest, b) /\ GET(k, (first + n) + rest - 8) = Tag(rest, b)
    BY <2>2 DEF IsPut
  <2>4. \A p \in Int : p < (first + n) - 4 \/ p > (first + n) + rest - 8 => GET(k, p) = GET(m, p)
    BY <2>2 DEF IsPut
  <2>. QED BY <2>3, <2>4
<1>5. GET(k, first - 4) = Tag(n, a) /\ GET(k, first + n - 8) = Tag(n, a)
  <2>1. /\ first - 4 \in Int /\ first + n - 8 \in Int
        /\ first - 4 < (first + n) - 4 /\ first + n - 8 < (first + n) - 4
    BY <1>2
  <2>2. GET(k, first - 4) = GET(m, first - 4) /\ GET(k, first + n - 8) = GET(m, first + n - 8)
    BY <1>4, <2>1
  <2>. QED BY <1>3, <2>2
<1>6. ASSUME NEW p \in Int, p < first - 4 \/ p > (first + n) + rest - 8
      PROVE  GET(k, p) = GET(g, p)
  <2>1. p < (first + n) - 4 \/ p > (first + n) + rest - 8
    BY <1>2, <1>6
  <2>2. p < first - 4 \/ p > first + n - 8
    BY <1>2, <1>6
  <2>. QED BY <1>3, <1>4, <2>1, <2>2
<1>7. ASSUME NEW p \in P \ {first}
      PROVE  /\ SizeAt(k, p) = SizeAt(g, p) /\ AllocAt(k, p) = AllocAt(g, p)
             /\ GET(k, p - 4) = GET(k, p + SizeAt(k, p) - 8)
             /\ p + SizeAt(g, p) <= first \/ p >= first + n + rest
  <2>0. p \in Nat /\ SizeAt(g, p) \in Nat /\ SizeAt(g, p) >= 24
    BY <1>1
  <2>1. p + SizeAt(g, p) <= first \/ p >= first + n + rest
    <3>1. p < first \/ first < p
      BY <1>2, <2>0
    <3>. QED BY <1>1, <1>2, <3>1
  <2>2. /\ p - 4 \in Int /\ p + SizeAt(g, p) - 8 \in Int
        /\ p - 4 < first - 4 \/ p - 4 > (first + n) + rest - 8
        /\ p + SizeAt(g, p) - 8 < first - 4 \/ p + SizeAt(g, p) - 8 > (first + n) + rest - 8
    BY <1>2, <2>0, <2>1
  <2>3. GET(k, p - 4) = GET(g, p - 4) /\ GET(k, p + SizeAt(g, p) - 8) = GET(g, p + SizeAt(g, p) - 8)
    BY <1>6, <2>2
  <2>4. SizeAt(k, p) = SizeAt(g, p) /\ AllocAt(k, p) = AllocAt(g, p)
    BY <2>3 DEF SizeAt, AllocAt, HDRP, WSIZE
  <2>. QED BY <1>1, <2>1, <2>3, <2>4
<1>8. /\ SizeAt(k, first) = n /\ AllocAt(k, first) = a
      /\ SizeAt(k, first + n) = rest /\ AllocAt(k, first + n) = b
  <2>1. HDRP(first) = first - 4 /\ HDRP(first + n) = (first + n) - 4
    BY <1>2 DEF HDRP, WSIZE
  <2>2. SizeAt(k, first) = n /\ AllocAt(k, first) = a
    BY <1>2, <1>5, <2>1, TagIs DEF SizeAt, AllocAt, Tag
  <2>3. SizeAt(k, first + n) = rest /\ AllocAt(k, first + n) = b
    BY <1>2, <1>4, <2>1, TagIs DEF SizeAt, AllocAt, Tag
  <2>. QED BY <2>2, <2>3
<1>9. first + n \notin P
  <2>1. first < first + n /\ ~ first + SizeAt(g, first) <= first + n
    BY <1>1, <1>2
  <2>. QED BY <1>1, <2>1
<1>10. ASSUME NEW p \in Q PROVE Block(k, p) /\ p + SizeAt(k, p) <= k.brk
  <2>1. CASE p = first
    BY <1>1, <1>2, <1>3, <1>4, <1>5, <1>8, <2>1 DEF Block
  <2>2. CASE p = first + n
    BY <1>1, <1>2, <1>3, <1>4, <1>8, <2>2 DEF Block
  <2>3. CASE p # first /\ p # first + n
    BY <1>1, <1>3, <1>4, <1>7, <2>3 DEF Block
  <2>. QED BY <2>1, <2>2, <2>3
<1>11. ASSUME NEW p \in Q, NEW q \in Q, p < q PROVE p + SizeAt(k, p) <= q
  <2>1. CASE p = first
    <3>1. CASE q = first + n
      BY <1>2, <1>8, <2>1, <3>1
    <3>2. CASE q # first + n
      BY <1>1, <1>2, <1>7, <1>8, <1>11, <2>1, <3>2
    <3>. QED BY <3>1, <3>2
  <2>2. CASE p = first + n
    <3>1. q # first /\ q \in P
      BY <1>2, <1>11, <2>2
    <3>. QED BY <1>1, <1>2, <1>7, <1>8, <1>11, <2>2, <3>1
  <2>3. CASE p # first /\ p # first + n
    <3>1. CASE q = first + n
      BY <1>1, <1>2, <1>7, <1>11, <2>3, <3>1
    <3>2. CASE q # first + n
      BY <1>1, <1>7, <1>11, <2>3, <3>2
    <3>. QED BY <3>1, <3>2
  <2>. QED BY <2>1, <2>2, <2>3
<1>12. Tiled(k, Q)
  <2>1. P \cup {g.brk} = {16} \cup {p + SizeAt(g, p) : p \in P}
    BY DEF Shape, Tiled
  <2>2. ASSUME NEW x \in Q \cup {k.brk}, x # 16 PROVE \E p \in Q : x = p + SizeAt(k, p)
    <3>1. CASE x = first + n
      BY <1>8, <3>1
    <3>2. CASE x # first + n
      <4>1. PICK p \in P : x = p + SizeAt(g, p)
        BY <1>3, <1>4, <2>1, <2>2, <3>2
      <4>2. CASE p = first
        BY <1>2, <1>8, <4>1, <4>2
      <4>3. CASE p # first
        BY <1>7, <4>1, <4>3
      <4>. QED BY <4>2, <4>3
    <3>. QED BY <3>1, <3>2
  <2>3. 16 \in Q \cup {k.brk}
    BY <1>3, <1>4, <2>1
  <2>4. ASSUME NEW p \in Q PROVE p + SizeAt(k, p) \in Q \cup {k.brk}
    <3>1. CASE p = first
      BY <1>8, <3>1
    <3>2. CASE p = first + n
      BY <1>2, <1>3, <1>4, <1>8, <2>1, <3>2
    <3>3. CASE p # first /\ p # first + n
      BY <1>3, <1>4, <1>7, <2>1, <3>3
    <3>. QED BY <3>1, <3>2, <3>3
  <2>. QED BY <2>2, <2>3, <2>4 DEF Tiled
<1>13. Ends(k)
  <2>1. 4 < first - 4 /\ 8 < first - 4 /\ g.brk - 4 > (first + n) + rest - 8 /\ g.brk - 4 \in Int
    BY <1>1, <1>2
  <2>2. GET(k, 4) = GET(g, 4) /\ GET(k, 8) = GET(g, 8) /\ GET(k, k.brk - 4) = GET(g, g.brk - 4)
    BY <1>3, <1>4, <1>6, <2>1
  <2>3. Ends(g)
    BY DEF Shape
  <2>. QED BY <2>2, <2>3 DEF Ends
<1>14. Q \in SUBSET Nat
  BY <1>1, <1>2
<1>15. Shape(k, Q)
  BY <1>1, <1>3, <1>4, <1>10, <1>11, <1>12, <1>13, <1>14 DEF Shape, TagsFit
<1>. QED BY <1>3, <1>4, <1>7, <1>8, <1>9, <1>15 DEF IsSplit

\* The heap with a free block and a new epilogue at its end, as extend_heap
\* leaves it.
Grown(g, n) ==
  LET grown == PutBlock([g EXCEPT !.brk = @ + n], g.brk, n, FALSE)
      end == HDRP(NEXT_BLKP(grown, g.brk))
  IN  [grown EXCEPT !.mem = [p \in DOMAIN @ \cup {end} |->
                               IF p = end THEN Tag(0, TRUE) ELSE @[p]]]

IsGrown(k, g, P, Q, n) ==
  /\ Shape(k, Q) /\ k.brk = g.brk + n /\ k.seg = g.seg /\ k.link = g.link
  /\ SizeAt(k, g.brk) = n /\ AllocAt(k, g.brk) = FALSE
  /\ \A p \in P : SizeAt(k, p) = SizeAt(g, p) /\ AllocAt(k, p) = AllocAt(g, p)

LEMMA Grow ==
  ASSUME NEW g, NEW P, Shape(g, P), NEW n, n \in Nat, n >= 24, n % 8 = 0, g.brk + n <= LIMIT,
         NEW k, k = Grown(g, n), NEW Q, Q = P \cup {g.brk}
  PROVE  IsGrown(k, g, P, Q, n)
<1>0. PICK e : e = g.brk
  OBVIOUS
<1>a. PICK z : z = [g EXCEPT !.brk = @ + n]
  OBVIOUS
<1>b. PICK m : m = PutBlock(z, e, n, FALSE)
  OBVIOUS
<1>c. PICK end : end = HDRP(NEXT_BLKP(m, e))
  OBVIOUS
<1>e. k = [m EXCEPT !.mem = [p \in DOMAIN @ \cup {end} |->
                               IF p = end THEN Tag(0, TRUE) ELSE @[p]]]
  BY <1>0, <1>a, <1>b, <1>c DEF Grown
<1>d. Q = P \cup {e} /\ e + n <= LIMIT
  BY <1>0
<1>1. /\ IsHeap(g) /\ e \in Nat /\ e % 8 = 0 /\ e >= 16 /\ e <= LIMIT
      /\ LIMIT \in Nat /\ WORD \in Nat /\ LIMIT <= WORD /\ n < WORD
      /\ P \in SUBSET Nat
      /\ \A p \in P : /\ p >= 16 /\ p % 8 = 0 /\ SizeAt(g, p) \in Nat /\ SizeAt(g, p) % 8 = 0
                      /\ SizeAt(g, p) >= 24 /\ p + SizeAt(g, p) <= e
                      /\ AllocAt(g, p) \in BOOLEAN
                      /\ GET(g, p - 4) = GET(g, p + SizeAt(g, p) - 8)
      /\ \A p, q \in P : p < q => p + SizeAt(g, p) <= q
  BY <1>0, <1>d, MallocConstantsOK DEF Shape, Block, IsHeap, TagsFit
<1>2. IsHeap(z) /\ z.brk = e + n /\ z.seg = g.seg /\ z.link = g.link /\ z.mem = g.mem
  BY <1>0, <1>1, <1>a DEF IsHeap
<1>3. /\ IsHeap(m) /\ m.brk = z.brk /\ m.seg = z.seg /\ m.link = z.link
      /\ GET(m, e - 4) = Tag(n, FALSE) /\ GET(m, e + n - 8) = Tag(n, FALSE)
      /\ \A p \in Int : p < e - 4 \/ p > e + n - 8 => GET(m, p) = GET(z, p)
  <2>1. IsHeap(z) /\ e \in Nat /\ n \in Nat /\ n >= 8 /\ n < WORD
    BY <1>1, <1>2
  <2>2. IsPut(m, z, e, n, FALSE)
    BY <1>b, <2>1, PutGet
  <2>. QED BY <2>2 DEF IsPut
<1>4. HDRP(e + n) = e + n - 4 /\ end = HDRP(e + n)
  <2>1. e \in Nat /\ HDRP(e) = e - 4
    BY <1>1 DEF HDRP, WSIZE
  <2>2. SizeAt(m, e) = n
    BY <1>1, <1>3, <2>1, TagIs DEF SizeAt, Tag
  <2>. QED BY <1>c, <2>1, <2>2 DEF HDRP, WSIZE, NEXT_BLKP
<1>5. /\ IsHeap(k) /\ k.brk = m.brk /\ k.seg = m.seg /\ k.link = m.link
      /\ k.mem = [p \in DOMAIN m.mem \cup {HDRP(e + n)} |->
                    IF p = HDRP(e + n) THEN Tag(0, TRUE) ELSE m.mem[p]]
  <2>. DEFINE mem == [p \in DOMAIN m.mem \cup {HDRP(e + n)} |->
                       IF p = HDRP(e + n) THEN Tag(0, TRUE) ELSE m.mem[p]]
  <2>1. k = [m EXCEPT !.mem = mem]
    BY <1>4, <1>e
  <2>. HIDE DEF mem
  <2>2. k = [brk |-> m.brk, mem |-> mem, seg |-> m.seg, link |-> m.link] /\ m.brk \in Nat
    BY <1>3, <2>1 DEF IsHeap
  <2>3. IsHeap(k) /\ k.brk = m.brk /\ k.seg = m.seg /\ k.link = m.link /\ k.mem = mem
    BY <2>2 DEF IsHeap
  <2>. QED BY <2>3 DEF mem
<1>6. GET(k, e + n - 4) = Tag(0, TRUE)
  BY <1>4, <1>5 DEF GET
<1>7. \A p \in Int : p # e + n - 4 => GET(k, p) = GET(m, p)
  BY <1>4, <1>5 DEF GET
<1>8. \A p \in Int : GET(z, p) = GET(g, p)
  BY <1>2 DEF GET
<1>9. GET(k, e - 4) = Tag(n, FALSE) /\ GET(k, e + n - 8) = Tag(n, FALSE)
  <2>1. e - 4 \in Int /\ e + n - 8 \in Int /\ e - 4 # e + n - 4 /\ e + n - 8 # e + n - 4
    BY <1>1
  <2>2. GET(k, e - 4) = GET(m, e - 4) /\ GET(k, e + n - 8) = GET(m, e + n - 8)
    BY <1>7, <2>1
  <2>. QED BY <1>3, <2>2
<1>10. ASSUME NEW p \in Int, p < e - 4 PROVE GET(k, p) = GET(g, p)
  <2>1. p # e + n - 4
    BY <1>1, <1>10
  <2>. QED BY <1>3, <1>7, <1>8, <1>10, <2>1
<1>11. ASSUME NEW p \in P
       PROVE  /\ SizeAt(k, p) = SizeAt(g, p) /\ AllocAt(k, p) = AllocAt(g, p)
              /\ GET(k, p - 4) = GET(k, p + SizeAt(k, p) - 8)
  <2>1. /\ p - 4 \in Int /\ p - 4 < e - 4
        /\ p + SizeAt(g, p) - 8 \in Int /\ p + SizeAt(g, p) - 8 < e - 4
    BY <1>1
  <2>2. GET(k, p - 4) = GET(g, p - 4) /\ GET(k, p + SizeAt(g, p) - 8) = GET(g, p + SizeAt(g, p) - 8)
    BY <1>10, <2>1
  <2>3. SizeAt(k, p) = SizeAt(g, p) /\ AllocAt(k, p) = AllocAt(g, p)
    BY <2>2 DEF SizeAt, AllocAt, HDRP, WSIZE
  <2>. QED BY <1>1, <2>2, <2>3
<1>12. SizeAt(k, e) = n /\ AllocAt(k, e) = FALSE
  BY <1>1, <1>9, TagIs DEF SizeAt, AllocAt, HDRP, WSIZE, Tag
<1>13. k.brk = e + n /\ e + n \in Nat /\ (e + n) % 8 = 0
  <2>1. (e + n) % 8 = 0
    BY <1>1
  <2>. QED BY <1>1, <1>2, <1>3, <1>5, <2>1
<1>14. ASSUME NEW p \in Q PROVE Block(k, p) /\ p + SizeAt(k, p) <= k.brk
  <2>1. CASE p = e
    <3>1. GET(k, e - 4) = GET(k, e + n - 8)
      BY <1>9
    <3>2. e \in Nat /\ e >= 16 /\ e % 8 = 0
      BY <1>1
    <3>3. SizeAt(k, e) = n /\ AllocAt(k, e) \in BOOLEAN
      BY <1>12
    <3>4. Block(k, e)
      BY <3>1, <3>2, <3>3 DEF Block
    <3>. QED BY <1>13, <2>1, <3>2, <3>3, <3>4
  <2>2. CASE p # e
    BY <1>1, <1>11, <1>13, <1>d, <2>2 DEF Block
  <2>. QED BY <2>1, <2>2
<1>15. ASSUME NEW p \in Q, NEW q \in Q, p < q PROVE p + SizeAt(k, p) <= q
  <2>1. p \in P
    BY <1>1, <1>15, <1>d
  <2>. QED BY <1>1, <1>11, <1>15, <1>d, <2>1
<1>16. Tiled(k, Q)
  <2>1. P \cup {e} = {16} \cup {p + SizeAt(g, p) : p \in P}
    BY <1>0 DEF Shape, Tiled
  <2>2. \A p \in Q : p + SizeAt(k, p) = IF p = e THEN e + n ELSE p + SizeAt(g, p)
    BY <1>11, <1>12, <1>d
  <2>3. e \notin P
    BY <1>1
  <2>4. {p + SizeAt(k, p) : p \in Q} = {p + SizeAt(g, p) : p \in P} \cup {e + n}
    BY <1>d, <2>2, <2>3
  <2>. QED BY <1>13, <1>d, <2>1, <2>4 DEF Tiled
<1>17. Ends(k)
  <2>1. 4 < e - 4 /\ 8 < e - 4
    BY <1>1
  <2>2. GET(k, 4) = GET(g, 4) /\ GET(k, 8) = GET(g, 8)
    BY <1>10, <2>1
  <2>3. Ends(g)
    BY DEF Shape
  <2>4. k.brk - 4 = e + n - 4
    BY <1>1, <1>13
  <2>. QED BY <1>6, <2>2, <2>3, <2>4 DEF Ends
<1>18. Shape(k, Q)
  <2>1. Q \in SUBSET Nat
    BY <1>1, <1>d
  <2>2. k.brk >= 16 /\ k.brk <= LIMIT
    <3>1. e \in Nat /\ e >= 16
      BY <1>1
    <3>. QED BY <1>13, <1>d, <3>1
  <2>. QED BY <1>1, <1>5, <1>13, <1>14, <1>15, <1>16, <1>17, <2>1, <2>2 DEF Shape, TagsFit
<1>. QED BY <1>0, <1>2, <1>3, <1>5, <1>11, <1>12, <1>13, <1>18 DEF IsGrown

-----------------------------------------------------------------------------
(* The free lists. *)

Address == Nat \ {0}

At(w, k) == IF k \in 1 .. Len(w) THEN w[k] ELSE NULL

\* The links spell w, forwards and backwards.
Chain(link, w) ==
  \A k \in 1 .. Len(w) :
    w[k] \in DOMAIN link /\ link[w[k]] = [next |-> At(w, k + 1), prev |-> At(w, k - 1)]

\* The heads and the links spell the sequences L, and no block is in two places.
Linked(g, L) ==
  /\ L \in [Seg -> Seq(Address)]
  /\ g.seg \in [Seg -> Nat]
  /\ \A i \in Seg : /\ g.seg[i] = At(L[i], 1)
                    /\ Chain(g.link, L[i])
                    /\ IsInjective(L[i])
  /\ \A i, j \in Seg : i # j => ToSet(L[i]) \cap ToSet(L[j]) = {}

\* List i holds the blocks of F whose size has index i.
ListsHold(g, F) ==
  \E L : /\ Linked(g, L)
         /\ \A i \in Seg : ToSet(L[i]) = {bp \in F : index_seg(SizeAt(g, bp)) = i}

\* The heap k is g with the blocks of F listed.
Listed(k, g, F) == IsHeap(k) /\ k.brk = g.brk /\ k.mem = g.mem /\ ListsHold(k, F)

LEMMA IndexInSeg == \A size : index_seg(size) \in Seg
BY DEF index_seg, Seg

\* Links of other blocks do not matter to a chain.
LEMMA ChainKept ==
  ASSUME NEW link, NEW w \in Seq(Address), Chain(link, w), NEW other,
         \A x \in ToSet(w) : x \in DOMAIN link => x \in DOMAIN other /\ other[x] = link[x]
  PROVE  Chain(other, w)
<1>1. \A k \in 1 .. Len(w) : w[k] \in ToSet(w)
  BY ElementsAre
<1>. QED BY <1>1 DEF Chain

\* A block in front of a chain.
LEMMA ChainPrepended ==
  ASSUME NEW link, NEW w \in Seq(Address), Chain(link, w), IsInjective(w),
         NEW bp \in Address, bp \notin ToSet(w), NEW other, bp \in DOMAIN other,
         other[bp] = [next |-> At(w, 1), prev |-> NULL],
         \A x \in ToSet(w) :
           /\ x \in DOMAIN other
           /\ other[x] = IF x = At(w, 1) THEN [next |-> link[x].next, prev |-> bp] ELSE link[x]
  PROVE  Chain(other, <<bp>> \o w)
<1>1. PICK v : v = <<bp>> \o w
  OBVIOUS
<1>2. PICK l \in Nat : l = Len(w)
  OBVIOUS
<1>3. Len(v) = l + 1 /\ v[1] = bp /\ \A k \in 1 .. l : v[k + 1] = w[k]
  BY <1>1, <1>2, Prepended
<1>4. \A k \in 1 .. l : /\ w[k] \in ToSet(w) /\ w[k] # bp /\ w[k] \in DOMAIN other
                        /\ link[w[k]] = [next |-> At(w, k + 1), prev |-> At(w, k - 1)]
  BY <1>2, ElementsAre DEF Chain
<1>5. \A j, k \in 1 .. l : w[j] = w[k] => j = k
  BY <1>2, ElementsAre
<1>6. ASSUME NEW k \in 1 .. l + 1
      PROVE  v[k] \in DOMAIN other /\ other[v[k]] = [next |-> At(v, k + 1), prev |-> At(v, k - 1)]
  <2>1. CASE k = 1
    <3>1. At(v, k + 1) = At(w, 1)
      <4>1. CASE l = 0
        BY <1>2, <1>3, <2>1, <4>1 DEF At
      <4>2. CASE l # 0
        <5>1. 1 \in 1 .. l /\ k + 1 = 1 + 1 /\ k + 1 \in 1 .. l + 1
          BY <2>1, <4>2
        <5>. QED BY <1>2, <1>3, <5>1 DEF At
      <4>. QED BY <4>1, <4>2
    <3>2. At(v, k - 1) = NULL
      BY <2>1 DEF At
    <3>. QED BY <1>3, <2>1, <3>1, <3>2
  <2>2. CASE k # 1
    <3>1. PICK j \in 1 .. l : j = k - 1
      BY <2>2
    <3>2. k = j + 1 /\ v[k] = w[j]
      BY <1>3, <3>1
    <3>3. At(v, k + 1) = At(w, j + 1)
      <4>1. CASE j + 1 \in 1 .. l
        <5>1. k + 1 = (j + 1) + 1 /\ k + 1 \in 1 .. l + 1
          BY <3>1, <4>1
        <5>. QED BY <1>2, <1>3, <4>1, <5>1 DEF At
      <4>2. CASE j + 1 \notin 1 .. l
        <5>1. k + 1 \notin 1 .. l + 1
          BY <3>1, <4>2
        <5>. QED BY <1>2, <1>3, <4>2, <5>1 DEF At
      <4>. QED BY <4>1, <4>2
    <3>4. CASE j = 1
      <4>1. 1 \in 1 .. l /\ k - 1 = 1 /\ 1 \in 1 .. l + 1
        BY <3>1, <3>4
      <4>2. At(w, 1) = w[j] /\ At(v, k - 1) = bp
        BY <1>2, <1>3, <3>4, <4>1 DEF At
      <4>3. other[w[j]] = [next |-> link[w[j]].next, prev |-> bp]
        BY <1>4, <4>2
      <4>4. link[w[j]].next = At(w, j + 1)
        <5>1. link[w[j]] = [next |-> At(w, j + 1), prev |-> At(w, j - 1)]
          BY <1>4
        <5>. QED BY <5>1
      <4>5. w[j] \in DOMAIN other
        BY <1>4
      <4>. QED BY <3>2, <3>3, <4>2, <4>3, <4>4, <4>5
    <3>5. CASE j # 1
      <4>1. w[j] # At(w, 1)
        <5>1. 1 \in 1 .. l
          BY <3>1
        <5>. QED BY <1>2, <1>5, <3>5, <5>1 DEF At
      <4>2. At(v, k - 1) = At(w, j - 1)
        <5>1. j - 1 \in 1 .. l /\ k - 1 = (j - 1) + 1 /\ k - 1 \in 1 .. l + 1
          BY <3>1, <3>5
        <5>. QED BY <1>2, <1>3, <5>1 DEF At
      <4>3. other[w[j]] = link[w[j]]
        BY <1>4, <4>1
      <4>. QED BY <1>4, <3>2, <3>3, <4>2, <4>3
    <3>. QED BY <3>4, <3>5
  <2>. QED BY <2>1, <2>2
<1>. QED BY <1>1, <1>3, <1>6 DEF Chain

\* A block taken out of a chain.
LEMMA ChainRemoved ==
  ASSUME NEW link, NEW w \in Seq(Address), Chain(link, w), IsInjective(w), NEW i \in 1 .. Len(w),
         NEW other, NEW n, n = At(w, i + 1), NEW p, p = At(w, i - 1),
         \A x \in ToSet(w) \ {w[i]} :
           /\ x \in DOMAIN other
           /\ other[x] = [next |-> IF x = p THEN n ELSE link[x].next,
                          prev |-> IF x = n THEN p ELSE link[x].prev]
  PROVE  Chain(other, RemoveAt(w, i))
<1>1. PICK v : v = RemoveAt(w, i)
  OBVIOUS
<1>2. PICK l \in Nat : l = Len(w)
  OBVIOUS
<1>3. /\ Len(v) = l - 1 /\ l >= 1 /\ i \in 1 .. l
      /\ \A k \in 1 .. l - 1 : v[k] = IF k < i THEN w[k] ELSE w[k + 1]
  <2>1. Len(RemoveAt(w, i)) = Len(w) - 1
    BY TakenOut
  <2>2. \A k \in 1 .. Len(w) - 1 : RemoveAt(w, i)[k] = IF k < i THEN w[k] ELSE w[k + 1]
    BY TakenOut
  <2>3. i \in 1 .. l /\ l >= 1
    BY <1>2
  <2>. QED BY <1>1, <1>2, <2>1, <2>2, <2>3
<1>4. \A k \in 1 .. l : /\ w[k] \in ToSet(w) /\ w[k] \in Address
                        /\ link[w[k]] = [next |-> At(w, k + 1), prev |-> At(w, k - 1)]
  BY <1>2, ElementsAre DEF Chain
<1>5. \A j, k \in 1 .. l : w[j] = w[k] => j = k
  BY <1>2, ElementsAre
<1>6. \A k \in 1 .. l : /\ w[k] = n <=> k = i + 1
                        /\ w[k] = p <=> k = i - 1
  <2>. SUFFICES ASSUME NEW k \in 1 .. l
                PROVE  (w[k] = n <=> k = i + 1) /\ (w[k] = p <=> k = i - 1)
    OBVIOUS
  <2>1. w[k] # NULL
    BY <1>4 DEF Address, NULL
  <2>2. n = IF i + 1 \in 1 .. l THEN w[i + 1] ELSE NULL
    BY <1>2 DEF At
  <2>3. p = IF i - 1 \in 1 .. l THEN w[i - 1] ELSE NULL
    BY <1>2 DEF At
  <2>4. w[k] = n <=> k = i + 1
    BY <1>5, <2>1, <2>2
  <2>5. w[k] = p <=> k = i - 1
    BY <1>5, <2>1, <2>3
  <2>. QED BY <2>4, <2>5
<1>7. ASSUME NEW k \in 1 .. l - 1
      PROVE  v[k] \in DOMAIN other /\ other[v[k]] = [next |-> At(v, k + 1), prev |-> At(v, k - 1)]
  <2>1. PICK j \in 1 .. l : j = IF k < i THEN k ELSE k + 1
    BY <1>3
  <2>2. v[k] = w[j] /\ j # i
    BY <1>3, <2>1
  <2>3. w[j] \in ToSet(w) \ {w[i]}
    BY <1>3, <1>4, <1>5, <2>2
  <2>4. /\ w[j] \in DOMAIN other
        /\ other[w[j]] = [next |-> IF w[j] = p THEN n ELSE link[w[j]].next,
                          prev |-> IF w[j] = n THEN p ELSE link[w[j]].prev]
    BY <2>3
  <2>5. /\ link[w[j]].next = At(w, j + 1) /\ link[w[j]].prev = At(w, j - 1)
        /\ (w[j] = n <=> j = i + 1) /\ (w[j] = p <=> j = i - 1)
    <3>1. link[w[j]] = [next |-> At(w, j + 1), prev |-> At(w, j - 1)]
      BY <1>4
    <3>2. (w[j] = n <=> j = i + 1) /\ (w[j] = p <=> j = i - 1)
      BY <1>6
    <3>. QED BY <3>1, <3>2
  <2>6. (IF w[j] = p THEN n ELSE link[w[j]].next) = At(v, k + 1)
    <3>1. CASE j = i - 1
      <4>1. k = i - 1 /\ k + 1 = i
        BY <2>1, <3>1, <1>3
      <4>2. CASE i \in 1 .. l - 1
        <5>1. v[i] = w[i + 1] /\ i + 1 \in 1 .. l
          BY <1>3, <4>2
        <5>. QED BY <1>2, <1>3, <2>5, <3>1, <4>1, <4>2, <5>1 DEF At
      <4>3. CASE i \notin 1 .. l - 1
        <5>1. i + 1 \notin 1 .. l
          BY <1>3, <4>3
        <5>. QED BY <1>2, <1>3, <2>5, <3>1, <4>1, <4>3, <5>1 DEF At
      <4>. QED BY <4>2, <4>3
    <3>2. CASE j # i - 1
      <4>1. At(w, j + 1) = At(v, k + 1)
        <5>1. CASE k < i
          <6>1. k + 1 < i /\ k + 1 \in 1 .. l - 1 /\ j = k /\ k + 1 \in 1 .. l
            BY <1>3, <2>1, <3>2, <5>1
          <6>. QED BY <1>2, <1>3, <6>1 DEF At
        <5>2. CASE ~ k < i
          <6>1. j = k + 1 /\ ~ (k + 1 < i)
            BY <1>3, <2>1, <5>2
          <6>2. CASE k + 1 \in 1 .. l - 1
            <7>1. v[k + 1] = w[(k + 1) + 1] /\ (k + 1) + 1 \in 1 .. l
              BY <1>3, <6>1, <6>2
            <7>. QED BY <1>2, <1>3, <6>1, <6>2, <7>1 DEF At
          <6>3. CASE k + 1 \notin 1 .. l - 1
            <7>1. (k + 1) + 1 \notin 1 .. l
              BY <1>3, <6>3
            <7>. QED BY <1>2, <1>3, <6>1, <6>3, <7>1 DEF At
          <6>. QED BY <6>2, <6>3
        <5>. QED BY <5>1, <5>2
      <4>. QED BY <2>5, <3>2, <4>1
    <3>. QED BY <3>1, <3>2
  <2>7. (IF w[j] = n THEN p ELSE link[w[j]].prev) = At(v, k - 1)
    <3>1. CASE j = i + 1
      <4>1. k = i /\ k - 1 = i - 1
        BY <2>1, <3>1, <1>3
      <4>2. CASE i - 1 \in 1 .. l
        <5>1. v[i - 1] = w[i - 1] /\ i - 1 \in 1 .. l - 1
          BY <1>3, <4>2
        <5>. QED BY <1>2, <1>3, <2>5, <3>1, <4>1, <4>2, <5>1 DEF At
      <4>3. CASE i - 1 \notin 1 .. l
        <5>1. i - 1 \notin 1 .. l - 1
          BY <1>3, <4>3
        <5>. QED BY <1>2, <1>3, <2>5, <3>1, <4>1, <4>3, <5>1 DEF At
      <4>. QED BY <4>2, <4>3
    <3>2. CASE j # i + 1
      <4>1. At(w, j - 1) = At(v, k - 1)
        <5>1. CASE k < i
          <6>1. j = k
            BY <2>1, <5>1
          <6>2. CASE k - 1 \in 1 .. l
            <7>1. k - 1 \in 1 .. l - 1 /\ k - 1 < i
              BY <1>3, <5>1, <6>2
            <7>2. v[k - 1] = w[k - 1]
              BY <1>3, <7>1
            <7>. QED BY <1>2, <1>3, <6>1, <6>2, <7>1, <7>2 DEF At
          <6>3. CASE k - 1 \notin 1 .. l
            <7>1. k - 1 \notin 1 .. l - 1
              BY <1>3, <6>3
            <7>. QED BY <1>2, <1>3, <6>1, <6>3, <7>1 DEF At
          <6>. QED BY <6>2, <6>3
        <5>2. CASE ~ k < i
          <6>1. j = k + 1 /\ ~ (k - 1 < i) /\ k - 1 \in 1 .. l - 1 /\ (k - 1) + 1 = j - 1 /\ j - 1 \in 1 .. l
            <7>1. j = k + 1 /\ k # i
              BY <2>1, <3>2, <5>2
            <7>2. k > i
              BY <1>3, <5>2, <7>1
            <7>. QED BY <1>3, <7>1, <7>2
          <6>2. v[k - 1] = w[j - 1]
            BY <1>3, <6>1
          <6>. QED BY <1>2, <1>3, <6>1, <6>2 DEF At
        <5>. QED BY <5>1, <5>2
      <4>. QED BY <2>5, <3>2, <4>1
    <3>. QED BY <3>1, <3>2
  <2>. QED BY <2>2, <2>4, <2>6, <2>7
<1>. QED BY <1>1, <1>3, <1>7 DEF Chain

\* What add_to_list does to the links.
IsAdded(k, g, i, bp) ==
  /\ IsHeap(k) /\ k.brk = g.brk /\ k.mem = g.mem
  /\ k.seg = [g.seg EXCEPT ![i] = bp]
  /\ bp \in DOMAIN k.link /\ k.link[bp] = [next |-> g.seg[i], prev |-> NULL]
  /\ \A x \in DOMAIN g.link : x # bp =>
       /\ x \in DOMAIN k.link
       /\ k.link[x] = IF x = g.seg[i] /\ x # NULL THEN [g.link[x] EXCEPT !.prev = bp]
                      ELSE g.link[x]

LEMMA AddedLinks ==
  ASSUME NEW g, IsHeap(g), NEW bp \in Address, NEW i, i = index_seg(SizeAt(g, bp)),
         NEW k, k = add_to_list(g, bp), g.seg[i] # bp, g.seg \in [Seg -> Nat],
         g.seg[i] # NULL => g.seg[i] \in DOMAIN g.link
  PROVE  IsAdded(k, g, i, bp)
<1>1. PICK new : new = [next |-> g.seg[i], prev |-> NULL]
  OBVIOUS
<1>2. PICK linked : linked = [p \in DOMAIN g.link \cup {bp} |-> IF p = bp THEN new ELSE g.link[p]]
  OBVIOUS
<1>3. PICK both : both = IF g.seg[i] = NULL THEN linked ELSE [linked EXCEPT ![g.seg[i]].prev = bp]
  OBVIOUS
<1>4. k = [g EXCEPT !.seg[i] = bp, !.link = both]
  BY <1>1, <1>2, <1>3 DEF add_to_list, SetLink
<1>5. k = [brk |-> g.brk, mem |-> g.mem, seg |-> [g.seg EXCEPT ![i] = bp], link |-> both]
  BY <1>4 DEF IsHeap
<1>6. /\ IsHeap(k) /\ k.brk = g.brk /\ k.mem = g.mem
      /\ k.seg = [g.seg EXCEPT ![i] = bp] /\ k.link = both
  BY <1>5 DEF IsHeap
<1>7. bp \in DOMAIN both /\ both[bp] = new
  BY <1>2, <1>3
<1>8. ASSUME NEW x \in DOMAIN g.link, x # bp
      PROVE  /\ x \in DOMAIN both
             /\ both[x] = IF x = g.seg[i] /\ x # NULL THEN [g.link[x] EXCEPT !.prev = bp]
                          ELSE g.link[x]
  <2>1. x \in DOMAIN linked /\ linked[x] = g.link[x]
    BY <1>2, <1>8
  <2>. QED BY <1>3, <2>1
<1>. QED BY <1>1, <1>6, <1>7, <1>8 DEF IsAdded

\* add_to_list lists the block, and changes nothing else.
LEMMA AddList ==
  ASSUME NEW g, IsHeap(g), NEW F, ListsHold(g, F), NEW bp \in Address, bp \notin F,
         NEW k, k = add_to_list(g, bp)
  PROVE  Listed(k, g, F \cup {bp})
<1>1. PICK L : /\ Linked(g, L)
               /\ \A s \in Seg : ToSet(L[s]) = {x \in F : index_seg(SizeAt(g, x)) = s}
  BY DEF ListsHold
<1>2. PICK i \in Seg : i = index_seg(SizeAt(g, bp))
  BY IndexInSeg
<1>3. /\ \A s \in Seg : /\ L[s] \in Seq(Address) /\ g.seg[s] = At(L[s], 1)
                        /\ Chain(g.link, L[s]) /\ IsInjective(L[s])
      /\ L \in [Seg -> Seq(Address)] /\ g.seg \in [Seg -> Nat]
      /\ \A s, t \in Seg : s # t => ToSet(L[s]) \cap ToSet(L[t]) = {}
  BY <1>1 DEF Linked
<1>4. ASSUME NEW s \in Seg
      PROVE  /\ g.seg[s] # NULL => g.seg[s] \in ToSet(L[s])
             /\ NULL \notin ToSet(L[s]) /\ bp \notin ToSet(L[s])
             /\ \A x \in ToSet(L[s]) : x \in DOMAIN g.link
             /\ \A x \in ToSet(L[s]) : g.link[x] = [next |-> g.link[x].next, prev |-> g.link[x].prev]
  <2>1. \A x : x \in ToSet(L[s]) <=> \E j \in 1 .. Len(L[s]) : L[s][j] = x
    BY <1>3, ElementsAre
  <2>2. \A j \in 1 .. Len(L[s]) : /\ L[s][j] \in DOMAIN g.link
                                  /\ g.link[L[s][j]] = [next |-> At(L[s], j + 1), prev |-> At(L[s], j - 1)]
    BY <1>3 DEF Chain
  <2>3. g.seg[s] # NULL => g.seg[s] \in ToSet(L[s])
    BY <1>3, <2>1 DEF At
  <2>4. NULL \notin ToSet(L[s])
    <3>1. \A j \in 1 .. Len(L[s]) : L[s][j] \in Address
      BY <1>3
    <3>. QED BY <2>1, <3>1 DEF Address, NULL
  <2>5. bp \notin ToSet(L[s])
    BY <1>1
  <2>6. \A x \in ToSet(L[s]) : x \in DOMAIN g.link
    BY <2>1, <2>2
  <2>7. ASSUME NEW x \in ToSet(L[s])
        PROVE  g.link[x] = [next |-> g.link[x].next, prev |-> g.link[x].prev]
    <3>1. PICK j \in 1 .. Len(L[s]) : L[s][j] = x
      BY <2>1
    <3>2. g.link[x] = [next |-> At(L[s], j + 1), prev |-> At(L[s], j - 1)]
      BY <2>2, <3>1
    <3>. QED BY <3>2
  <2>. QED BY <2>3, <2>4, <2>5, <2>6, <2>7
<1>5. /\ IsHeap(k) /\ k.brk = g.brk /\ k.mem = g.mem
      /\ k.seg = [g.seg EXCEPT ![i] = bp]
      /\ bp \in DOMAIN k.link /\ k.link[bp] = [next |-> g.seg[i], prev |-> NULL]
      /\ \A x \in DOMAIN g.link : x # bp =>
           /\ x \in DOMAIN k.link
           /\ k.link[x] = IF x = g.seg[i] /\ x # NULL THEN [g.link[x] EXCEPT !.prev = bp]
                          ELSE g.link[x]
  <2>1. g.seg[i] # bp /\ (g.seg[i] # NULL => g.seg[i] \in DOMAIN g.link)
    <3>1. bp # NULL
      BY DEF Address, NULL
    <3>. QED BY <1>4, <3>1
  <2>2. IsAdded(k, g, i, bp)
    BY <1>2, <1>3, <2>1, AddedLinks
  <2>. QED BY <2>2 DEF IsAdded
<1>6. PICK v : v = <<bp>> \o L[i]
  OBVIOUS
<1>7. /\ v \in Seq(Address) /\ v[1] = bp /\ Len(v) = Len(L[i]) + 1
      /\ ToSet(v) = {bp} \cup ToSet(L[i]) /\ IsInjective(v)
  BY <1>3, <1>4, <1>6, Prepended
<1>8. Chain(k.link, v)
  <2>1. bp \in DOMAIN k.link /\ k.link[bp] = [next |-> At(L[i], 1), prev |-> NULL]
    BY <1>3, <1>5
  <2>2. ASSUME NEW x \in ToSet(L[i])
        PROVE  /\ x \in DOMAIN k.link
               /\ k.link[x] = IF x = At(L[i], 1) THEN [next |-> g.link[x].next, prev |-> bp]
                              ELSE g.link[x]
    <3>1. x \in DOMAIN g.link /\ x # bp /\ x # NULL
      BY <1>4
    <3>2. x \in DOMAIN k.link
      BY <1>5, <3>1
    <3>3. k.link[x] = IF x = At(L[i], 1) THEN [g.link[x] EXCEPT !.prev = bp] ELSE g.link[x]
      BY <1>3, <1>5, <3>1
    <3>4. g.link[x] = [next |-> g.link[x].next, prev |-> g.link[x].prev]
      BY <1>4
    <3>5. [g.link[x] EXCEPT !.prev = bp] = [next |-> g.link[x].next, prev |-> bp]
      BY <3>4
    <3>. QED BY <3>2, <3>3, <3>5
  <2>3. L[i] \in Seq(Address) /\ Chain(g.link, L[i]) /\ IsInjective(L[i]) /\ bp \notin ToSet(L[i])
    BY <1>3, <1>4
  <2>. QED BY <1>6, <2>1, <2>2, <2>3, ChainPrepended
<1>9. ASSUME NEW s \in Seg, s # i PROVE Chain(k.link, L[s])
  <2>1. ASSUME NEW x \in ToSet(L[s]), x \in DOMAIN g.link
        PROVE  x \in DOMAIN k.link /\ k.link[x] = g.link[x]
    <3>1. x # bp
      BY <1>4
    <3>2. x # g.seg[i] \/ x = NULL
      BY <1>3, <1>4, <1>9
    <3>. QED BY <1>5, <2>1, <3>1, <3>2
  <2>2. L[s] \in Seq(Address) /\ Chain(g.link, L[s])
    BY <1>3
  <2>. QED BY <2>1, <2>2, ChainKept
<1>10. PICK M : M = [L EXCEPT ![i] = v]
  OBVIOUS
<1>11. M \in [Seg -> Seq(Address)] /\ M[i] = v /\ \A s \in Seg : s # i => M[s] = L[s]
  BY <1>3, <1>7, <1>10
<1>12. k.seg \in [Seg -> Nat] /\ k.seg[i] = bp /\ \A s \in Seg : s # i => k.seg[s] = g.seg[s]
  <2>1. bp \in Nat
    BY DEF Address
  <2>. QED BY <1>3, <1>5, <2>1
<1>13. \A s, t \in Seg : s # t => ToSet(M[s]) \cap ToSet(M[t]) = {}
  <2>. SUFFICES ASSUME NEW s \in Seg, NEW t \in Seg, s # t
                PROVE  ToSet(M[s]) \cap ToSet(M[t]) = {}
    OBVIOUS
  <2>1. ToSet(L[s]) \cap ToSet(L[t]) = {} /\ bp \notin ToSet(L[s]) /\ bp \notin ToSet(L[t])
    BY <1>3, <1>4
  <2>2. \A r \in Seg : ToSet(M[r]) = ToSet(L[r]) \cup (IF r = i THEN {bp} ELSE {})
    BY <1>7, <1>11
  <2>. QED BY <2>1, <2>2
<1>14. ASSUME NEW s \in Seg
       PROVE  k.seg[s] = At(M[s], 1) /\ Chain(k.link, M[s]) /\ IsInjective(M[s])
  <2>1. CASE s = i
    <3>1. At(v, 1) = bp
      <4>1. 1 \in 1 .. Len(v)
        <5>1. Len(L[i]) \in Nat
          BY <1>3
        <5>. QED BY <1>7, <5>1
      <4>. QED BY <1>7, <4>1 DEF At
    <3>. QED BY <1>7, <1>8, <1>11, <1>12, <2>1, <3>1
  <2>2. CASE s # i
    BY <1>3, <1>9, <1>11, <1>12, <2>2
  <2>. QED BY <2>1, <2>2
<1>15. Linked(k, M)
  BY <1>11, <1>12, <1>13, <1>14 DEF Linked
<1>16. \A x : SizeAt(k, x) = SizeAt(g, x)
  BY <1>5 DEF SizeAt, GET
<1>17. ASSUME NEW s \in Seg
       PROVE  ToSet(M[s]) = {x \in F \cup {bp} : index_seg(SizeAt(k, x)) = s}
  <2>1. {x \in F \cup {bp} : index_seg(SizeAt(k, x)) = s} =
          {x \in F : index_seg(SizeAt(g, x)) = s} \cup (IF s = i THEN {bp} ELSE {})
    BY <1>2, <1>16
  <2>2. ToSet(M[s]) = ToSet(L[s]) \cup (IF s = i THEN {bp} ELSE {})
    BY <1>7, <1>11
  <2>3. ToSet(L[s]) = {x \in F : index_seg(SizeAt(g, x)) = s}
    BY <1>1
  <2>. QED BY <2>1, <2>2, <2>3
<1>. QED BY <1>5, <1>15, <1>17 DEF ListsHold, Listed

\* What delete_from_list does to the links.
IsDeleted(k, g, i, bp, n, p) ==
  /\ IsHeap(k) /\ k.brk = g.brk /\ k.mem = g.mem
  /\ k.seg = [g.seg EXCEPT ![i] = IF p = NULL THEN n ELSE g.seg[i]]
  /\ \A x \in DOMAIN g.link \ {bp, NULL} :
       g.link[x] = [next |-> g.link[x].next, prev |-> g.link[x].prev] =>
         /\ x \in DOMAIN k.link
         /\ k.link[x] = [next |-> IF x = p THEN n ELSE g.link[x].next,
                         prev |-> IF x = n THEN p ELSE g.link[x].prev]

LEMMA DeletedLinks ==
  ASSUME NEW g, IsHeap(g), NEW bp, NEW i, i = index_seg(SizeAt(g, bp)),
         NEW n, n = g.link[bp].next, NEW p, p = g.link[bp].prev,
         NEW k, k = delete_from_list(g, bp)
  PROVE  IsDeleted(k, g, i, bp, n, p)
<1>1. PICK after : after = IF n = NULL THEN g.link ELSE [g.link EXCEPT ![n].prev = p]
  OBVIOUS
<1>2. PICK both : both = IF p = NULL THEN after ELSE [after EXCEPT ![p].next = n]
  OBVIOUS
<1>3. PICK links : links = [x \in DOMAIN both \ {bp} |-> both[x]]
  OBVIOUS
<1>4. k = [g EXCEPT !.seg[i] = IF p = NULL THEN n ELSE @, !.link = links]
  BY ZenonT(60), <1>1, <1>2, <1>3 DEF delete_from_list, DropLink
<1>5. k = [brk |-> g.brk, mem |-> g.mem,
           seg |-> [g.seg EXCEPT ![i] = IF p = NULL THEN n ELSE g.seg[i]], link |-> links]
  BY <1>4 DEF IsHeap
<1>6. /\ IsHeap(k) /\ k.brk = g.brk /\ k.mem = g.mem /\ k.link = links
      /\ k.seg = [g.seg EXCEPT ![i] = IF p = NULL THEN n ELSE g.seg[i]]
  BY <1>5 DEF IsHeap
<1>7. ASSUME NEW x \in DOMAIN g.link \ {bp, NULL}, NEW a, NEW b,
             g.link[x] = [next |-> a, prev |-> b]
      PROVE  /\ x \in DOMAIN links
             /\ links[x] = [next |-> IF x = p THEN n ELSE a, prev |-> IF x = n THEN p ELSE b]
  <2>1. x \in DOMAIN after /\ after[x] = [next |-> a, prev |-> IF x = n THEN p ELSE b]
    BY <1>1, <1>7
  <2>2. PICK c : c = IF x = n THEN p ELSE b
    OBVIOUS
  <2>3. after[x] = [next |-> a, prev |-> c]
    BY <2>1, <2>2
  <2>4. x \in DOMAIN both /\ both[x] = [next |-> IF x = p THEN n ELSE a, prev |-> c]
    BY <1>2, <1>7, <2>1, <2>3
  <2>. QED BY <1>3, <2>2, <2>4
<1>. QED BY <1>6, <1>7 DEF IsDeleted

\* delete_from_list unlists the block, and changes nothing else.
LEMMA DeleteList ==
  ASSUME NEW g, IsHeap(g), NEW F, ListsHold(g, F), NEW bp \in F,
         NEW k, k = delete_from_list(g, bp)
  PROVE  Listed(k, g, F \ {bp})
<1>1. PICK L : /\ Linked(g, L)
               /\ \A s \in Seg : ToSet(L[s]) = {x \in F : index_seg(SizeAt(g, x)) = s}
  BY DEF ListsHold
<1>2. PICK i \in Seg : i = index_seg(SizeAt(g, bp))
  BY IndexInSeg
<1>3. /\ \A s \in Seg : /\ L[s] \in Seq(Address) /\ g.seg[s] = At(L[s], 1)
                        /\ Chain(g.link, L[s]) /\ IsInjective(L[s])
      /\ L \in [Seg -> Seq(Address)] /\ g.seg \in [Seg -> Nat]
      /\ \A s, t \in Seg : s # t => ToSet(L[s]) \cap ToSet(L[t]) = {}
  BY <1>1 DEF Linked
<1>4. ASSUME NEW s \in Seg
      PROVE  /\ \A j \in 1 .. Len(L[s]) : L[s][j] \in ToSet(L[s])
             /\ NULL \notin ToSet(L[s])
             /\ \A x \in ToSet(L[s]) : x \in DOMAIN g.link
             /\ \A x \in ToSet(L[s]) : g.link[x] = [next |-> g.link[x].next, prev |-> g.link[x].prev]
  <2>1. \A x : x \in ToSet(L[s]) <=> \E j \in 1 .. Len(L[s]) : L[s][j] = x
    BY <1>3, ElementsAre
  <2>2. \A j \in 1 .. Len(L[s]) : /\ L[s][j] \in DOMAIN g.link
                                  /\ g.link[L[s][j]] = [next |-> At(L[s], j + 1), prev |-> At(L[s], j - 1)]
    BY <1>3 DEF Chain
  <2>4. NULL \notin ToSet(L[s])
    <3>1. \A j \in 1 .. Len(L[s]) : L[s][j] \in Address
      BY <1>3
    <3>. QED BY <2>1, <3>1 DEF Address, NULL
  <2>6. \A x \in ToSet(L[s]) : x \in DOMAIN g.link
    BY <2>1, <2>2
  <2>7. ASSUME NEW x \in ToSet(L[s])
        PROVE  g.link[x] = [next |-> g.link[x].next, prev |-> g.link[x].prev]
    <3>1. PICK j \in 1 .. Len(L[s]) : L[s][j] = x
      BY <2>1
    <3>2. g.link[x] = [next |-> At(L[s], j + 1), prev |-> At(L[s], j - 1)]
      BY <2>2, <3>1
    <3>. QED BY <3>2
  <2>. QED BY <2>1, <2>4, <2>6, <2>7
<1>5. PICK w \in Seq(Address) : w = L[i]
  BY <1>3
<1>6. Len(w) \in Nat /\ Chain(g.link, w) /\ IsInjective(w) /\ g.seg[i] = At(w, 1)
  BY <1>3, <1>5
<1>7. PICK j \in 1 .. Len(w) : w[j] = bp
  <2>1. bp \in ToSet(w)
    BY <1>1, <1>2, <1>5
  <2>. QED BY <2>1, ElementsAre
<1>8. PICK n : n = At(w, j + 1)
  OBVIOUS
<1>9. PICK p : p = At(w, j - 1)
  OBVIOUS
<1>10. IsDeleted(k, g, i, bp, n, p)
  <2>1. g.link[bp] = [next |-> n, prev |-> p]
    BY <1>6, <1>7, <1>8, <1>9 DEF Chain
  <2>2. n = g.link[bp].next /\ p = g.link[bp].prev
    BY <2>1
  <2>. QED BY <1>2, <2>2, DeletedLinks
<1>11. /\ IsHeap(k) /\ k.brk = g.brk /\ k.mem = g.mem
       /\ k.seg = [g.seg EXCEPT ![i] = IF p = NULL THEN n ELSE g.seg[i]]
  BY <1>10 DEF IsDeleted
<1>12. ASSUME NEW s \in Seg, NEW x \in ToSet(L[s]), x # bp
       PROVE  /\ x \in DOMAIN k.link
              /\ k.link[x] = [next |-> IF x = p THEN n ELSE g.link[x].next,
                              prev |-> IF x = n THEN p ELSE g.link[x].prev]
  <2>1. /\ x \in DOMAIN g.link \ {bp, NULL}
        /\ g.link[x] = [next |-> g.link[x].next, prev |-> g.link[x].prev]
    BY <1>4, <1>12
  <2>. QED BY <1>10, <2>1 DEF IsDeleted
<1>13. PICK v : v = RemoveAt(w, j)
  OBVIOUS
<1>14. /\ v \in Seq(Address) /\ Len(v) = Len(w) - 1
       /\ \A x \in 1 .. Len(w) - 1 : v[x] = IF x < j THEN w[x] ELSE w[x + 1]
       /\ ToSet(v) = ToSet(w) \ {bp} /\ IsInjective(v)
  <2>1. ToSet(RemoveAt(w, j)) = ToSet(w) \ {w[j]} /\ IsInjective(RemoveAt(w, j))
    BY <1>6, Removed
  <2>2. /\ RemoveAt(w, j) \in Seq(Address) /\ Len(RemoveAt(w, j)) = Len(w) - 1
        /\ \A x \in 1 .. Len(w) - 1 : RemoveAt(w, j)[x] = IF x < j THEN w[x] ELSE w[x + 1]
    BY TakenOut
  <2>. QED BY <1>7, <1>13, <2>1, <2>2
<1>15. Chain(k.link, v)
  <2>1. \A x \in ToSet(w) \ {w[j]} :
          /\ x \in DOMAIN k.link
          /\ k.link[x] = [next |-> IF x = p THEN n ELSE g.link[x].next,
                          prev |-> IF x = n THEN p ELSE g.link[x].prev]
    BY <1>5, <1>7, <1>12
  <2>. QED BY <1>6, <1>8, <1>9, <1>13, <2>1, ChainRemoved
<1>16. ASSUME NEW s \in Seg, s # i PROVE Chain(k.link, L[s])
  <2>1. (n = NULL \/ n \in ToSet(L[i])) /\ (p = NULL \/ p \in ToSet(L[i])) /\ bp \in ToSet(L[i])
    BY <1>4, <1>5, <1>7, <1>8, <1>9 DEF At
  <2>2. ASSUME NEW x \in ToSet(L[s]), x \in DOMAIN g.link
        PROVE  x \in DOMAIN k.link /\ k.link[x] = g.link[x]
    <3>1. x # n /\ x # p /\ x # bp
      BY <1>3, <1>4, <1>16, <2>1
    <3>2. g.link[x] = [next |-> g.link[x].next, prev |-> g.link[x].prev]
      BY <1>4
    <3>. QED BY <1>12, <3>1, <3>2
  <2>3. L[s] \in Seq(Address) /\ Chain(g.link, L[s])
    BY <1>3
  <2>. QED BY <2>2, <2>3, ChainKept
<1>17. PICK M : M = [L EXCEPT ![i] = v]
  OBVIOUS
<1>18. M \in [Seg -> Seq(Address)] /\ M[i] = v /\ \A s \in Seg : s # i => M[s] = L[s]
  BY <1>3, <1>14, <1>17
<1>19. k.seg[i] = At(v, 1)
  <2>1. k.seg[i] = IF p = NULL THEN n ELSE At(w, 1)
    BY <1>3, <1>6, <1>11
  <2>2. \A x \in 1 .. Len(w) : w[x] # NULL
    BY DEF Address, NULL
  <2>3. CASE j = 1
    <3>1. p = NULL
      BY <1>9, <2>3 DEF At
    <3>2. At(v, 1) = At(w, 2)
      <4>1. CASE 2 \in 1 .. Len(w)
        <5>1. 1 \in 1 .. Len(w) - 1 /\ ~ (1 < j) /\ 1 + 1 = 2
          BY <1>6, <2>3, <4>1
        <5>. QED BY <1>14, <4>1, <5>1 DEF At
      <4>2. CASE 2 \notin 1 .. Len(w)
        <5>1. 1 \notin 1 .. Len(w) - 1
          BY <1>6, <4>2
        <5>. QED BY <1>14, <4>2, <5>1 DEF At
      <4>. QED BY <4>1, <4>2
    <3>3. j + 1 = 2
      BY <2>3
    <3>. QED BY <1>8, <2>1, <3>1, <3>2, <3>3
  <2>4. CASE j # 1
    <3>1. j - 1 \in 1 .. Len(w) /\ 1 \in 1 .. Len(w) - 1 /\ 1 < j /\ 1 \in 1 .. Len(w)
      BY <1>6, <2>4
    <3>2. p # NULL
      BY <1>9, <2>2, <3>1 DEF At
    <3>3. At(v, 1) = At(w, 1)
      BY <1>14, <3>1 DEF At
    <3>. QED BY <2>1, <3>2, <3>3
  <2>. QED BY <2>3, <2>4
<1>20. k.seg \in [Seg -> Nat] /\ \A s \in Seg : s # i => k.seg[s] = g.seg[s]
  <2>1. At(v, 1) \in Nat
    BY <1>14 DEF At, Address, NULL
  <2>2. k.seg = [g.seg EXCEPT ![i] = At(v, 1)]
    BY <1>3, <1>11, <1>19
  <2>. QED BY <1>3, <2>1, <2>2
<1>21. \A s, t \in Seg : s # t => ToSet(M[s]) \cap ToSet(M[t]) = {}
  <2>1. \A s \in Seg : ToSet(M[s]) \subseteq ToSet(L[s])
    BY <1>5, <1>14, <1>18
  <2>. QED BY <1>3, <2>1
<1>22. ASSUME NEW s \in Seg
       PROVE  k.seg[s] = At(M[s], 1) /\ Chain(k.link, M[s]) /\ IsInjective(M[s])
  <2>1. CASE s = i
    BY <1>14, <1>15, <1>18, <1>19, <2>1
  <2>2. CASE s # i
    BY <1>3, <1>16, <1>18, <1>20, <2>2
  <2>. QED BY <2>1, <2>2
<1>23. Linked(k, M)
  BY <1>18, <1>20, <1>21, <1>22 DEF Linked
<1>24. \A x : SizeAt(k, x) = SizeAt(g, x)
  BY <1>11 DEF SizeAt, GET
<1>25. ASSUME NEW s \in Seg
       PROVE  ToSet(M[s]) = {x \in F \ {bp} : index_seg(SizeAt(k, x)) = s}
  <2>1. {x \in F \ {bp} : index_seg(SizeAt(k, x)) = s} =
          {x \in F : index_seg(SizeAt(g, x)) = s} \ (IF s = i THEN {bp} ELSE {})
    BY <1>2, <1>24
  <2>2. ToSet(M[s]) = ToSet(L[s]) \ (IF s = i THEN {bp} ELSE {})
    BY <1>5, <1>14, <1>18
  <2>3. ToSet(L[s]) = {x \in F : index_seg(SizeAt(g, x)) = s}
    BY <1>1
  <2>. QED BY <2>1, <2>2, <2>3
<1>. QED BY <1>11, <1>23, <1>25 DEF ListsHold, Listed

\* The lists do not mind tags, as long as the sizes of the blocks listed stay.
LEMMA ListsKept ==
  ASSUME NEW g, NEW F, ListsHold(g, F), NEW k, k.seg = g.seg, k.link = g.link,
         \A x \in F : SizeAt(k, x) = SizeAt(g, x)
  PROVE  ListsHold(k, F)
<1>1. PICK L : /\ Linked(g, L)
               /\ \A s \in Seg : ToSet(L[s]) = {x \in F : index_seg(SizeAt(g, x)) = s}
  BY DEF ListsHold
<1>2. Linked(k, L)
  BY <1>1 DEF Linked
<1>3. \A s \in Seg : {x \in F : index_seg(SizeAt(g, x)) = s} = {x \in F : index_seg(SizeAt(k, x)) = s}
  OBVIOUS
<1>. QED BY <1>1, <1>2, <1>3 DEF ListsHold

-----------------------------------------------------------------------------
(* The heap between calls. *)

FreeIn(g, P) == {p \in P : ~ AllocAt(g, p)}
TakenIn(g, P) == {p \in P : AllocAt(g, p)}

\* The blocks P fill the heap, the lists hold the free ones, and no free block
\* follows a free block.
Sound(g, P) ==
  /\ Shape(g, P)
  /\ ListsHold(g, FreeIn(g, P))
  /\ \A p, q \in P : q = p + SizeAt(g, p) => AllocAt(g, p) \/ AllocAt(g, q)

\* So it is but for the free block x, which is not listed yet and whose
\* neighbours may be free.
SoundBut(g, P, x) ==
  /\ Shape(g, P)
  /\ x \in P /\ ~ AllocAt(g, x)
  /\ ListsHold(g, FreeIn(g, P) \ {x})
  /\ \A p, q \in P \ {x} : q = p + SizeAt(g, p) => AllocAt(g, p) \/ AllocAt(g, q)

\* The blocks that are taken stay, with their sizes.
Kept(g, P, k, Q) ==
  /\ TakenIn(k, Q) = TakenIn(g, P)
  /\ \A p \in TakenIn(g, P) : SizeAt(k, p) = SizeAt(g, p)

\* x has become part of the free block bp of a sound heap.
Merged(g, P, x, k, bp) ==
  \E Q : /\ Sound(k, Q) /\ k.brk = g.brk /\ Kept(g, P, k, Q)
         /\ bp \in Q /\ ~ AllocAt(k, bp) /\ SizeAt(k, bp) >= SizeAt(g, x)

\* What the proofs about the heap use of a shape.
LEMMA ShapeFacts ==
  ASSUME NEW g, NEW P, Shape(g, P)
  PROVE  /\ IsHeap(g) /\ g.brk \in Nat /\ P \in SUBSET Nat /\ g.brk \notin P
         /\ \A p \in P : /\ p \in Nat /\ p >= 16 /\ SizeAt(g, p) \in Nat /\ SizeAt(g, p) >= 24
                         /\ AllocAt(g, p) \in BOOLEAN
                         /\ p + SizeAt(g, p) <= g.brk /\ p + SizeAt(g, p) \in P \cup {g.brk}
         /\ \A p, q \in P : p < q => p + SizeAt(g, p) <= q
<1>1. /\ IsHeap(g) /\ g.brk \in Nat /\ P \in SUBSET Nat
      /\ \A p \in P : /\ p \in Nat /\ p >= 16 /\ SizeAt(g, p) \in Nat /\ SizeAt(g, p) >= 24
                      /\ AllocAt(g, p) \in BOOLEAN /\ p + SizeAt(g, p) <= g.brk
      /\ \A p, q \in P : p < q => p + SizeAt(g, p) <= q
  BY DEF Shape, Block, IsHeap
<1>2. \A p \in P : p + SizeAt(g, p) \in P \cup {g.brk}
  BY DEF Shape, Tiled
<1>3. g.brk \notin P
  BY <1>1
<1>. QED BY <1>1, <1>2, <1>3

\* The free blocks D lie about x; with it they reach from first to end.
About(g, P, x, D, first, end) ==
  /\ D \in SUBSET P /\ x \notin D
  /\ first \in P /\ end \in P \cup {g.brk} /\ first <= x /\ x < end
  /\ first \in D \cup {x}
  /\ \A p \in D : ~ AllocAt(g, p) /\ first <= p /\ p < end
  /\ \A p \in P : first < p /\ p < end => p \in D \cup {x}
  /\ end \in P => AllocAt(g, end)
  /\ \A p \in P : p + SizeAt(g, p) = first => AllocAt(g, p)

\* x merged with the blocks about it.
LEMMA Merge ==
  ASSUME NEW g, NEW P, NEW x, SoundBut(g, P, x), NEW D, NEW first, NEW end,
         About(g, P, x, D, first, end),
         NEW g2, IsHeap(g2), g2.brk = g.brk, g2.mem = g.mem,
         ListsHold(g2, (FreeIn(g, P) \ {x}) \ D),
         NEW n, n = end - first, NEW m, m = PutBlock(g2, first, n, FALSE),
         NEW k, k = add_to_list(m, first)
  PROVE  Merged(g, P, x, k, first)
<1>0. /\ D \in SUBSET P /\ x \notin D
      /\ first \in P /\ end \in P \cup {g.brk} /\ first <= x /\ x < end
      /\ first \in D \cup {x}
      /\ \A p \in D : ~ AllocAt(g, p) /\ first <= p /\ p < end
      /\ \A p \in P : first < p /\ p < end => p \in D \cup {x}
      /\ end \in P => AllocAt(g, end)
      /\ \A p \in P : p + SizeAt(g, p) = first => AllocAt(g, p)
  BY DEF About
<1>1. /\ Shape(g, P) /\ x \in P /\ ~ AllocAt(g, x)
      /\ \A p, q \in P \ {x} : q = p + SizeAt(g, p) => AllocAt(g, p) \/ AllocAt(g, q)
  BY DEF SoundBut
<1>2. /\ g.brk \in Nat /\ P \in SUBSET Nat /\ g.brk \notin P
      /\ \A p \in P : /\ p \in Nat /\ p >= 16 /\ SizeAt(g, p) \in Nat /\ SizeAt(g, p) >= 24
                      /\ AllocAt(g, p) \in BOOLEAN
                      /\ p + SizeAt(g, p) <= g.brk /\ p + SizeAt(g, p) \in P \cup {g.brk}
      /\ \A p, q \in P : p < q => p + SizeAt(g, p) <= q
  BY <1>1, ShapeFacts
<1>3. Shape(g2, P) /\ \A p : SizeAt(g2, p) = SizeAt(g, p) /\ AllocAt(g2, p) = AllocAt(g, p)
  BY <1>1, SameShape DEF SameTags
<1>4. PICK Q : Q = {p \in P : p <= first \/ p >= end}
  OBVIOUS
<1>5. first < end /\ first \in P /\ end \in P \cup {g2.brk} /\ end \in Nat
  BY <1>0, <1>1, <1>2
<1>6. /\ Shape(m, Q) /\ m.brk = g2.brk /\ m.seg = g2.seg /\ m.link = g2.link
      /\ SizeAt(m, first) = n /\ AllocAt(m, first) = FALSE
      /\ \A p \in Q \ {first} : SizeAt(m, p) = SizeAt(g2, p) /\ AllocAt(m, p) = AllocAt(g2, p)
  <2>1. IsCarved(m, g2, Q, first, n, FALSE)
    BY <1>3, <1>4, <1>5, Carve
  <2>. QED BY <2>1 DEF IsCarved
<1>7. \A p \in Q \ {first} : SizeAt(m, p) = SizeAt(g, p) /\ AllocAt(m, p) = AllocAt(g, p)
  BY <1>3, <1>6
<1>8. first \in Q /\ \A p : p \in Q \ {first} <=> p \in P /\ p \notin D \cup {x}
  <2>1. \A p \in D \cup {x} : p \in P /\ first <= p /\ p < end
    BY <1>0, <1>1
  <2>2. ASSUME NEW p PROVE p \in Q \ {first} <=> p \in P /\ p \notin D \cup {x}
    <3>1. CASE p \in P
      <4>1. p \in Nat /\ first \in Nat /\ end \in Nat
        BY <1>2, <1>5, <3>1
      <4>2. CASE p \in D \cup {x}
        BY <1>4, <2>1, <4>1, <4>2
      <4>3. CASE p \notin D \cup {x}
        BY <1>0, <1>4, <3>1, <4>1, <4>3
      <4>. QED BY <4>2, <4>3
    <3>2. CASE p \notin P
      BY <1>4, <3>2
    <3>. QED BY <3>1, <3>2
  <2>3. first \in Q
    BY <1>2, <1>4, <1>5
  <2>. QED BY <2>2, <2>3
<1>9. PICK F : F = (FreeIn(g, P) \ {x}) \ D
  OBVIOUS
<1>10. \A p : p \in F <=> p \in Q \ {first} /\ ~ AllocAt(g, p)
  BY <1>8, <1>9 DEF FreeIn
<1>11. ListsHold(m, F)
  <2>1. \A p \in F : SizeAt(m, p) = SizeAt(g2, p)
    BY <1>6, <1>10
  <2>. QED BY <1>6, <1>9, <2>1, ListsKept
<1>12. first \in Address /\ first \notin F /\ IsHeap(m)
  <2>1. first \in Nat /\ first >= 16
    BY <1>2, <1>5
  <2>2. first \in Address
    BY <2>1 DEF Address
  <2>3. IsHeap(m)
    BY <1>6 DEF Shape
  <2>. QED BY <1>10, <2>2, <2>3
<1>13. IsHeap(k) /\ k.brk = m.brk /\ k.mem = m.mem /\ ListsHold(k, F \cup {first})
  <2>1. Listed(k, m, F \cup {first})
    BY <1>11, <1>12, AddList
  <2>. QED BY <2>1 DEF Listed
<1>14. Shape(k, Q) /\ \A p : SizeAt(k, p) = SizeAt(m, p) /\ AllocAt(k, p) = AllocAt(m, p)
  <2>1. Shape(k, Q) /\ SameTags(k, m)
    BY <1>6, <1>13, SameShape
  <2>. QED BY <2>1 DEF SameTags
<1>15. /\ SizeAt(k, first) = n /\ AllocAt(k, first) = FALSE
       /\ \A p \in Q \ {first} : SizeAt(k, p) = SizeAt(g, p) /\ AllocAt(k, p) = AllocAt(g, p)
  BY <1>6, <1>7, <1>14
<1>16. FreeIn(k, Q) = F \cup {first}
  BY <1>8, <1>10, <1>15 DEF FreeIn
<1>17. ASSUME NEW p \in Q, NEW q \in Q, q = p + SizeAt(k, p)
       PROVE  AllocAt(k, p) \/ AllocAt(k, q)
  <2>0. p \in P /\ q \in P /\ p # q
    <3>1. p \in P /\ q \in P
      BY <1>4
    <3>2. p \in Nat /\ SizeAt(k, p) \in Nat /\ SizeAt(k, p) >= 24
      BY <1>14, ShapeFacts
    <3>3. p # q
      <4>1. PICK z \in Nat : z = SizeAt(k, p)
        BY <3>2
      <4>2. q = p + z
        BY <1>17, <4>1
      <4>3. p \in Nat /\ z >= 24
        BY <3>2, <4>1
      <4>4. p + z # p
        BY <4>3
      <4>. QED BY <4>2, <4>4
    <3>. QED BY <3>1, <3>3
  <2>1. CASE p = first
    <3>1. q = end
      <4>1. first \in Nat /\ end \in Nat
        BY <1>2, <1>5
      <4>2. q = first + n
        BY <1>15, <1>17, <2>1
      <4>. QED BY <4>1, <4>2
    <3>2. AllocAt(g, q)
      BY <1>0, <2>0, <3>1
    <3>. QED BY <1>15, <2>0, <2>1, <3>2
  <2>2. CASE q = first
    <3>1. p \in Q \ {first} /\ p + SizeAt(g, p) = first
      BY <1>15, <1>17, <2>0, <2>2
    <3>2. AllocAt(g, p)
      BY <1>0, <2>0, <3>1
    <3>. QED BY <1>15, <3>1, <3>2
  <2>3. CASE p # first /\ q # first
    <3>1. p \in Q \ {first} /\ q \in Q \ {first}
      BY <2>3
    <3>2. p \in P \ {x} /\ q \in P \ {x}
      BY <1>8, <3>1
    <3>3. q = p + SizeAt(g, p)
      BY <1>15, <1>17, <3>1
    <3>4. AllocAt(g, p) \/ AllocAt(g, q)
      BY <1>1, <3>2, <3>3
    <3>. QED BY <1>15, <3>1, <3>4
  <2>. QED BY <2>1, <2>2, <2>3
<1>18. Sound(k, Q)
  BY <1>13, <1>14, <1>16, <1>17 DEF Sound
<1>19. Kept(g, P, k, Q)
  <2>1. \A p \in D \cup {x} : ~ AllocAt(g, p)
    BY <1>0, <1>1
  <2>2. ASSUME NEW p PROVE p \in TakenIn(k, Q) <=> p \in TakenIn(g, P)
    <3>1. CASE p \in Q \ {first}
      BY <1>8, <1>15, <3>1 DEF TakenIn
    <3>2. CASE p \notin Q \ {first}
      <4>1. p \notin TakenIn(k, Q)
        BY <1>15, <3>2 DEF TakenIn
      <4>2. p \notin TakenIn(g, P)
        BY <1>8, <2>1, <3>2 DEF TakenIn
      <4>. QED BY <4>1, <4>2
    <3>. QED BY <3>1, <3>2
  <2>3. \A p \in TakenIn(g, P) : p \in Q \ {first}
    BY <1>8, <2>1 DEF TakenIn
  <2>. QED BY <1>15, <2>2, <2>3 DEF Kept
<1>20. n >= SizeAt(g, x)
  <2>1. x + SizeAt(g, x) <= end
    BY <1>0, <1>1, <1>2
  <2>2. first \in Nat /\ x \in Nat /\ SizeAt(g, x) \in Nat /\ first <= x
    BY <1>0, <1>1, <1>2
  <2>. QED BY <1>5, <2>1, <2>2
<1>. QED BY <1>6, <1>8, <1>13, <1>15, <1>18, <1>19, <1>20 DEF Merged

\* coalesce lists the block, merged with the free blocks before and after it.
LEMMA Coalesce ==
  ASSUME NEW g, NEW P, NEW x, SoundBut(g, P, x), NEW r, r = coalesce(g, x)
  PROVE  Merged(g, P, x, r.heap, r.bp)
<1>1. /\ Shape(g, P) /\ x \in P /\ ~ AllocAt(g, x)
      /\ ListsHold(g, FreeIn(g, P) \ {x})
      /\ \A p, q \in P \ {x} : q = p + SizeAt(g, p) => AllocAt(g, p) \/ AllocAt(g, q)
  BY DEF SoundBut
<1>2. /\ IsHeap(g) /\ g.brk \in Nat /\ P \in SUBSET Nat /\ g.brk \notin P
      /\ \A p \in P : /\ p \in Nat /\ p >= 16 /\ SizeAt(g, p) \in Nat /\ SizeAt(g, p) >= 24
                      /\ AllocAt(g, p) \in BOOLEAN
                      /\ p + SizeAt(g, p) <= g.brk /\ p + SizeAt(g, p) \in P \cup {g.brk}
      /\ \A p, q \in P : p < q => p + SizeAt(g, p) <= q
  BY <1>1, ShapeFacts
<1>3. PICK b : b = PREV_BLKP(g, x)
  OBVIOUS
<1>4. PICK a : a = NEXT_BLKP(g, x)
  OBVIOUS
<1>5. PICK pa \in BOOLEAN : pa <=> GET(g, FTRP(g, b)).alloc
  OBVIOUS
<1>6. PICK na \in BOOLEAN : na <=> AllocAt(g, a)
  OBVIOUS
<1>7. PICK first : first = IF pa THEN x ELSE b
  OBVIOUS
<1>8. PICK end : end = IF na THEN a ELSE a + SizeAt(g, a)
  OBVIOUS
<1>9. PICK n : n = SizeAt(g, x) + (IF pa THEN 0 ELSE SizeAt(g, b))
                                + (IF na THEN 0 ELSE SizeAt(g, a))
  OBVIOUS
<1>10. PICK g1 : g1 = IF pa THEN g ELSE delete_from_list(g, b)
  OBVIOUS
<1>11. PICK g2 : g2 = IF na THEN g1 ELSE delete_from_list(g1, a)
  OBVIOUS
<1>12. r = [heap |-> add_to_list(PutBlock(g2, first, n, FALSE), first), bp |-> first]
  BY <1>3, <1>4, <1>5, <1>6, <1>7, <1>9, <1>10, <1>11 DEF coalesce
<1>13. /\ pa => \/ x = 16
                \/ b \in P /\ b + SizeAt(g, b) = x /\ AllocAt(g, b)
       /\ ~ pa => b \in P /\ b + SizeAt(g, b) = x /\ ~ AllocAt(g, b)
  <2>1. \/ b = 8 /\ x = 16 /\ GET(g, FTRP(g, b)).alloc
        \/ /\ b \in P /\ b + SizeAt(g, b) = x
           /\ GET(g, FTRP(g, b)).alloc = AllocAt(g, b)
    BY <1>1, <1>3, Before
  <2>. QED BY <1>5, <2>1
<1>14. /\ a = x + SizeAt(g, x) /\ a \in P \cup {g.brk} /\ a \in Nat /\ a >= x + 24
       /\ ~ na => a \in P
  <2>1. /\ NEXT_BLKP(g, x) = x + SizeAt(g, x) /\ NEXT_BLKP(g, x) \in P \cup {g.brk}
        /\ NEXT_BLKP(g, x) \in Nat /\ NEXT_BLKP(g, x) >= x + 24
        /\ AllocAt(g, g.brk) = TRUE
    BY <1>1, After
  <2>. QED BY <1>4, <1>6, <2>1
<1>15. PICK D1 : D1 = IF pa THEN {} ELSE {b}
  OBVIOUS
<1>16. PICK D2 : D2 = IF na THEN {} ELSE {a}
  OBVIOUS
<1>17. /\ D1 \in SUBSET P /\ first \in P /\ first <= x /\ first \in D1 \cup {x}
       /\ x = first + (IF pa THEN 0 ELSE SizeAt(g, b))
       /\ \A p \in D1 : ~ AllocAt(g, p) /\ first <= p /\ p < x
       /\ \A p \in P : ~ (first < p /\ p < x)
       /\ \A p \in P : p + SizeAt(g, p) = first => AllocAt(g, p)
  <2>1. CASE pa
    <3>1. first = x /\ D1 = {} /\ x \in Nat
      BY <1>1, <1>2, <1>7, <1>15, <2>1
    <3>2. ASSUME NEW p \in P, p + SizeAt(g, p) = first PROVE AllocAt(g, p)
      <4>1. p \in Nat /\ p >= 16 /\ SizeAt(g, p) \in Nat /\ SizeAt(g, p) >= 24
        BY <1>2
      <4>2. x # 16
        BY <3>1, <3>2, <4>1
      <4>3. b \in P /\ b + SizeAt(g, b) = x /\ AllocAt(g, b)
        BY <1>13, <2>1, <4>2
      <4>4. ~ (p < b) /\ ~ (b < p)
        <5>1. b \in Nat /\ SizeAt(g, b) \in Nat /\ SizeAt(g, b) >= 24
          BY <1>2, <4>3
        <5>2. p < b => p + SizeAt(g, p) <= b
          BY <1>2, <4>3
        <5>3. b < p => b + SizeAt(g, b) <= p
          BY <1>2, <4>3
        <5>. QED BY <3>1, <3>2, <4>1, <4>3, <5>1, <5>2, <5>3
      <4>5. p = b
        BY <1>2, <4>3, <4>4
      <4>. QED BY <4>3, <4>5
    <3>3. \A p \in P : ~ (first < p /\ p < x)
      BY <1>2, <3>1
    <3>. QED BY <1>1, <2>1, <3>1, <3>2, <3>3
  <2>2. CASE ~ pa
    <3>1. first = b /\ D1 = {b} /\ b \in P /\ b + SizeAt(g, b) = x /\ ~ AllocAt(g, b)
      BY <1>7, <1>13, <1>15, <2>2
    <3>2. b \in Nat /\ SizeAt(g, b) \in Nat /\ SizeAt(g, b) >= 24 /\ x \in Nat
      BY <1>1, <1>2, <3>1
    <3>3. b < x
      BY <3>1, <3>2
    <3>4. ASSUME NEW p \in P, b < p, p < x PROVE FALSE
      <4>1. b + SizeAt(g, b) <= p /\ p \in Nat
        BY <1>2, <3>1, <3>4
      <4>. QED BY <3>1, <3>2, <3>4, <4>1
    <3>5. ASSUME NEW p \in P, p + SizeAt(g, p) = b PROVE AllocAt(g, p)
      <4>1. p \in Nat /\ SizeAt(g, p) \in Nat /\ SizeAt(g, p) >= 24
        BY <1>2
      <4>2. p < b
        BY <3>5, <4>1
      <4>3. p # x /\ b # x
        BY <3>2, <3>3, <4>1, <4>2
      <4>. QED BY <1>1, <3>1, <3>5, <4>3
    <3>. QED BY <2>2, <3>1, <3>2, <3>3, <3>4, <3>5
  <2>. QED BY <2>1, <2>2
<1>18. /\ D2 \in SUBSET P /\ end \in P \cup {g.brk} /\ x < end /\ end \in Nat
       /\ end = x + SizeAt(g, x) + (IF na THEN 0 ELSE SizeAt(g, a))
       /\ \A p \in D2 : ~ AllocAt(g, p) /\ x < p /\ p < end
       /\ \A p \in P : x < p /\ p < end => p \in D2
       /\ end \in P => AllocAt(g, end)
  <2>0. x \in Nat /\ SizeAt(g, x) \in Nat /\ SizeAt(g, x) >= 24
    BY <1>1, <1>2
  <2>1. CASE na
    <3>1. end = a /\ D2 = {}
      BY <1>8, <1>16, <2>1
    <3>2. ASSUME NEW p \in P, x < p, p < end PROVE FALSE
      <4>1. x + SizeAt(g, x) <= p /\ p \in Nat
        BY <1>1, <1>2, <3>2
      <4>. QED BY <1>14, <2>0, <3>1, <3>2, <4>1
    <3>3. x < end
      BY <1>14, <2>0, <3>1
    <3>. QED BY <1>6, <1>14, <2>0, <2>1, <3>1, <3>2, <3>3
  <2>2. CASE ~ na
    <3>1. end = a + SizeAt(g, a) /\ D2 = {a} /\ a \in P /\ ~ AllocAt(g, a) /\ a = x + SizeAt(g, x)
      BY <1>6, <1>8, <1>14, <1>16, <2>2
    <3>2. a \in Nat /\ SizeAt(g, a) \in Nat /\ SizeAt(g, a) >= 24 /\ end \in P \cup {g.brk}
      BY <1>2, <3>1
    <3>3. x < a /\ a < end /\ end \in Nat
      BY <2>0, <3>1, <3>2
    <3>4. ASSUME NEW p \in P, x < p, p < end PROVE p = a
      <4>1. x + SizeAt(g, x) <= p /\ p \in Nat
        BY <1>1, <1>2, <3>4
      <4>2. a < p => a + SizeAt(g, a) <= p
        BY <1>2, <3>1
      <4>. QED BY <3>1, <3>2, <3>4, <4>1, <4>2
    <3>5. ASSUME end \in P PROVE AllocAt(g, end)
      <4>1. a # x /\ end # x
        BY <2>0, <3>2, <3>3
      <4>. QED BY <1>1, <3>1, <3>5, <4>1
    <3>. QED BY <2>0, <2>2, <3>1, <3>2, <3>3, <3>4, <3>5
  <2>. QED BY <2>1, <2>2
<1>19. PICK F : F = FreeIn(g, P) \ {x}
  OBVIOUS
<1>20. Listed(g1, g, F \ D1)
  <2>1. CASE pa
    <3>1. g1 = g /\ F \ D1 = F
      BY <1>10, <1>15, <2>1
    <3>. QED BY <1>1, <1>2, <1>19, <3>1 DEF Listed
  <2>2. CASE ~ pa
    <3>1. g1 = delete_from_list(g, b) /\ D1 = {b}
      BY <1>10, <1>15, <2>2
    <3>2. b \in F
      <4>1. b \in P /\ ~ AllocAt(g, b) /\ b < x
        BY <1>17, <3>1
      <4>2. b # x
        BY <1>1, <1>2, <4>1
      <4>. QED BY <1>19, <4>1, <4>2 DEF FreeIn
    <3>. QED BY <1>1, <1>2, <1>19, <3>1, <3>2, DeleteList
  <2>. QED BY <2>1, <2>2
<1>21. Listed(g2, g, (F \ D1) \ D2)
  <2>0. IsHeap(g1) /\ g1.brk = g.brk /\ g1.mem = g.mem /\ ListsHold(g1, F \ D1)
    BY <1>20 DEF Listed
  <2>1. CASE na
    <3>1. g2 = g1 /\ (F \ D1) \ D2 = F \ D1
      BY <1>11, <1>16, <2>1
    <3>. QED BY <1>20, <3>1
  <2>2. CASE ~ na
    <3>1. g2 = delete_from_list(g1, a) /\ D2 = {a}
      BY <1>11, <1>16, <2>2
    <3>2. a \in F \ D1
      <4>1. a \in P /\ ~ AllocAt(g, a) /\ x < a
        BY <1>18, <3>1
      <4>2. a # x /\ a \notin D1
        BY <1>1, <1>2, <1>17, <4>1
      <4>. QED BY <1>19, <4>1, <4>2 DEF FreeIn
    <3>3. Listed(g2, g1, (F \ D1) \ {a})
      BY <2>0, <3>1, <3>2, DeleteList
    <3>. QED BY <2>0, <3>1, <3>3 DEF Listed
  <2>. QED BY <2>1, <2>2
<1>22. PICK D : D = D1 \cup D2
  OBVIOUS
<1>23. About(g, P, x, D, first, end)
  <2>1. x \in Nat /\ first \in Nat /\ end \in Nat
    BY <1>1, <1>2, <1>17, <1>18
  <2>2. D \in SUBSET P /\ x \notin D
    BY <1>17, <1>18, <1>22, <2>1
  <2>3. \A p \in D : ~ AllocAt(g, p) /\ first <= p /\ p < end
    <3>. SUFFICES ASSUME NEW p \in D PROVE ~ AllocAt(g, p) /\ first <= p /\ p < end
      OBVIOUS
    <3>1. p \in Nat
      BY <1>2, <2>2
    <3>2. CASE p \in D1
      BY <1>17, <1>18, <2>1, <3>1, <3>2
    <3>3. CASE p \in D2
      BY <1>17, <1>18, <2>1, <3>1, <3>3
    <3>. QED BY <1>22, <3>2, <3>3
  <2>4. ASSUME NEW p \in P, first < p, p < end PROVE p \in D \cup {x}
    <3>1. p \in Nat
      BY <1>2
    <3>2. p < x \/ p = x \/ x < p
      BY <2>1, <3>1
    <3>. QED BY <1>17, <1>18, <1>22, <2>4, <3>2
  <2>. QED BY <1>17, <1>18, <1>22, <2>2, <2>3, <2>4 DEF About
<1>24. n = end - first
  <2>1. /\ x \in Nat /\ first \in Nat /\ SizeAt(g, x) \in Nat
        /\ pa \/ SizeAt(g, b) \in Nat
        /\ na \/ SizeAt(g, a) \in Nat
    BY <1>1, <1>2, <1>13, <1>14, <1>17
  <2>. QED BY <1>9, <1>17, <1>18, <2>1
<1>25. IsHeap(g2) /\ g2.brk = g.brk /\ g2.mem = g.mem /\ ListsHold(g2, (FreeIn(g, P) \ {x}) \ D)
  <2>1. (F \ D1) \ D2 = F \ D
    BY <1>22
  <2>. QED BY <1>19, <1>21, <2>1 DEF Listed
<1>26. PICK m : m = PutBlock(g2, first, n, FALSE)
  OBVIOUS
<1>27. PICK k : k = add_to_list(m, first)
  OBVIOUS
<1>28. Merged(g, P, x, k, first)
  BY <1>23, <1>24, <1>25, <1>26, <1>27, Merge
<1>29. r = [heap |-> k, bp |-> first]
  BY <1>12, <1>26, <1>27
<1>30. r.heap = k /\ r.bp = first
  BY <1>29
<1>. QED BY <1>28, <1>30

\* The tags of a block written anew, with another allocated bit.
LEMMA Retag ==
  ASSUME NEW g, NEW P, Shape(g, P), NEW x \in P, NEW a \in BOOLEAN,
         NEW n, n = SizeAt(g, x), NEW k, k = PutBlock(g, x, n, a)
  PROVE  IsCarved(k, g, P, x, n, a)
<1>1. /\ g.brk \in Nat /\ P \in SUBSET Nat
      /\ x \in Nat /\ n \in Nat /\ n >= 24 /\ x + n \in P \cup {g.brk}
      /\ \A p \in P : p \in Nat
      /\ \A p, q \in P : p < q => p + SizeAt(g, p) <= q
  BY ShapeFacts
<1>2. PICK end \in P \cup {g.brk} : end = x + n
  BY <1>1
<1>3. x < end /\ n = end - x
  BY <1>1, <1>2
<1>4. P = {p \in P : p <= x \/ p >= end}
  <2>1. ASSUME NEW p \in P PROVE p <= x \/ p >= end
    <3>1. p \in Nat /\ (x < p => x + n <= p)
      BY <1>1
    <3>. QED BY <1>1, <1>2, <3>1
  <2>. QED BY <2>1
<1>. QED BY <1>3, <1>4, Carve

\* free gives a block back.
LEMMA FreeGives ==
  ASSUME NEW g, NEW P, Sound(g, P), NEW x \in TakenIn(g, P), NEW k, k = free(g, x)
  PROVE  \E Q : /\ Sound(k, Q) /\ k.brk = g.brk
                /\ TakenIn(k, Q) = TakenIn(g, P) \ {x}
                /\ \A p \in TakenIn(g, P) \ {x} : SizeAt(k, p) = SizeAt(g, p)
<1>1. /\ Shape(g, P) /\ ListsHold(g, FreeIn(g, P)) /\ x \in P /\ AllocAt(g, x)
      /\ \A p, q \in P : q = p + SizeAt(g, p) => AllocAt(g, p) \/ AllocAt(g, q)
  BY DEF Sound, TakenIn
<1>2. PICK n : n = SizeAt(g, x)
  OBVIOUS
<1>3. PICK m : m = PutBlock(g, x, n, FALSE)
  OBVIOUS
<1>4. /\ Shape(m, P) /\ m.brk = g.brk /\ m.seg = g.seg /\ m.link = g.link
      /\ SizeAt(m, x) = n /\ AllocAt(m, x) = FALSE
      /\ \A p \in P \ {x} : SizeAt(m, p) = SizeAt(g, p) /\ AllocAt(m, p) = AllocAt(g, p)
  <2>1. IsCarved(m, g, P, x, n, FALSE)
    BY <1>1, <1>2, <1>3, Retag
  <2>. QED BY <2>1 DEF IsCarved
<1>5. SoundBut(m, P, x)
  <2>1. FreeIn(m, P) \ {x} = FreeIn(g, P)
    BY <1>1, <1>4 DEF FreeIn
  <2>2. \A p \in FreeIn(g, P) : SizeAt(m, p) = SizeAt(g, p)
    BY <1>1, <1>4 DEF FreeIn
  <2>3. ListsHold(m, FreeIn(m, P) \ {x})
    BY <1>1, <1>4, <2>1, <2>2, ListsKept
  <2>4. \A p, q \in P \ {x} : q = p + SizeAt(m, p) => AllocAt(m, p) \/ AllocAt(m, q)
    BY <1>1, <1>4
  <2>. QED BY <1>1, <1>4, <2>3, <2>4 DEF SoundBut
<1>6. PICK r : r = coalesce(m, x)
  OBVIOUS
<1>7. k = r.heap
  BY <1>2, <1>3, <1>6 DEF free
<1>8. PICK Q : Sound(k, Q) /\ k.brk = m.brk /\ Kept(m, P, k, Q)
  <2>1. Merged(m, P, x, r.heap, r.bp)
    BY <1>5, <1>6, Coalesce
  <2>. QED BY <1>7, <2>1 DEF Merged
<1>9. TakenIn(m, P) = TakenIn(g, P) \ {x}
  BY <1>1, <1>4 DEF TakenIn
<1>10. \A p \in TakenIn(g, P) \ {x} : SizeAt(k, p) = SizeAt(g, p)
  BY <1>4, <1>8, <1>9 DEF Kept, TakenIn
<1>. QED BY <1>4, <1>8, <1>9, <1>10 DEF Kept

\* The heap k is g with the block x, of n bytes or more, taken.
Placed(g, P, x, n, k) ==
  \E Q : /\ Sound(k, Q) /\ k.brk = g.brk
         /\ TakenIn(k, Q) = TakenIn(g, P) \cup {x}
         /\ \A p \in TakenIn(g, P) : SizeAt(k, p) = SizeAt(g, p)
         /\ SizeAt(k, x) >= n

LEMMA ModAtMost ==
  ASSUME NEW a \in Nat, NEW m \in Nat, m > 0
  PROVE  a % m <= a /\ a % m \in Nat
OBVIOUS

\* place takes a free block, or the front of it.
LEMMA Place ==
  ASSUME NEW g, NEW P, Sound(g, P), NEW x \in FreeIn(g, P),
         NEW n, n \in Nat, n >= 24, n % 8 = 0, n <= SizeAt(g, x), SIZE_T > 0,
         NEW k, k = place(g, x, n)
  PROVE  Placed(g, P, x, n, k)
<1>1. /\ Shape(g, P) /\ ListsHold(g, FreeIn(g, P)) /\ x \in P /\ ~ AllocAt(g, x)
      /\ \A p, q \in P : q = p + SizeAt(g, p) => AllocAt(g, p) \/ AllocAt(g, q)
  BY DEF Sound, FreeIn
<1>2. /\ IsHeap(g) /\ g.brk \in Nat /\ P \in SUBSET Nat /\ g.brk \notin P
      /\ \A p \in P : /\ p \in Nat /\ p >= 16 /\ SizeAt(g, p) \in Nat /\ SizeAt(g, p) >= 24
                      /\ AllocAt(g, p) \in BOOLEAN
                      /\ p + SizeAt(g, p) <= g.brk /\ p + SizeAt(g, p) \in P \cup {g.brk}
      /\ \A p, q \in P : p < q => p + SizeAt(g, p) <= q
  BY <1>1, ShapeFacts
<1>3. PICK freed \in Nat : freed = SizeAt(g, x)
  BY <1>1, <1>2
<1>4. PICK out : out = delete_from_list(g, x)
  OBVIOUS
<1>5. PICK F : F = FreeIn(g, P) \ {x}
  OBVIOUS
<1>6. IsHeap(out) /\ out.brk = g.brk /\ out.mem = g.mem /\ ListsHold(out, F)
  <2>1. Listed(out, g, FreeIn(g, P) \ {x})
    BY <1>1, <1>2, <1>4, DeleteList
  <2>. QED BY <1>5, <2>1 DEF Listed
<1>7. Shape(out, P) /\ \A p : SizeAt(out, p) = SizeAt(g, p) /\ AllocAt(out, p) = AllocAt(g, p)
  BY <1>1, <1>6, SameShape DEF SameTags
<1>8. freed - n \in Nat /\ (freed - n) % SIZE_T <= freed - n /\ (freed - n) % SIZE_T \in Nat
  <2>1. freed - n \in Nat
    BY <1>3
  <2>2. SIZE_T \in Nat
    BY MallocConstantsOK
  <2>. QED BY <2>1, <2>2, ModAtMost
<1>c. PICK c : c = (freed - n) % SIZE_T
  OBVIOUS
<1>f. PICK m : m = PutBlock(out, x, n, TRUE)
  OBVIOUS
<1>g. PICK y : y = NEXT_BLKP(m, x)
  OBVIOUS
<1>d. k = IF c >= MIN_BLK_SIZE
          THEN add_to_list(PutBlock(m, y, freed - n, FALSE), y)
          ELSE PutBlock(out, x, freed, TRUE)
  <2>1. place(g, x, n) =
          IF (freed - n) % SIZE_T >= MIN_BLK_SIZE
          THEN add_to_list(PutBlock(m, y, freed - n, FALSE), y)
          ELSE PutBlock(out, x, freed, TRUE)
    BY <1>3, <1>4, <1>f, <1>g, Zenon DEF place
  <2>. QED BY <1>c, <2>1, Zenon
<1>e. MIN_BLK_SIZE = 24
  BY DEF MIN_BLK_SIZE, DSIZE
<1>9. CASE c >= 24
  <2>1. PICK rest \in Nat : rest = freed - n
    BY <1>8
  <2>2. rest >= 24
    BY <1>8, <1>9, <1>c, <2>1
  <2>3. y = x + n
    <3>1. x \in Nat /\ n < WORD /\ x - 4 = HDRP(x)
      <4>1. x \in Nat /\ x >= 16 /\ x + freed <= g.brk
        BY <1>1, <1>2, <1>3
      <4>2. g.brk <= LIMIT /\ LIMIT <= WORD /\ LIMIT \in Nat /\ WORD \in Nat
        BY <1>1, MallocConstantsOK DEF Shape, TagsFit
      <4>. QED BY <1>2, <1>3, <4>1, <4>2 DEF HDRP, WSIZE
    <3>2. IsPut(m, out, x, n, TRUE)
      <4>1. n >= 8
        OBVIOUS
      <4>. QED BY <1>6, <1>f, <3>1, <4>1, PutGet
    <3>3. SizeAt(m, x) = n
      BY <3>1, <3>2, TagIs DEF IsPut, SizeAt, Tag
    <3>. QED BY <1>g, <3>3 DEF NEXT_BLKP
  <2>5. PICK m2 : m2 = PutBlock(m, x + n, rest, FALSE)
    OBVIOUS
  <2>6. k = add_to_list(m2, y)
    BY <1>9, <1>d, <1>e, <2>1, <2>3, <2>5
  <2>7. PICK Q : Q = P \cup {y}
    OBVIOUS
  <2>8. /\ Shape(m2, Q) /\ m2.brk = out.brk /\ m2.seg = out.seg /\ m2.link = out.link
        /\ y \notin P
        /\ SizeAt(m2, x) = n /\ AllocAt(m2, x) = TRUE
        /\ SizeAt(m2, y) = rest /\ AllocAt(m2, y) = FALSE
        /\ \A p \in P \ {x} : SizeAt(m2, p) = SizeAt(out, p) /\ AllocAt(m2, p) = AllocAt(out, p)
    <3>1. rest = SizeAt(out, x) - n /\ Q = P \cup {x + n}
      BY <1>3, <1>7, <2>1, <2>3, <2>7
    <3>2. IsSplit(m2, out, P, Q, x, n, rest, TRUE, FALSE)
      BY <1>1, <1>7, <1>f, <2>2, <2>5, <3>1, Split
    <3>. QED BY <2>3, <3>2 DEF IsSplit
  <2>9. \A p \in P \ {x} : SizeAt(m2, p) = SizeAt(g, p) /\ AllocAt(m2, p) = AllocAt(g, p)
    BY <1>7, <2>8
  <2>10. ListsHold(m2, F)
    <3>1. \A p \in F : SizeAt(m2, p) = SizeAt(out, p)
      BY <1>5, <2>8 DEF FreeIn
    <3>. QED BY <1>6, <2>8, <3>1, ListsKept
  <2>11. y \in Nat /\ y > x /\ y \in Address /\ y \notin F /\ IsHeap(m2)
    <3>1. x \in Nat /\ x >= 16
      BY <1>1, <1>2
    <3>2. y \in Nat /\ y > x
      BY <2>3, <3>1
    <3>3. y \in Address
      BY <3>1, <3>2 DEF Address
    <3>. QED BY <1>5, <2>8, <3>2, <3>3 DEF Shape, FreeIn
  <2>12. IsHeap(k) /\ k.brk = m2.brk /\ k.mem = m2.mem /\ ListsHold(k, F \cup {y})
    <3>1. Listed(k, m2, F \cup {y})
      BY <2>6, <2>10, <2>11, AddList
    <3>. QED BY <3>1 DEF Listed
  <2>13. Shape(k, Q) /\ \A p : SizeAt(k, p) = SizeAt(m2, p) /\ AllocAt(k, p) = AllocAt(m2, p)
    <3>1. Shape(k, Q) /\ SameTags(k, m2)
      BY <2>8, <2>12, SameShape
    <3>. QED BY <3>1 DEF SameTags
  <2>14. /\ SizeAt(k, x) = n /\ AllocAt(k, x) /\ SizeAt(k, y) = rest /\ ~ AllocAt(k, y)
         /\ \A p \in P \ {x} : SizeAt(k, p) = SizeAt(g, p) /\ AllocAt(k, p) = AllocAt(g, p)
         /\ y \notin P
    BY <2>8, <2>9, <2>13
  <2>15. FreeIn(k, Q) = F \cup {y}
    BY <1>1, <1>5, <2>7, <2>14 DEF FreeIn
  <2>16. ASSUME NEW p \in Q, NEW q \in Q, q = p + SizeAt(k, p)
         PROVE  AllocAt(k, p) \/ AllocAt(k, q)
    <3>1. CASE p = x
      BY <2>14, <3>1
    <3>2. CASE p = y
      <4>1. q = x + SizeAt(g, x)
        <5>1. x \in Nat
          BY <1>1, <1>2
        <5>. QED BY <1>3, <2>1, <2>3, <2>14, <2>16, <3>2, <5>1
      <4>2. q # x /\ q # y
        <5>1. q = y + rest /\ y > x
          BY <2>11, <2>14, <2>16, <3>2
        <5>2. x \in Nat
          BY <1>1, <1>2
        <5>. QED BY <2>2, <2>11, <5>1, <5>2
      <4>3. q \in P
        BY <2>7, <4>2
      <4>4. AllocAt(g, q)
        BY <1>1, <4>1, <4>3
      <4>. QED BY <2>14, <4>2, <4>3, <4>4
    <3>3. CASE p # x /\ p # y
      <4>1. p \in P \ {x} /\ q = p + SizeAt(g, p)
        BY <2>7, <2>14, <2>16, <3>3
      <4>2. q \in P
        <5>1. q \in P \cup {g.brk}
          BY <1>2, <4>1
        <5>2. y # g.brk
          <6>1. x \in Nat /\ x + freed <= g.brk
            BY <1>1, <1>2, <1>3
          <6>. QED BY <1>2, <2>1, <2>2, <2>3, <6>1
        <5>. QED BY <2>7, <2>14, <5>1, <5>2
      <4>3. CASE q = x
        BY <2>14, <4>3
      <4>4. CASE q # x
        BY <1>1, <2>14, <4>1, <4>2, <4>4
      <4>. QED BY <4>3, <4>4
    <3>. QED BY <3>1, <3>2, <3>3
  <2>17. Sound(k, Q)
    BY <2>12, <2>13, <2>15, <2>16 DEF Sound
  <2>18. TakenIn(k, Q) = TakenIn(g, P) \cup {x}
    BY <1>1, <2>7, <2>14 DEF TakenIn
  <2>19. \A p \in TakenIn(g, P) : SizeAt(k, p) = SizeAt(g, p)
    BY <1>1, <2>14 DEF TakenIn
  <2>. QED BY <1>6, <2>8, <2>12, <2>14, <2>17, <2>18, <2>19 DEF Placed
<1>10. CASE ~ c >= 24
  <2>1. k = PutBlock(out, x, freed, TRUE)
    BY <1>10, <1>d, <1>e
  <2>2. /\ Shape(k, P) /\ k.brk = out.brk /\ k.seg = out.seg /\ k.link = out.link
        /\ SizeAt(k, x) = freed /\ AllocAt(k, x) = TRUE
        /\ \A p \in P \ {x} : SizeAt(k, p) = SizeAt(out, p) /\ AllocAt(k, p) = AllocAt(out, p)
    <3>1. freed = SizeAt(out, x)
      BY <1>3, <1>7
    <3>2. IsCarved(k, out, P, x, freed, TRUE)
      BY <1>1, <1>7, <2>1, <3>1, Retag
    <3>. QED BY <3>2 DEF IsCarved
  <2>3. \A p \in P \ {x} : SizeAt(k, p) = SizeAt(g, p) /\ AllocAt(k, p) = AllocAt(g, p)
    BY <1>7, <2>2
  <2>4. ListsHold(k, F)
    <3>1. \A p \in F : SizeAt(k, p) = SizeAt(out, p)
      BY <1>5, <2>2 DEF FreeIn
    <3>. QED BY <1>6, <2>2, <3>1, ListsKept
  <2>5. FreeIn(k, P) = F
    BY <1>1, <1>5, <2>2, <2>3 DEF FreeIn
  <2>6. ASSUME NEW p \in P, NEW q \in P, q = p + SizeAt(k, p)
        PROVE  AllocAt(k, p) \/ AllocAt(k, q)
    <3>1. CASE p = x \/ q = x
      BY <2>2, <3>1
    <3>2. CASE p # x /\ q # x
      BY <1>1, <2>3, <2>6, <3>2
    <3>. QED BY <3>1, <3>2
  <2>7. Sound(k, P)
    BY <2>2, <2>4, <2>5, <2>6 DEF Sound
  <2>8. TakenIn(k, P) = TakenIn(g, P) \cup {x}
    BY <1>1, <2>2, <2>3 DEF TakenIn
  <2>9. \A p \in TakenIn(g, P) : SizeAt(k, p) = SizeAt(g, p)
    BY <1>1, <2>3 DEF TakenIn
  <2>10. SizeAt(k, x) >= n
    BY <1>3, <2>2
  <2>. QED BY <1>6, <2>2, <2>7, <2>8, <2>9, <2>10 DEF Placed
<1>. QED BY <1>9, <1>10

\* The heap k is g with n bytes more, and the block bp is free and has that many.
Extended(g, P, n, k, bp) ==
  \E Q : /\ Sound(k, Q) /\ k.brk = g.brk + n /\ Kept(g, P, k, Q)
         /\ bp \in Q /\ ~ AllocAt(k, bp) /\ SizeAt(k, bp) >= n

\* extend_heap adds a free block, or there is no room.
LEMMA Extend ==
  ASSUME NEW g, NEW P, Sound(g, P), NEW words \in Nat, words >= 6, words % 2 = 0,
         NEW r, r = extend_heap(g, words)
  PROVE  \/ g.brk + words * 4 > LIMIT /\ r.heap = g /\ r.bp = NULL
         \/ g.brk + words * 4 <= LIMIT /\ Extended(g, P, words * 4, r.heap, r.bp)
<1>1. /\ Shape(g, P) /\ ListsHold(g, FreeIn(g, P))
      /\ \A p, q \in P : q = p + SizeAt(g, p) => AllocAt(g, p) \/ AllocAt(g, q)
  BY DEF Sound
<1>2. PICK n \in Nat : n = words * 4
  OBVIOUS
<1>3. n >= 24 /\ n % 8 = 0
  BY <1>2
<1>4. (IF words % 2 = 1 THEN words + 1 ELSE words) * WSIZE = n
  <2>1. (IF words % 2 = 1 THEN words + 1 ELSE words) = words
    OBVIOUS
  <2>. QED BY <1>2, <2>1 DEF WSIZE
<1>5. g.brk \in Nat /\ LIMIT \in Nat
  BY <1>1, MallocConstantsOK DEF Shape, IsHeap
<1>6. PICK m : m = Grown(g, n)
  OBVIOUS
<1>7. r = IF g.brk + n > LIMIT THEN [heap |-> g, bp |-> NULL] ELSE coalesce(m, g.brk)
  BY <1>4, <1>6, Zenon DEF extend_heap, Grown
<1>8. CASE g.brk + n > LIMIT
  <2>1. r = [heap |-> g, bp |-> NULL]
    BY <1>7, <1>8
  <2>2. r.heap = g /\ r.bp = NULL
    BY <2>1
  <2>. QED BY <1>2, <1>8, <2>2
<1>9. CASE ~ g.brk + n > LIMIT
  <2>1. PICK x \in Nat : x = g.brk
    BY <1>5
  <2>2. PICK Q : Q = P \cup {x}
    OBVIOUS
  <2>3. g.brk + n <= LIMIT
    BY <1>5, <1>9
  <2>4. /\ Shape(m, Q) /\ m.brk = g.brk + n /\ m.seg = g.seg /\ m.link = g.link
        /\ SizeAt(m, x) = n /\ AllocAt(m, x) = FALSE
        /\ \A p \in P : SizeAt(m, p) = SizeAt(g, p) /\ AllocAt(m, p) = AllocAt(g, p)
    <3>1. Q = P \cup {g.brk}
      BY <2>1, <2>2
    <3>2. IsGrown(m, g, P, Q, n)
      BY <1>1, <1>3, <1>6, <2>3, <3>1, Grow
    <3>. QED BY <2>1, <3>2 DEF IsGrown
  <2>5. x \notin P
    BY <1>1, <2>1, ShapeFacts
  <2>6. SoundBut(m, Q, x)
    <3>1. FreeIn(m, Q) \ {x} = FreeIn(g, P)
      BY <2>2, <2>4, <2>5 DEF FreeIn
    <3>2. \A p \in FreeIn(g, P) : SizeAt(m, p) = SizeAt(g, p)
      BY <2>4 DEF FreeIn
    <3>3. ListsHold(m, FreeIn(m, Q) \ {x})
      BY <1>1, <2>4, <3>1, <3>2, ListsKept
    <3>4. \A p, q \in Q \ {x} : q = p + SizeAt(m, p) => AllocAt(m, p) \/ AllocAt(m, q)
      BY <1>1, <2>2, <2>4
    <3>. QED BY <2>2, <2>4, <3>3, <3>4 DEF SoundBut
  <2>7. r = coalesce(m, x)
    BY <1>7, <1>9, <2>1
  <2>8. PICK R : /\ Sound(r.heap, R) /\ r.heap.brk = m.brk /\ Kept(m, Q, r.heap, R)
                 /\ r.bp \in R /\ ~ AllocAt(r.heap, r.bp) /\ SizeAt(r.heap, r.bp) >= SizeAt(m, x)
    <3>1. Merged(m, Q, x, r.heap, r.bp)
      BY <2>6, <2>7, Coalesce
    <3>. QED BY <3>1 DEF Merged
  <2>9. Kept(g, P, r.heap, R)
    <3>1. TakenIn(m, Q) = TakenIn(g, P)
      BY <2>2, <2>4, <2>5 DEF TakenIn
    <3>2. \A p \in TakenIn(g, P) : SizeAt(r.heap, p) = SizeAt(g, p)
      BY <2>4, <2>8, <3>1 DEF Kept, TakenIn
    <3>. QED BY <2>8, <3>1, <3>2 DEF Kept
  <2>10. Extended(g, P, n, r.heap, r.bp)
    BY <2>4, <2>8, <2>9 DEF Extended
  <2>. QED BY <1>2, <2>3, <2>10
<1>. QED BY <1>8, <1>9

\* mm_init makes a heap that is sound, and takes nothing, if there is room for one.
LEMMA Prologue ==
  ASSUME TagsFit, 16 <= LIMIT,
         NEW g, g = [brk |-> 16,
                     mem |-> [p \in {4, 8, 12} |-> IF p = 12 THEN Tag(0, TRUE) ELSE Tag(8, TRUE)],
                     seg |-> [i \in Seg |-> NULL], link |-> << >>]
  PROVE  Sound(g, {}) /\ TakenIn(g, {}) = {}
<1>1. /\ IsHeap(g) /\ g.brk = 16 /\ g.seg = [i \in Seg |-> NULL]
      /\ g.mem = [p \in {4, 8, 12} |-> IF p = 12 THEN Tag(0, TRUE) ELSE Tag(8, TRUE)]
  BY DEF IsHeap
<1>2. GET(g, 4) = Tag(8, TRUE) /\ GET(g, 8) = Tag(8, TRUE) /\ GET(g, 12) = Tag(0, TRUE)
  BY <1>1 DEF GET
<1>3. Ends(g)
  <2>1. g.brk - 4 = 12
    BY <1>1
  <2>. QED BY <1>2, <2>1 DEF Ends
<1>4. Tiled(g, {})
  <2>1. {bp + SizeAt(g, bp) : bp \in {}} = {}
    OBVIOUS
  <2>. QED BY <1>1, <2>1 DEF Tiled
<1>5. Shape(g, {})
  <2>1. 16 % 8 = 0
    OBVIOUS
  <2>. QED BY <1>1, <1>3, <1>4, <2>1 DEF Shape
<1>6. FreeIn(g, {}) = {} /\ TakenIn(g, {}) = {}
  BY DEF FreeIn, TakenIn
<1>7. ListsHold(g, {})
  <2>1. PICK L : L = [i \in Seg |-> << >>]
    OBVIOUS
  <2>2. /\ << >> \in Seq(Address) /\ Len(<< >>) = 0 /\ ToSet(<< >>) = {}
        /\ IsInjective(<< >>)
    BY DEF ToSet, IsInjective
  <2>3. At(<< >>, 1) = NULL
    BY <2>2 DEF At
  <2>4. Chain(g.link, << >>)
    BY <2>2 DEF Chain
  <2>5. L \in [Seg -> Seq(Address)] /\ g.seg \in [Seg -> Nat]
    BY <1>1, <2>1, <2>2 DEF NULL
  <2>6. Linked(g, L)
    BY <1>1, <2>1, <2>2, <2>3, <2>4, <2>5 DEF Linked
  <2>7. \A i \in Seg : ToSet(L[i]) = {bp \in {} : index_seg(SizeAt(g, bp)) = i}
    BY <2>1, <2>2
  <2>. QED BY <2>6, <2>7 DEF ListsHold
<1>. QED BY <1>5, <1>6, <1>7 DEF Sound

LEMMA InitSound ==
  ASSUME TagsFit, 16 <= LIMIT
  PROVE  \E Q : Sound(mm_init, Q) /\ TakenIn(mm_init, Q) = {}
<1>1. PICK g : g = [brk |-> 16,
                    mem |-> [p \in {4, 8, 12} |-> IF p = 12 THEN Tag(0, TRUE) ELSE Tag(8, TRUE)],
                    seg |-> [i \in Seg |-> NULL], link |-> << >>]
  OBVIOUS
<1>2. PICK words : words = CHUNKSIZE \div (WSIZE * 4)
  OBVIOUS
<1>3. words \in Nat /\ words >= 6 /\ words % 2 = 0
  <2>1. CHUNKSIZE \in Nat /\ CHUNKSIZE % 32 = 0 /\ CHUNKSIZE >= 96
    BY MallocConstantsOK
  <2>2. words = CHUNKSIZE \div 16
    BY <1>2 DEF WSIZE
  <2>. QED BY <2>1, <2>2
<1>4. g = EmptyHeap
  <2>1. 4 * WSIZE = 16 /\ WSIZE = 4 /\ 2 * WSIZE = 8 /\ 3 * WSIZE = 12 /\ DSIZE = 8
    BY DEF WSIZE, DSIZE
  <2>. QED BY <1>1, <2>1, Zenon DEF EmptyHeap
<1>5. PICK r : r = extend_heap(g, words)
  OBVIOUS
<1>6. mm_init = r.heap
  <2>1. ~ g.brk > LIMIT
    BY <1>1, MallocConstantsOK
  <2>. QED BY <1>2, <1>4, <1>5, <2>1, Zenon DEF mm_init
<1>7. Sound(g, {}) /\ TakenIn(g, {}) = {}
  BY <1>1, Prologue
<1>8. r.heap = g \/ Extended(g, {}, words * 4, r.heap, r.bp)
  BY <1>3, <1>5, <1>7, Extend
<1>. QED BY <1>6, <1>7, <1>8 DEF Extended, Kept

-----------------------------------------------------------------------------
(* The walks. *)

\* One step of the walk along list i.
NextBlock(g, i, v, k) ==
  LET bp == IF v = << >> THEN g.seg[i] ELSE g.link[Last(v)].next
  IN  IF Len(v) < k - 1 \/ bp = NULL THEN v ELSE Append(v, bp)

LEMMA NextBlockIs ==
  ASSUME NEW g, NEW i, NEW w \in Seq(Address), g.seg[i] = At(w, 1), Chain(g.link, w),
         NEW j \in Nat
  PROVE  NextBlock(g, i, SubSeq(w, 1, Smaller(j, Len(w))), j + 1) =
           SubSeq(w, 1, Smaller(j + 1, Len(w)))
<1>a. PICK k : k = j + 1
  OBVIOUS
<1>b. PICK a : a = Smaller(j, Len(w))
  OBVIOUS
<1>c. PICK b : b = Smaller(k, Len(w))
  OBVIOUS
<1>. SUFFICES NextBlock(g, i, SubSeq(w, 1, a), k) = SubSeq(w, 1, b)
  BY <1>a, <1>b, <1>c
<1>1. PICK l \in Nat : l = Len(w)
  OBVIOUS
<1>2. /\ a \in 0 .. l /\ b \in 0 .. l /\ a \in Nat /\ b \in Nat /\ k \in Nat
      /\ k <= l => a = k - 1 /\ b = k
      /\ k > l => a = l /\ b = l
  BY <1>1, <1>a, <1>b, <1>c DEF Smaller
<1>3. PICK v : v = SubSeq(w, 1, a)
  OBVIOUS
<1>4. /\ v \in Seq(Address) /\ Len(v) = a
      /\ a = 0 => v = << >>
      /\ a > 0 => v # << >> /\ Last(v) = w[a]
  <2>1. a \in 0 .. Len(w)
    BY <1>1, <1>2
  <2>2. v \in Seq(Address) /\ IsPrefixOf(v, w, a)
    BY <1>3, <2>1, Prefix
  <2>. QED BY <2>2 DEF IsPrefixOf
<1>5. PICK bp : bp = IF v = << >> THEN g.seg[i] ELSE g.link[Last(v)].next
  OBVIOUS
<1>6. bp = At(w, a + 1)
  <2>1. CASE a = 0
    <3>1. a + 1 = 1
      BY <2>1
    <3>. QED BY <1>4, <1>5, <2>1, <3>1
  <2>2. CASE a # 0
    <3>1. a > 0 /\ a \in 1 .. Len(w)
      BY <1>1, <1>2, <2>2
    <3>2. g.link[w[a]] = [next |-> At(w, a + 1), prev |-> At(w, a - 1)]
      BY <3>1 DEF Chain
    <3>3. g.link[w[a]].next = At(w, a + 1)
      BY <3>2
    <3>. QED BY <1>4, <1>5, <3>1, <3>3
  <2>. QED BY <2>1, <2>2
<1>7. NextBlock(g, i, v, k) = IF Len(v) < k - 1 \/ bp = NULL THEN v ELSE Append(v, bp)
  BY <1>5, Zenon DEF NextBlock
<1>8. CASE k <= l
  <2>1. a + 1 \in 1 .. Len(w) /\ a \in 0 .. Len(w) /\ a < Len(w) /\ b = a + 1 /\ ~ Len(v) < k - 1
    BY <1>1, <1>2, <1>4, <1>8
  <2>2. bp = w[a + 1] /\ bp # NULL
    <3>1. w[a + 1] \in Address
      BY <2>1
    <3>. QED BY <1>6, <2>1, <3>1 DEF At, Address, NULL
  <2>3. Append(SubSeq(w, 1, a), w[a + 1]) = SubSeq(w, 1, a + 1)
    BY <2>1, PrefixGrows
  <2>. QED BY <1>3, <1>7, <2>1, <2>2, <2>3
<1>9. CASE k > l
  <2>1. a = l /\ b = l
    BY <1>2, <1>9
  <2>2. bp = NULL
    <3>1. a + 1 \notin 1 .. Len(w)
      BY <1>1, <2>1
    <3>. QED BY <1>6, <3>1 DEF At
  <2>. QED BY <1>3, <1>7, <2>1, <2>2
<1>. QED BY <1>1, <1>2, <1>8, <1>9

\* The walk along a list meets the blocks its links spell.
LEMMA BucketIs ==
  ASSUME NEW g, NEW i, NEW w \in Seq(Address), g.seg[i] = At(w, 1), Chain(g.link, w),
         Len(w) <= LIMIT \div 24 + 1
  PROVE  Bucket(g, i) = w
<1>1. PICK N : N = LIMIT \div MIN_BLK_SIZE + 1
  OBVIOUS
<1>2. N \in Nat /\ Len(w) \in Nat /\ Len(w) <= N
  <2>1. MIN_BLK_SIZE = 24
    BY DEF MIN_BLK_SIZE, DSIZE
  <2>2. LIMIT \in Nat
    BY MallocConstantsOK
  <2>. QED BY <1>1, <2>1, <2>2
<1>a. ASSUME NEW j \in Nat
      PROVE  NextBlock(g, i, SubSeq(w, 1, Smaller(j, Len(w))), j + 1) =
               SubSeq(w, 1, Smaller(j + 1, Len(w)))
  BY NextBlockIs
<1>. DEFINE walk[k \in 0 .. N] == IF k = 0 THEN << >> ELSE NextBlock(g, i, walk[k - 1], k)
<1>. DEFINE f == [k \in 0 .. N |-> SubSeq(w, 1, Smaller(k, Len(w)))]
<1>3. Bucket(g, i) = walk[N]
  BY <1>1, Zenon DEF Bucket, NextBlock
<1>4. f = [k \in 0 .. N |-> IF k = 0 THEN << >> ELSE NextBlock(g, i, f[k - 1], k)]
  <2>1. ASSUME NEW k \in 0 .. N
        PROVE  SubSeq(w, 1, Smaller(k, Len(w))) =
                 IF k = 0 THEN << >> ELSE NextBlock(g, i, f[k - 1], k)
    <3>1. CASE k = 0
      <4>1. Smaller(k, Len(w)) = 0 /\ 0 \in 0 .. Len(w)
        BY <1>2, <3>1 DEF Smaller
      <4>2. SubSeq(w, 1, 0) = << >>
        BY <4>1, Prefix DEF IsPrefixOf
      <4>. QED BY <3>1, <4>1, <4>2
    <3>2. CASE k # 0
      <4>1. k \in Nat /\ k >= 1 /\ k - 1 \in 0 .. N
        BY <1>2, <3>2
      <4>2. f[k - 1] = SubSeq(w, 1, Smaller(k - 1, Len(w)))
        BY <4>1
      <4>. HIDE DEF f, walk
      <4>3. NextBlock(g, i, SubSeq(w, 1, Smaller(k - 1, Len(w))), k) = SubSeq(w, 1, Smaller(k, Len(w)))
        <5>1. PICK j \in Nat : j = k - 1
          BY <4>1
        <5>2. k = j + 1
          BY <4>1, <5>1
        <5>. QED BY <1>a, <5>1, <5>2
      <4>. QED BY <3>2, <4>2, <4>3
    <3>. QED BY <3>1, <3>2
  <2>. QED BY <2>1, Zenon
<1>5. walk = [k \in 0 .. N |-> IF k = 0 THEN << >> ELSE NextBlock(g, i, walk[k - 1], k)]
  <2>. HIDE DEF f
  <2>. QED BY <1>4, Zenon
<1>. HIDE DEF walk
<1>6. PICK Q : Q = {k \in Nat : k <= N => walk[k] = f[k]}
  OBVIOUS
<1>7. 0 \in Q
  <2>1. 0 \in 0 .. N
    BY <1>2
  <2>2. walk[0] = << >> /\ f[0] = << >>
    <3>. HIDE DEF f
    <3>. QED BY <1>4, <1>5, <2>1
  <2>. QED BY <1>6, <2>2
<1>8. ASSUME NEW k \in Nat, k \in Q PROVE k + 1 \in Q
  <2>. HIDE DEF f
  <2>1. CASE k + 1 <= N
    <3>1. k + 1 \in 0 .. N /\ k + 1 # 0 /\ (k + 1) - 1 = k /\ k <= N
      BY <1>2, <2>1
    <3>2. walk[k] = f[k]
      BY <1>6, <1>8, <3>1
    <3>3. walk[k + 1] = NextBlock(g, i, walk[k], k + 1) /\ f[k + 1] = NextBlock(g, i, f[k], k + 1)
      BY <1>4, <1>5, <3>1
    <3>. QED BY <1>6, <3>2, <3>3
  <2>2. CASE ~ k + 1 <= N
    BY <1>6, <2>2
  <2>. QED BY <2>1, <2>2
<1>9. walk[N] = f[N]
  <2>. HIDE DEF f
  <2>1. N \in Q
    BY <1>2, <1>7, <1>8, Induction
  <2>. QED BY <1>2, <1>6, <2>1
<1>10. f[N] = w
  <2>1. N \in 0 .. N /\ Smaller(N, Len(w)) = Len(w) /\ Len(w) \in 0 .. Len(w)
    BY <1>2 DEF Smaller
  <2>2. SubSeq(w, 1, Len(w)) = w
    BY <2>1, Prefix DEF IsPrefixOf
  <2>. QED BY <2>1, <2>2
<1>. QED BY <1>3, <1>9, <1>10

\* One step of the walk through the heap.
NextPointer(g, v) ==
  IF SizeAt(g, Last(v)) = 0 THEN v ELSE Append(v, NEXT_BLKP(g, Last(v)))

\* w are the pointers from the prologue on, each where the block before it ends.
Pointers(g, w) ==
  /\ w \in Seq(Nat) /\ Len(w) >= 2 /\ w[1] = 8
  /\ \A k \in 1 .. Len(w) - 1 : SizeAt(g, w[k]) # 0 /\ NEXT_BLKP(g, w[k]) = w[k + 1]
  /\ SizeAt(g, w[Len(w)]) = 0

LEMMA NextPointerIs ==
  ASSUME NEW g, NEW w, Pointers(g, w), NEW k \in Nat, k >= 1,
         NEW a, a = Smaller(k, Len(w)), NEW b, b = Smaller(k + 1, Len(w))
  PROVE  NextPointer(g, SubSeq(w, 1, a)) = SubSeq(w, 1, b)
<1>1. /\ w \in Seq(Nat) /\ Len(w) \in Nat /\ Len(w) >= 2
      /\ \A j \in 1 .. Len(w) - 1 : SizeAt(g, w[j]) # 0 /\ NEXT_BLKP(g, w[j]) = w[j + 1]
      /\ SizeAt(g, w[Len(w)]) = 0
  BY DEF Pointers
<1>2. /\ a \in 0 .. Len(w) /\ a > 0
      /\ k < Len(w) => a = k /\ b = k + 1
      /\ k >= Len(w) => a = Len(w) /\ b = Len(w)
  BY <1>1 DEF Smaller
<1>3. Last(SubSeq(w, 1, a)) = w[a]
  <2>1. PICK v : v = SubSeq(w, 1, a)
    OBVIOUS
  <2>2. IsPrefixOf(v, w, a)
    BY <1>1, <1>2, <2>1, Prefix
  <2>. QED BY <1>2, <2>1, <2>2 DEF IsPrefixOf
<1>4. CASE k < Len(w)
  <2>1. a \in 1 .. Len(w) - 1 /\ a \in 0 .. Len(w) /\ a < Len(w) /\ b = a + 1
    BY <1>1, <1>2, <1>4
  <2>2. SizeAt(g, w[a]) # 0 /\ NEXT_BLKP(g, w[a]) = w[a + 1]
    BY <1>1, <2>1
  <2>3. Append(SubSeq(w, 1, a), w[a + 1]) = SubSeq(w, 1, a + 1)
    BY <1>1, <2>1, PrefixGrows
  <2>. QED BY <1>3, <2>1, <2>2, <2>3 DEF NextPointer
<1>5. CASE k >= Len(w)
  BY <1>1, <1>2, <1>3, <1>5 DEF NextPointer
<1>. QED BY <1>1, <1>4, <1>5

\* The walk through the heap meets them.
LEMMA WalkIs ==
  ASSUME NEW g, NEW w, Pointers(g, w), Len(w) <= LIMIT \div 8 + 2
  PROVE  Walk(g) = w
<1>1. PICK N : N = LIMIT \div DSIZE + 1
  OBVIOUS
<1>2. N \in Nat /\ w \in Seq(Nat) /\ Len(w) \in Nat /\ Len(w) <= N + 1 /\ Len(w) >= 2 /\ w[1] = 8
  <2>1. LIMIT \in Nat /\ DSIZE = 8
    BY MallocConstantsOK DEF DSIZE
  <2>. QED BY <1>1, <2>1 DEF Pointers
<1>. DEFINE walk[k \in 0 .. N] == IF k = 0 THEN <<DSIZE>> ELSE NextPointer(g, walk[k - 1])
<1>. DEFINE f == [k \in 0 .. N |-> SubSeq(w, 1, Smaller(k + 1, Len(w)))]
<1>3. Walk(g) = walk[N]
  BY <1>1, Zenon DEF Walk, NextPointer
<1>4. f = [k \in 0 .. N |-> IF k = 0 THEN <<DSIZE>> ELSE NextPointer(g, f[k - 1])]
  <2>1. ASSUME NEW k \in 0 .. N
        PROVE  SubSeq(w, 1, Smaller(k + 1, Len(w))) =
                 IF k = 0 THEN <<DSIZE>> ELSE NextPointer(g, f[k - 1])
    <3>1. CASE k = 0
      <4>1. Smaller(k + 1, Len(w)) = 1 /\ 1 \in 0 .. Len(w)
        BY <1>2, <3>1 DEF Smaller
      <4>2. PICK v : v = SubSeq(w, 1, 1)
        OBVIOUS
      <4>3. v \in Seq(Nat) /\ Len(v) = 1 /\ v[1] = 8
        <5>1. v \in Seq(Nat) /\ Len(v) = 1 /\ \A j \in 1 .. 1 : v[j] = w[j]
          BY <1>2, <4>1, <4>2, Prefix DEF IsPrefixOf
        <5>. QED BY <1>2, <5>1
      <4>4. v = <<8>>
        <5>1. <<8>> \in Seq(Nat) /\ Len(<<8>>) = 1 /\ \A j \in 1 .. 1 : <<8>>[j] = 8
          OBVIOUS
        <5>2. \A j \in 1 .. 1 : v[j] = <<8>>[j]
          BY <4>3, <5>1
        <5>. QED BY <4>3, <5>1, <5>2, SeqEqual
      <4>. QED BY <3>1, <4>1, <4>2, <4>4 DEF DSIZE
    <3>2. CASE k # 0
      <4>1. k \in Nat /\ k >= 1 /\ k - 1 \in 0 .. N /\ (k - 1) + 1 = k
        BY <1>2, <3>2
      <4>2. f[k - 1] = SubSeq(w, 1, Smaller(k, Len(w)))
        BY <4>1
      <4>. HIDE DEF f
      <4>3. NextPointer(g, SubSeq(w, 1, Smaller(k, Len(w)))) = SubSeq(w, 1, Smaller(k + 1, Len(w)))
        BY <4>1, NextPointerIs
      <4>. QED BY <3>2, <4>2, <4>3
    <3>. QED BY <3>1, <3>2
  <2>. QED BY <2>1, Zenon
<1>5. walk = [k \in 0 .. N |-> IF k = 0 THEN <<DSIZE>> ELSE NextPointer(g, walk[k - 1])]
  <2>. HIDE DEF f
  <2>. QED BY <1>4, Zenon
<1>. HIDE DEF walk
<1>6. PICK Q : Q = {k \in Nat : k <= N => walk[k] = f[k]}
  OBVIOUS
<1>7. 0 \in Q
  <2>. HIDE DEF f
  <2>1. 0 \in 0 .. N
    BY <1>2
  <2>2. walk[0] = <<DSIZE>> /\ f[0] = <<DSIZE>>
    BY <1>4, <1>5, <2>1
  <2>. QED BY <1>6, <2>2
<1>8. ASSUME NEW k \in Nat, k \in Q PROVE k + 1 \in Q
  <2>. HIDE DEF f
  <2>1. CASE k + 1 <= N
    <3>1. k + 1 \in 0 .. N /\ k + 1 # 0 /\ (k + 1) - 1 = k /\ k <= N
      BY <1>2, <2>1
    <3>2. walk[k] = f[k]
      BY <1>6, <1>8, <3>1
    <3>3. walk[k + 1] = NextPointer(g, walk[k]) /\ f[k + 1] = NextPointer(g, f[k])
      BY <1>4, <1>5, <3>1
    <3>. QED BY <1>6, <3>2, <3>3
  <2>2. CASE ~ k + 1 <= N
    BY <1>6, <2>2
  <2>. QED BY <2>1, <2>2
<1>9. walk[N] = f[N]
  <2>. HIDE DEF f
  <2>1. N \in Q
    BY <1>2, <1>7, <1>8, Induction
  <2>. QED BY <1>2, <1>6, <2>1
<1>10. f[N] = w
  <2>1. N \in 0 .. N /\ Smaller(N + 1, Len(w)) = Len(w) /\ Len(w) \in 0 .. Len(w)
    BY <1>2 DEF Smaller
  <2>2. SubSeq(w, 1, Len(w)) = w
    BY <1>2, <2>1, Prefix DEF IsPrefixOf
  <2>. QED BY <2>1, <2>2
<1>. QED BY <1>3, <1>9, <1>10

\* There is no room for more blocks than this.
LEMMA BlockCount ==
  ASSUME NEW g, NEW P, Shape(g, P)
  PROVE  IsFiniteSet(P) /\ Cardinality(P) <= LIMIT \div 24 + 1
<1>1. PICK n \in Nat : n = LIMIT \div 24 + 1
  BY MallocConstantsOK
<1>2. PICK f : f = [p \in P |-> p \div 24 + 1]
  OBVIOUS
<1>3. \A p \in P : p \in Nat /\ p + 24 <= LIMIT
  <2>. SUFFICES ASSUME NEW p \in P PROVE p \in Nat /\ p + 24 <= LIMIT
    OBVIOUS
  <2>1. p \in Nat /\ SizeAt(g, p) \in Nat /\ SizeAt(g, p) >= 24 /\ p + SizeAt(g, p) <= g.brk
    BY ShapeFacts
  <2>2. g.brk \in Nat /\ g.brk <= LIMIT /\ LIMIT \in Nat
    BY MallocConstantsOK DEF Shape, IsHeap
  <2>. QED BY <2>1, <2>2
<1>4. \A p, q \in P : p < q => p + 24 <= q
  <2>. SUFFICES ASSUME NEW p \in P, NEW q \in P, p < q PROVE p + 24 <= q
    OBVIOUS
  <2>1. /\ p \in Nat /\ SizeAt(g, p) \in Nat /\ SizeAt(g, p) >= 24 /\ q \in Nat
        /\ p + SizeAt(g, p) <= q
    BY ShapeFacts
  <2>. QED BY <2>1
<1>5. LIMIT \in Nat
  BY MallocConstantsOK
<1>6. f \in [P -> 1 .. n]
  <2>1. \A p \in P : p \div 24 + 1 \in 1 .. n
    BY <1>1, <1>3, <1>5
  <2>. QED BY <1>2, <2>1
<1>7. ASSUME NEW p \in P, NEW q \in P, f[p] = f[q] PROVE p = q
  <2>1. p \in Nat /\ q \in Nat /\ p \div 24 = q \div 24
    <3>1. p \in Nat /\ q \in Nat /\ p \div 24 + 1 = q \div 24 + 1
      BY <1>2, <1>3, <1>7
    <3>. QED BY <3>1
  <2>2. ~ p < q
    BY <1>4, <2>1
  <2>3. ~ q < p
    BY <1>4, <2>1
  <2>. QED BY <2>1, <2>2, <2>3
<1>. QED BY <1>1, <1>6, <1>7, NumberedSet

\* The walk along a list meets the blocks that ListsHold says.
LEMMA Buckets ==
  ASSUME NEW g, NEW P, Shape(g, P), NEW F \in SUBSET P, ListsHold(g, F), NEW i \in Seg
  PROVE  /\ Bucket(g, i) \in Seq(Address) /\ IsInjective(Bucket(g, i))
         /\ Chain(g.link, Bucket(g, i))
         /\ ToSet(Bucket(g, i)) = {bp \in F : index_seg(SizeAt(g, bp)) = i}
<1>1. PICK L : /\ Linked(g, L)
               /\ \A s \in Seg : ToSet(L[s]) = {x \in F : index_seg(SizeAt(g, x)) = s}
  BY DEF ListsHold
<1>2. PICK w \in Seq(Address) : w = L[i]
  BY <1>1 DEF Linked
<1>3. /\ g.seg[i] = At(w, 1) /\ Chain(g.link, w) /\ IsInjective(w)
      /\ ToSet(w) = {x \in F : index_seg(SizeAt(g, x)) = i}
  BY <1>1, <1>2 DEF Linked
<1>4. Len(w) <= LIMIT \div 24 + 1
  <2>1. IsFiniteSet(P) /\ Cardinality(P) <= LIMIT \div 24 + 1
    BY BlockCount
  <2>2. Cardinality(ToSet(w)) = Len(w)
    BY <1>3, InjectiveLength
  <2>3. ToSet(w) \subseteq P
    BY <1>3
  <2>4. Cardinality(ToSet(w)) <= Cardinality(P) /\ Cardinality(P) \in Nat
    BY <2>1, <2>3, FS_Subset, FS_CardinalityType
  <2>5. Len(w) \in Nat /\ LIMIT \in Nat
    BY MallocConstantsOK
  <2>. QED BY <2>1, <2>2, <2>4, <2>5
<1>5. Bucket(g, i) = w
  BY <1>3, <1>4, BucketIs
<1>. QED BY <1>3, <1>5

\* w are the prologue, the blocks P and the epilogue, in order.
WalkOf(g, P, w) ==
  /\ IsListing(w, {8} \cup P \cup {g.brk})
  /\ Pointers(g, w) /\ w[Len(w)] = g.brk
  /\ \A k \in 2 .. Len(w) - 1 : w[k] \in P

LEMMA WalkExists ==
  ASSUME NEW g, NEW P, Shape(g, P)
  PROVE  \E w : WalkOf(g, P, w) /\ Walk(g) = w
<1>1. PICK A : A = {8} \cup P \cup {g.brk}
  OBVIOUS
<1>2. PICK e \in Nat : e = g.brk
  BY DEF Shape, IsHeap
<1>3. /\ e >= 16 /\ e % 8 = 0 /\ e <= LIMIT /\ e \notin P
      /\ \A p \in P : /\ p \in Nat /\ p >= 16 /\ p % 8 = 0 /\ SizeAt(g, p) \in Nat
                      /\ SizeAt(g, p) >= 24 /\ p + SizeAt(g, p) <= e
                      /\ p + SizeAt(g, p) \in P \cup {e}
      /\ \A p, q \in P : p < q => p + SizeAt(g, p) <= q
  <2>1. e >= 16 /\ e % 8 = 0 /\ e <= LIMIT
    BY <1>2 DEF Shape
  <2>2. \A p \in P : p % 8 = 0
    BY DEF Shape, Block
  <2>. QED BY <1>2, <2>1, <2>2, ShapeFacts
<1>4. SizeAt(g, 8) = 8 /\ SizeAt(g, e) = 0
  <2>1. Ends(g)
    BY DEF Shape
  <2>2. HDRP(8) = 4 /\ HDRP(e) = e - 4
    BY DEF HDRP, WSIZE
  <2>. QED BY <1>2, <2>1, <2>2, EndTags DEF Ends, SizeAt, Tag
<1>5. 16 \in P \cup {e}
  BY <1>2 DEF Shape, Tiled
<1>6. \A x \in A : x \in Nat /\ x >= 8 /\ x <= e /\ x % 8 = 0 /\ x \in 1 .. e
  <2>1. 8 <= e /\ 8 % 8 = 0 /\ e >= 8
    BY <1>3
  <2>2. ASSUME NEW x \in P PROVE x \in Nat /\ x >= 8 /\ x <= e /\ x % 8 = 0
    <3>1. x \in Nat /\ x >= 16 /\ x % 8 = 0
      BY <1>3, <2>2
    <3>2. SizeAt(g, x) \in Nat /\ x + SizeAt(g, x) <= e
      BY <1>3, <2>2
    <3>3. x <= e
      BY <3>1, <3>2
    <3>. QED BY <3>1, <3>3
  <2>3. ASSUME NEW x \in A PROVE x \in Nat /\ x >= 8 /\ x <= e /\ x % 8 = 0
    <3>1. x = 8 \/ x \in P \/ x = e
      BY <1>1, <1>2, <2>3
    <3>2. CASE x = 8
      BY <2>1, <3>2
    <3>3. CASE x \in P
      BY <2>2, <3>3
    <3>4. CASE x = e
      BY <1>3, <2>1, <3>4
    <3>. QED BY <3>1, <3>2, <3>3, <3>4
  <2>. QED BY <2>3
<1>7. PICK w : IsListing(w, A)
  <2>1. A \in SUBSET (1 .. e)
    BY <1>6
  <2>. QED BY <2>1, ListingExists
<1>8. PICK l \in Nat : l = Len(w)
  BY <1>7 DEF IsListing
<1>9. /\ w \in Seq(Nat)
      /\ \A x : x \in A <=> \E k \in 1 .. l : w[k] = x
      /\ \A j, k \in 1 .. l : j < k => w[j] < w[k]
      /\ \A j, k \in 1 .. l : w[j] = w[k] => j = k
      /\ IsFiniteSet(A) /\ Cardinality(A) = l
  BY <1>7, <1>8, ListingOnce DEF IsListing
<1>10. \A k \in 1 .. l : w[k] \in A /\ w[k] \in Nat /\ w[k] >= 8 /\ w[k] <= e
  BY <1>6, <1>9
<1>11. l >= 2 /\ w[1] = 8
  <2>1. PICK k \in 1 .. l : w[k] = 8
    BY <1>1, <1>9
  <2>2. PICK j \in 1 .. l : w[j] = e
    BY <1>1, <1>2, <1>9
  <2>3. j # k
    BY <1>3, <2>1, <2>2
  <2>4. 1 \in 1 .. l /\ l >= 2
    BY <2>3
  <2>5. ~ 1 < k
    BY <1>9, <1>10, <2>1, <2>4
  <2>. QED BY <2>1, <2>4, <2>5
<1>12. w[l] = e
  <2>1. PICK j \in 1 .. l : w[j] = e
    BY <1>1, <1>2, <1>9
  <2>2. l \in 1 .. l
    BY <1>11
  <2>3. ~ j < l
    BY <1>9, <1>10, <2>1, <2>2
  <2>. QED BY <2>1, <2>3
<1>13. ASSUME NEW k \in 1 .. l - 1
       PROVE  SizeAt(g, w[k]) # 0 /\ NEXT_BLKP(g, w[k]) = w[k + 1]
  <2>1. k \in 1 .. l /\ k + 1 \in 1 .. l /\ l \in 1 .. l /\ k # l
    BY <1>8
  <2>2. w[k] \in A /\ w[k] # e /\ w[k + 1] \in A /\ w[k] < w[k + 1] /\ w[k] \in Nat /\ w[k + 1] \in Nat
    BY <1>9, <1>10, <1>12, <2>1
  <2>3. PICK z \in Nat : z = w[k] + SizeAt(g, w[k])
    BY <1>1, <1>2, <1>3, <1>4, <2>2
  <2>4. SizeAt(g, w[k]) # 0 /\ w[k] < z /\ z \in A /\ z <= w[k + 1]
    <3>1. CASE w[k] = 8
      <4>1. z = 16
        BY <1>4, <2>3, <3>1
      <4>2. w[k + 1] >= 16
        BY <1>1, <1>2, <1>3, <2>2, <3>1
      <4>. QED BY <1>1, <1>2, <1>4, <1>5, <3>1, <4>1, <4>2
    <3>2. CASE w[k] \in P
      <4>1. SizeAt(g, w[k]) \in Nat /\ SizeAt(g, w[k]) >= 24 /\ z \in P \cup {e} /\ z <= e
        BY <1>3, <2>3, <3>2
      <4>2. CASE w[k + 1] \in P
        <5>1. z <= w[k + 1]
          BY <1>3, <2>2, <2>3, <3>2, <4>2
        <5>. QED BY <1>1, <1>2, <2>2, <2>3, <4>1, <5>1
      <4>3. CASE w[k + 1] = e
        BY <1>1, <1>2, <2>2, <2>3, <4>1, <4>3
      <4>4. w[k + 1] # 8
        BY <1>3, <2>2, <3>2
      <4>. QED BY <1>1, <1>2, <2>2, <4>2, <4>3, <4>4
    <3>. QED BY <1>1, <1>2, <2>2, <3>1, <3>2
  <2>5. PICK j \in 1 .. l : w[j] = z
    BY <1>9, <2>4
  <2>6. ~ j < k + 1
    <3>1. j < k => w[j] < w[k]
      BY <1>9, <2>1
    <3>2. j # k
      BY <2>2, <2>4, <2>5
    <3>3. ~ j < k
      BY <2>2, <2>4, <2>5, <3>1
    <3>. QED BY <3>2, <3>3
  <2>7. ~ k + 1 < j
    <3>1. k + 1 < j => w[k + 1] < w[j]
      BY <1>9, <2>1
    <3>. QED BY <2>2, <2>4, <2>5, <3>1
  <2>8. j = k + 1
    BY <2>6, <2>7
  <2>. QED BY <2>3, <2>4, <2>5, <2>8 DEF NEXT_BLKP
<1>14. Pointers(g, w)
  BY <1>4, <1>8, <1>9, <1>11, <1>12, <1>13 DEF Pointers
<1>15. l <= LIMIT \div 8 + 2
  <2>1. LIMIT \in Nat
    BY MallocConstantsOK
  <2>2. PICK n \in Nat : n = LIMIT \div 8
    BY <2>1
  <2>3. PICK f : f = [x \in A |-> x \div 8]
    OBVIOUS
  <2>4. f \in [A -> 1 .. n]
    <3>1. ASSUME NEW x \in A PROVE x \div 8 \in 1 .. n
      <4>1. x \in Nat /\ x >= 8 /\ x <= LIMIT
        BY <1>3, <1>6, <2>1
      <4>. QED BY <2>1, <2>2, <4>1
    <3>. QED BY <2>3, <3>1
  <2>5. ASSUME NEW x \in A, NEW y \in A, f[x] = f[y] PROVE x = y
    <3>1. x \in Nat /\ y \in Nat /\ x % 8 = 0 /\ y % 8 = 0 /\ x \div 8 = y \div 8
      BY <1>6, <2>3, <2>5
    <3>. QED BY <3>1
  <2>6. l <= n
    BY <1>9, <2>4, <2>5, NumberedSet
  <2>. QED BY <1>8, <2>2, <2>6
<1>16. Walk(g) = w
  BY <1>8, <1>14, <1>15, WalkIs
<1>17. ASSUME NEW k \in 2 .. l - 1 PROVE w[k] \in P
  <2>1. k \in 1 .. l /\ 1 \in 1 .. l /\ l \in 1 .. l /\ k # 1 /\ k # l
    BY <1>8, <1>11
  <2>2. w[k] # 8 /\ w[k] # e
    BY <1>9, <1>11, <1>12, <2>1
  <2>. QED BY <1>1, <1>2, <1>9, <2>1, <2>2
<1>18. WalkOf(g, P, w)
  BY <1>1, <1>2, <1>7, <1>8, <1>12, <1>14, <1>17 DEF WalkOf
<1>. QED BY <1>16, <1>18

\* Its inner part are the blocks.
LEMMA BlocksAre ==
  ASSUME NEW g, NEW P, Shape(g, P)
  PROVE  ToSet(Blocks(g)) = P /\ FreeBlocks(g) = FreeIn(g, P)
<1>1. PICK w : WalkOf(g, P, w) /\ Walk(g) = w
  BY WalkExists
<1>2. PICK l \in Nat : l = Len(w) /\ l >= 2
  BY <1>1 DEF WalkOf, Pointers
<1>3. /\ w \in Seq(Nat) /\ w[1] = 8 /\ w[l] = g.brk
      /\ \A k \in 2 .. l - 1 : w[k] \in P
      /\ \A x : x \in {8} \cup P \cup {g.brk} <=> \E k \in 1 .. l : w[k] = x
  <2>1. PICK A : A = {8} \cup P \cup {g.brk}
    OBVIOUS
  <2>2. w[1] = 8 /\ w[l] = g.brk /\ \A k \in 2 .. l - 1 : w[k] \in P
    BY <1>1, <1>2 DEF WalkOf, Pointers
  <2>3. IsListing(w, A)
    BY <1>1, <2>1 DEF WalkOf
  <2>4. w \in Seq(Nat) /\ \A x : x \in A <=> \E k \in 1 .. l : w[k] = x
    BY <1>2, <2>3, ListingOnce DEF IsListing
  <2>. QED BY <2>1, <2>2, <2>4
<1>4. PICK v : v = SubSeq(w, 2, l - 1)
  OBVIOUS
<1>5. v \in Seq(Nat) /\ Len(v) = l - 2 /\ \A k \in 1 .. l - 2 : v[k] = w[k + 1]
  <2>1. l - 1 \in Nat /\ l - 1 <= Len(w)
    BY <1>2
  <2>2. /\ SubSeq(w, 2, l - 1) \in Seq(Nat)
        /\ Len(SubSeq(w, 2, l - 1)) = (IF 2 <= l - 1 THEN (l - 1) - 2 + 1 ELSE 0)
        /\ \A k \in 1 .. (l - 1) - 2 + 1 : SubSeq(w, 2, l - 1)[k] = w[2 + k - 1]
    BY <1>2, <1>3, <2>1, SubSeqProperties
  <2>3. (l - 1) - 2 + 1 = l - 2
    BY <1>2
  <2>4. \A k \in 1 .. l - 2 : 2 + k - 1 = k + 1
    BY <1>2
  <2>. QED BY <1>2, <1>4, <2>2, <2>3, <2>4
<1>6. Blocks(g) = v
  BY <1>1, <1>2, <1>4 DEF Blocks
<1>7. ASSUME NEW x PROVE x \in ToSet(v) <=> x \in P
  <2>1. x \in ToSet(v) <=> \E k \in 1 .. l - 2 : v[k] = x
    BY <1>5, ElementsAre
  <2>2. ASSUME NEW k \in 1 .. l - 2, v[k] = x PROVE x \in P
    <3>1. k + 1 \in 2 .. l - 1
      BY <1>2
    <3>. QED BY <1>3, <1>5, <2>2, <3>1
  <2>3. ASSUME x \in P PROVE \E k \in 1 .. l - 2 : v[k] = x
    <3>1. PICK k \in 1 .. l : w[k] = x
      BY <1>3, <2>3
    <3>2. x # 8 /\ x # g.brk
      <4>1. x >= 16 /\ x \in Nat /\ g.brk \notin P
        BY <2>3, ShapeFacts
      <4>. QED BY <2>3, <4>1
    <3>3. k # 1 /\ k # l
      BY <1>3, <3>1, <3>2
    <3>4. k - 1 \in 1 .. l - 2 /\ (k - 1) + 1 = k
      BY <1>2, <3>3
    <3>. QED BY <1>5, <3>1, <3>4
  <2>. QED BY <2>1, <2>2, <2>3
<1>8. ToSet(Blocks(g)) = P
  BY <1>6, <1>7
<1>. QED BY <1>8 DEF FreeBlocks, FreeIn

-----------------------------------------------------------------------------
(* find_fit. *)

\* What the walk along list i finds for n bytes.
LEMMA FitsAre ==
  ASSUME NEW g, NEW P, Sound(g, P), NEW i \in Seg, NEW n \in Nat
  PROVE  /\ Fits(g, i, n) \in SUBSET Nat
         /\ \A k \in Fits(g, i, n) : Bucket(g, i)[k] \in FreeIn(g, P) /\ n <= SizeAt(g, Bucket(g, i)[k])
         /\ \A x \in FreeIn(g, P) :
              index_seg(SizeAt(g, x)) = i /\ n <= SizeAt(g, x) => Fits(g, i, n) # {}
<1>1. Shape(g, P) /\ ListsHold(g, FreeIn(g, P)) /\ FreeIn(g, P) \in SUBSET P
  BY DEF Sound, FreeIn
<1>2. PICK b : b = Bucket(g, i)
  OBVIOUS
<1>3. b \in Seq(Address) /\ ToSet(b) = {x \in FreeIn(g, P) : index_seg(SizeAt(g, x)) = i}
  BY <1>1, <1>2, Buckets
<1>4. Fits(g, i, n) = {k \in 1 .. Len(b) : n <= SizeAt(g, b[k])}
  BY <1>2, <1>3 DEF Fits
<1>5. \A x : x \in ToSet(b) <=> \E k \in 1 .. Len(b) : b[k] = x
  BY <1>3, ElementsAre
<1>. QED BY <1>2, <1>3, <1>4, <1>5

\* One of them is chosen.
LEMMA BestFits ==
  ASSUME NEW g, NEW P, Sound(g, P), NEW i \in Seg, NEW n \in Nat, Fits(g, i, n) # {}
  PROVE  BestOf(g, i, n) \in FreeIn(g, P) /\ n <= SizeAt(g, BestOf(g, i, n))
<1>1. PICK b : b = Bucket(g, i)
  OBVIOUS
<1>2. PICK fits : fits = Fits(g, i, n)
  OBVIOUS
<1>3. PICK looked : looked = {k \in fits : Cardinality({j \in fits : j < k}) < FITS}
  OBVIOUS
<1>4. /\ fits \in SUBSET Nat /\ fits # {}
      /\ \A k \in fits : b[k] \in FreeIn(g, P) /\ n <= SizeAt(g, b[k])
  BY <1>1, <1>2, FitsAre
<1>5. \A x \in FreeIn(g, P) : SizeAt(g, x) \in Nat
  BY ShapeFacts DEF Sound, FreeIn
<1>6. looked \in SUBSET Nat /\ looked # {} /\ looked \subseteq fits
  <2>1. PICK m \in fits : \A k \in fits : m <= k
    BY <1>4, LeastNat
  <2>2. {j \in fits : j < m} = {}
    <3>1. m \in Nat /\ \A j \in fits : j \in Nat
      BY <1>4, <2>1
    <3>2. \A j \in fits : ~ (j < m)
      BY <2>1, <3>1
    <3>. QED BY <3>2
  <2>3. Cardinality({j \in fits : j < m}) < FITS
    BY <2>2, FS_EmptySet DEF FITS
  <2>. QED BY <1>3, <1>4, <2>1, <2>3
<1>7. PICK sizes : sizes = {SizeAt(g, b[k]) : k \in looked}
  OBVIOUS
<1>8. PICK s \in sizes : \A t \in sizes : s <= t
  <2>1. sizes \in SUBSET Nat /\ sizes # {}
    BY <1>4, <1>5, <1>6, <1>7
  <2>. QED BY <2>1, LeastNat
<1>9. PICK best : best = {k \in looked : SizeAt(g, b[k]) = s}
  OBVIOUS
<1>10. PICK c \in best : \A k \in best : c <= k
  <2>1. best \in SUBSET Nat /\ best # {}
    BY <1>6, <1>7, <1>8, <1>9
  <2>. QED BY <2>1, LeastNat
<1>. DEFINE Good(k) == \A j \in looked :
                         \/ SizeAt(g, b[k]) < SizeAt(g, b[j])
                         \/ SizeAt(g, b[k]) = SizeAt(g, b[j]) /\ k <= j
<1>11. c \in looked /\ Good(c)
  <2>1. c \in looked /\ SizeAt(g, b[c]) = s
    BY <1>9, <1>10
  <2>2. ASSUME NEW j \in looked
        PROVE  \/ SizeAt(g, b[c]) < SizeAt(g, b[j])
               \/ SizeAt(g, b[c]) = SizeAt(g, b[j]) /\ c <= j
    <3>1. s <= SizeAt(g, b[j]) /\ s \in Nat /\ SizeAt(g, b[j]) \in Nat
      BY <1>4, <1>5, <1>6, <1>7, <1>8, <2>1
    <3>2. CASE s = SizeAt(g, b[j])
      <4>1. j \in best
        BY <1>9, <3>2
      <4>. QED BY <1>10, <2>1, <3>2, <4>1
    <3>3. CASE s < SizeAt(g, b[j])
      BY <2>1, <3>3
    <3>. QED BY <3>1, <3>2, <3>3
  <2>. QED BY <2>1, <2>2
<1>12. PICK k : k = CHOOSE q \in looked : Good(q)
  OBVIOUS
<1>13. k \in looked
  <2>. HIDE DEF Good
  <2>. QED BY <1>11, <1>12
<1>14. BestOf(g, i, n) = b[k]
  BY <1>1, <1>2, <1>3, <1>12, Zenon DEF BestOf, Good
<1>. QED BY <1>4, <1>6, <1>13, <1>14

LEMMA IndexGrows == \A m, n \in Nat : m <= n => index_seg(m) <= index_seg(n)
BY DEF index_seg

\* find_fit returns a free block of n bytes, if there is one at all.
FitFound(g, P, n, f) ==
  \/ f = NULL /\ \A x \in FreeIn(g, P) : SizeAt(g, x) < n
  \/ f # NULL /\ f \in FreeIn(g, P) /\ n <= SizeAt(g, f)

LEMMA FindFit ==
  ASSUME NEW g, NEW P, Sound(g, P), NEW n \in Nat
  PROVE  FitFound(g, P, n, find_fit(g, n))
<1>1. PICK useful : useful = {i \in index_seg(n) .. 9 : Fits(g, i, n) # {}}
  OBVIOUS
<1>2. index_seg(n) \in 0 .. 9 /\ useful \in SUBSET Nat /\ useful \in SUBSET Seg
  BY <1>1, IndexInSeg DEF Seg
<1>3. \A x \in FreeIn(g, P) : x \in Nat /\ x >= 16 /\ SizeAt(g, x) \in Nat
  BY ShapeFacts DEF Sound, FreeIn
<1>4. CASE useful = {}
  <2>1. find_fit(g, n) = NULL
    BY <1>1, <1>4 DEF find_fit
  <2>2. ASSUME NEW x \in FreeIn(g, P) PROVE SizeAt(g, x) < n
    <3>1. SUFFICES ASSUME n <= SizeAt(g, x) PROVE FALSE
      BY <1>3
    <3>2. index_seg(n) <= index_seg(SizeAt(g, x)) /\ index_seg(SizeAt(g, x)) \in 0 .. 9
      BY <1>3, <3>1, IndexGrows, IndexInSeg DEF Seg
    <3>3. Fits(g, index_seg(SizeAt(g, x)), n) # {}
      BY <3>1, FitsAre, IndexInSeg
    <3>4. index_seg(SizeAt(g, x)) \in useful
      BY <1>1, <1>2, <3>2, <3>3
    <3>. QED BY <1>4, <3>4
  <2>. QED BY <2>1, <2>2 DEF FitFound
<1>5. CASE useful # {}
  <2>1. PICK i : i = CHOOSE q \in useful : \A j \in useful : q <= j
    OBVIOUS
  <2>2. i \in useful
    BY <1>2, <1>5, <2>1, LeastNat
  <2>3. find_fit(g, n) = BestOf(g, i, n)
    BY <1>1, <1>5, <2>1 DEF find_fit
  <2>4. i \in Seg /\ Fits(g, i, n) # {}
    BY <1>1, <1>2, <2>2
  <2>5. BestOf(g, i, n) \in FreeIn(g, P) /\ n <= SizeAt(g, BestOf(g, i, n))
    BY <2>4, BestFits
  <2>. QED BY <1>3, <2>3, <2>5 DEF FitFound, NULL
<1>. QED BY <1>4, <1>5

-----------------------------------------------------------------------------
(* malloc. *)

\* Sizes that BLK_SIZE rounds up without wrapping.
CanRound(size) == size \in Nat /\ size + 15 < SIZE_T

LEMMA Rounded ==
  ASSUME NEW size, CanRound(size), NEW n, n = BLK_SIZE(size)
  PROVE  n \in Nat /\ n >= 24 /\ n % 8 = 0 /\ size + 8 <= n /\ n <= size + 24
<1>1. size \in Nat /\ size + 15 < SIZE_T /\ SIZE_T \in Nat
  BY MallocConstantsOK DEF CanRound
<1>2. CASE size <= 16
  BY <1>1, <1>2 DEF BLK_SIZE, MIN_BLK_SIZE, DSIZE
<1>3. CASE size > 16
  <2>1. (8 + size) % SIZE_T = 8 + size
    BY <1>1, ModSmall
  <2>2. ((8 + size) + 7) % SIZE_T = size + 15
    BY <1>1, ModSmall
  <2>3. BLK_SIZE(size) = ALIGN(8 + size)
    BY <1>1, <1>3, <2>1 DEF BLK_SIZE, DSIZE
  <2>4. n = 8 * ((size + 15) \div 8)
    BY <2>2, <2>3 DEF ALIGN
  <2>. QED BY <1>1, <1>3, <2>4
<1>. QED BY <1>1, <1>2, <1>3

\* A call that is answered: a new block of n bytes is taken, the others keep
\* their sizes, and the heap grew only if no free block would do.
Handing(g, P, n, r) ==
  /\ r.bp # NULL /\ r.bp \notin TakenIn(g, P)
  /\ \E Q : /\ Sound(r.heap, Q)
            /\ TakenIn(r.heap, Q) = TakenIn(g, P) \cup {r.bp}
            /\ \A p \in TakenIn(g, P) : SizeAt(r.heap, p) = SizeAt(g, p)
            /\ SizeAt(r.heap, r.bp) >= n
  /\ r.heap.brk = g.brk \/ \A x \in FreeIn(g, P) : SizeAt(g, x) < n
  /\ r.heap.brk >= g.brk

\* The heap g cannot be extended for size bytes.
Exhausted(g, size) ==
  \/ g.brk + size + 24 > LIMIT
  \/ g.brk + g.brk > LIMIT /\ g.brk + CHUNKSIZE > LIMIT

\* A call that is not: nothing is asked for, or the heap cannot be extended.
Refusing(g, size, r) ==
  r.bp = NULL /\ r.heap = g /\ (size = 0 \/ Exhausted(g, size))

LEMMA Answers ==
  ASSUME NEW g, NEW P, Sound(g, P), NEW size, CanRound(size),
         NEW n, n = BLK_SIZE(size), NEW r, r = malloc(g, size)
  PROVE  Refusing(g, size, r) \/ (size # 0 /\ Handing(g, P, n, r))
<1>1. n \in Nat /\ n >= 24 /\ n % 8 = 0 /\ SIZE_T > 0
  <2>1. SIZE_T > 0
    BY MallocConstantsOK DEF CanRound
  <2>. QED BY <2>1, Rounded
<1>2. Shape(g, P) /\ g.brk \in Nat /\ g.brk >= 16 /\ g.brk % 8 = 0
  BY ShapeFacts DEF Sound, Shape
<1>3. PICK fit : fit = find_fit(g, n)
  OBVIOUS
<1>4. PICK e : e = Larger(n, Smaller(g.brk, CHUNKSIZE))
  OBVIOUS
<1>5. PICK words : words = e \div WSIZE
  OBVIOUS
<1>6. PICK more : more = extend_heap(g, words)
  OBVIOUS
<1>7. r = IF size = 0 THEN [heap |-> g, bp |-> NULL]
          ELSE IF fit # NULL THEN [heap |-> place(g, fit, n), bp |-> fit]
          ELSE IF more.bp = NULL THEN more
          ELSE [heap |-> place(more.heap, more.bp, n), bp |-> more.bp]
  <2>1. ~ g.brk = 0
    BY <1>2
  <2>2. r = malloc(g, size)
    OBVIOUS
  <2>. QED BY <1>3, <1>4, <1>5, <1>6, <2>1, <2>2, Zenon DEF malloc, Served
<1>8. FitFound(g, P, n, fit)
  BY <1>1, <1>3, FindFit
<1>9. CASE size = 0
  <2>1. r = [heap |-> g, bp |-> NULL]
    BY <1>7, <1>9
  <2>. QED BY <1>9, <2>1 DEF Refusing
<1>10. CASE size # 0 /\ fit # NULL
  <2>1. PICK k : k = place(g, fit, n)
    OBVIOUS
  <2>2. r = [heap |-> k, bp |-> fit]
    BY <1>7, <1>10, <2>1
  <2>3. r.heap = k /\ r.bp = fit
    BY <2>2
  <2>4. fit \in FreeIn(g, P) /\ n <= SizeAt(g, fit)
    BY <1>8, <1>10 DEF FitFound
  <2>5. Placed(g, P, fit, n, k)
    BY <1>1, <2>1, <2>4, Place
  <2>6. fit \notin TakenIn(g, P)
    BY <2>4 DEF FreeIn, TakenIn
  <2>. QED BY <1>2, <1>10, <2>3, <2>5, <2>6 DEF Handing, Placed
<1>11. CASE size # 0 /\ fit = NULL
  <2>1. e \in Nat /\ e >= n /\ e % 8 = 0
    <3>1. CHUNKSIZE \in Nat /\ CHUNKSIZE % 8 = 0
      BY MallocConstantsOK
    <3>. QED BY <1>1, <1>2, <1>4, <3>1 DEF Larger, Smaller
  <2>2. words \in Nat /\ words >= 6 /\ words % 2 = 0 /\ words * 4 = e
    BY <1>1, <1>5, <2>1 DEF WSIZE
  <2>3. \A x \in FreeIn(g, P) : SizeAt(g, x) < n
    BY <1>8, <1>11 DEF FitFound, NULL, FreeIn, Sound, Shape, Block
  <2>4. \/ g.brk + e > LIMIT /\ more.heap = g /\ more.bp = NULL
        \/ Extended(g, P, e, more.heap, more.bp)
    BY <1>6, <2>2, Extend
  <2>5. CASE more.bp = NULL
    <3>1. r = more
      BY <1>7, <1>11, <2>5
    <3>2. ~ Extended(g, P, e, more.heap, more.bp)
      BY <2>5, ShapeFacts DEF Extended, Sound, NULL
    <3>3. g.brk + e > LIMIT
      BY <2>4, <3>2
    <3>4. n <= size + 24 /\ size \in Nat
      BY Rounded DEF CanRound
    <3>5. e = n \/ (e <= g.brk /\ e <= CHUNKSIZE)
      BY <1>1, <1>2, <1>4, MallocConstantsOK DEF Larger, Smaller
    <3>6. Exhausted(g, size)
      BY <1>1, <1>2, <2>1, <3>3, <3>4, <3>5, MallocConstantsOK DEF Exhausted
    <3>. QED BY <2>4, <2>5, <3>1, <3>2, <3>6 DEF Refusing
  <2>6. CASE more.bp # NULL
    <3>1. PICK k : k = place(more.heap, more.bp, n)
      OBVIOUS
    <3>2. r = [heap |-> k, bp |-> more.bp]
      BY <1>7, <1>11, <2>6, <3>1
    <3>3. r.heap = k /\ r.bp = more.bp
      BY <3>2
    <3>4. PICK Q : /\ Sound(more.heap, Q) /\ Kept(g, P, more.heap, Q)
                   /\ more.heap.brk = g.brk + e
                   /\ more.bp \in Q /\ ~ AllocAt(more.heap, more.bp)
                   /\ SizeAt(more.heap, more.bp) >= e
      BY <2>4, <2>6 DEF Extended
    <3>5. more.bp \in FreeIn(more.heap, Q) /\ more.bp \notin TakenIn(more.heap, Q)
      BY <3>4 DEF FreeIn, TakenIn
    <3>6. n <= SizeAt(more.heap, more.bp)
      <4>1. SizeAt(more.heap, more.bp) \in Nat
        BY <3>4, ShapeFacts DEF Sound
      <4>. QED BY <1>1, <2>1, <3>4, <4>1
    <3>7. Placed(more.heap, Q, more.bp, n, k)
      BY <1>1, <3>1, <3>4, <3>5, <3>6, Place
    <3>8. /\ TakenIn(more.heap, Q) = TakenIn(g, P)
          /\ \A p \in TakenIn(g, P) : SizeAt(more.heap, p) = SizeAt(g, p)
      BY <3>4 DEF Kept
    <3>9. k.brk >= g.brk
      <4>1. k.brk = g.brk + e
        BY <3>4, <3>7 DEF Placed
      <4>. QED BY <1>2, <2>1, <4>1
    <3>10. \E R : /\ Sound(r.heap, R)
                  /\ TakenIn(r.heap, R) = TakenIn(g, P) \cup {r.bp}
                  /\ \A p \in TakenIn(g, P) : SizeAt(r.heap, p) = SizeAt(g, p)
                  /\ SizeAt(r.heap, r.bp) >= n
      BY <3>3, <3>7, <3>8 DEF Placed
    <3>11. r.bp # NULL /\ r.bp \notin TakenIn(g, P)
      BY <2>6, <3>3, <3>5, <3>8
    <3>. QED BY <1>11, <2>3, <3>3, <3>9, <3>10, <3>11 DEF Handing
  <2>. QED BY <2>5, <2>6
<1>. QED BY <1>9, <1>10, <1>11

-----------------------------------------------------------------------------
(* The calls. *)

\* No request is so large that BLK_SIZE wraps when it rounds it up.
RequestsFit ==
  /\ \A size \in Size : CanRound(size)
  /\ \A nmemb \in Count, size \in Size : CanRound((nmemb * size) % SIZE_T)

\* And no product of calloc wraps.
ProductsFit == \A nmemb \in Count, size \in Size : CanRound(nmemb * size)

\* The heap and the pointers handed out: not initialised and none, or a sound
\* heap whose taken blocks are those pointers'.
Good(g, f) ==
  \/ g.brk = 0 /\ g.seg = [i \in Seg |-> NULL] /\ DOMAIN f = {}
  \/ \E P : /\ Sound(g, P)
            /\ DOMAIN f = TakenIn(g, P)
            /\ \A bp \in DOMAIN f : f[bp] \in Nat
            /\ ProductsFit => \A bp \in DOMAIN f : f[bp] + DSIZE <= SizeAt(g, bp)

\* Good does not care whether mm_init ran.
LEMMA Initialised ==
  ASSUME TagsFit, NEW g, NEW f, Good(g, f), g.brk # 0 \/ 16 <= LIMIT
  PROVE  \E k : /\ \A size : malloc(g, size) = malloc(k, size)
                /\ g.brk # 0 => k = g
                /\ Good(k, f) /\ k.brk # 0
                /\ g.brk \in Nat /\ k.brk \in Nat /\ k.brk >= g.brk
<1>1. ASSUME NEW k, NEW P, Sound(k, P) PROVE k.brk \in Nat /\ k.brk # 0
  BY <1>1 DEF Sound, Shape, IsHeap
<1>2. CASE g.brk # 0
  <2>1. g.brk \in Nat
    BY <1>1, <1>2 DEF Good
  <2>. QED BY <1>2, <2>1
<1>3. CASE g.brk = 0
  <2>1. DOMAIN f = {}
    BY <1>1, <1>3 DEF Good
  <2>2. PICK Q : Sound(mm_init, Q) /\ TakenIn(mm_init, Q) = {}
    BY <1>3, InitSound
  <2>3. mm_init.brk \in Nat /\ mm_init.brk # 0
    BY <1>1, <2>2
  <2>4. \A size : malloc(g, size) = malloc(mm_init, size)
    BY <1>3, <2>3, Zenon DEF malloc
  <2>5. Good(mm_init, f)
    BY <2>1, <2>2 DEF Good
  <2>. QED BY <1>3, <2>3, <2>4, <2>5
<1>. QED BY <1>2, <1>3

\* A list that is empty.
LEMMA NoBucket ==
  ASSUME NEW g, NEW i, g.seg[i] = NULL
  PROVE  Bucket(g, i) = << >>
<1>1. << >> \in Seq(Address) /\ Len(<< >>) = 0
  OBVIOUS
<1>2. g.seg[i] = At(<< >>, 1) /\ Chain(g.link, << >>)
  BY <1>1 DEF At, Chain
<1>3. Len(<< >>) <= LIMIT \div 24 + 1
  BY <1>1, MallocConstantsOK
<1>. QED BY <1>1, <1>2, <1>3, BucketIs

\* With no room even for the prologue nothing is ever allocated.
LEMMA Unmade ==
  ASSUME LIMIT < 16, NEW g, g.brk = 0, NEW size, CanRound(size), NEW r, r = malloc(g, size)
  PROVE  r.bp = NULL /\ r.heap = NoHeap /\ Exhausted(NoHeap, size)
<1>1. LIMIT \in Nat /\ CHUNKSIZE \in Nat /\ size \in Nat /\ SIZE_T > 0
  BY MallocConstantsOK DEF CanRound
<1>2. NoHeap.brk = 0 /\ \A i \in Seg : NoHeap.seg[i] = NULL
  BY DEF NoHeap
<1>3. EmptyHeap.brk = 16
  BY DEF EmptyHeap, NoHeap, WSIZE
<1>4. mm_init = NoHeap
  <2>1. EmptyHeap.brk > LIMIT
    BY <1>1, <1>3
  <2>. QED BY <2>1, Zenon DEF mm_init
<1>5. PICK n : n = BLK_SIZE(size)
  OBVIOUS
<1>6. n \in Nat /\ n >= 24 /\ n % 8 = 0
  BY <1>5, Rounded
<1>7. find_fit(NoHeap, n) = NULL
  <2>1. \A i \in Seg : Bucket(NoHeap, i) = << >>
    BY <1>2, NoBucket
  <2>2. \A i \in Seg : Fits(NoHeap, i, n) = {}
    <3>. SUFFICES ASSUME NEW i \in Seg PROVE Fits(NoHeap, i, n) = {}
      OBVIOUS
    <3>1. DOMAIN Bucket(NoHeap, i) = {}
      BY <2>1
    <3>. QED BY <3>1, Zenon DEF Fits
  <2>3. {i \in index_seg(n) .. 9 : Fits(NoHeap, i, n) # {}} = {}
    <3>1. index_seg(n) \in 0 .. 9
      BY IndexInSeg DEF Seg
    <3>2. index_seg(n) .. 9 \subseteq Seg
      BY <3>1 DEF Seg
    <3>. QED BY <2>2, <3>2
  <2>. QED BY <2>3, Zenon DEF find_fit
<1>8. PICK e : e = Larger(n, Smaller(NoHeap.brk, CHUNKSIZE))
  OBVIOUS
<1>9. e = n
  BY <1>1, <1>2, <1>6, <1>8 DEF Larger, Smaller
<1>10. PICK words : words = e \div WSIZE
  OBVIOUS
<1>11. words \in Nat /\ words >= 6 /\ words % 2 = 0
  BY <1>6, <1>9, <1>10 DEF WSIZE
<1>12. extend_heap(NoHeap, words) = [heap |-> NoHeap, bp |-> NULL]
  <2>1. PICK asked : asked = (IF words % 2 = 1 THEN words + 1 ELSE words) * WSIZE
    OBVIOUS
  <2>2. NoHeap.brk + asked > LIMIT
    BY <1>1, <1>2, <1>11, <2>1 DEF WSIZE
  <2>. QED BY <2>1, <2>2, Zenon DEF extend_heap
<1>13. r = [heap |-> NoHeap, bp |-> NULL]
  <2>1. PICK more : more = extend_heap(NoHeap, words)
    OBVIOUS
  <2>2. r = IF size = 0 THEN [heap |-> NoHeap, bp |-> NULL]
            ELSE IF find_fit(NoHeap, n) # NULL
            THEN [heap |-> place(NoHeap, find_fit(NoHeap, n), n), bp |-> find_fit(NoHeap, n)]
            ELSE IF more.bp = NULL THEN more
            ELSE [heap |-> place(more.heap, more.bp, n), bp |-> more.bp]
    <3>1. r = malloc(g, size) /\ g.brk = 0
      OBVIOUS
    <3>. QED BY <1>4, <1>5, <1>8, <1>10, <2>1, <3>1, Zenon DEF malloc, Served
  <2>3. more = [heap |-> NoHeap, bp |-> NULL] /\ more.bp = NULL
    BY <1>12, <2>1
  <2>. QED BY <1>7, <2>2, <2>3
<1>. QED BY <1>1, <1>2, <1>13 DEF Exhausted

\* malloc, and what its caller writes down.
MallocGood(f, size, r) ==
  \/ r.bp = NULL /\ Good(r.heap, f) /\ (size = 0 \/ Exhausted(r.heap, size))
  \/ /\ r.bp # NULL /\ r.bp \notin DOMAIN f /\ size # 0
     /\ \A asked \in Nat :
          (ProductsFit => asked + DSIZE <= BLK_SIZE(size)) => Good(r.heap, Handed(f, r.bp, asked))

LEMMA MallocMade ==
  ASSUME TagsFit, NEW g, NEW f, Good(g, f), g.brk # 0 \/ 16 <= LIMIT,
         NEW size, CanRound(size), NEW r, r = malloc(g, size)
  PROVE  MallocGood(f, size, r) /\ r.heap.brk >= g.brk
<1>1. PICK k : /\ r = malloc(k, size) /\ Good(k, f) /\ k.brk # 0
               /\ g.brk \in Nat /\ k.brk \in Nat /\ k.brk >= g.brk
  BY Initialised
<1>2. PICK P : /\ Sound(k, P) /\ DOMAIN f = TakenIn(k, P)
               /\ \A bp \in DOMAIN f : f[bp] \in Nat
               /\ ProductsFit => \A bp \in DOMAIN f : f[bp] + DSIZE <= SizeAt(k, bp)
  BY <1>1 DEF Good
<1>3. PICK n : n = BLK_SIZE(size)
  OBVIOUS
<1>4. n \in Nat
  BY <1>3, Rounded
<1>5. Refusing(k, size, r) \/ (size # 0 /\ Handing(k, P, n, r))
  BY <1>1, <1>2, <1>3, Answers
<1>6. CASE Refusing(k, size, r)
  BY <1>1, <1>6 DEF MallocGood, Refusing
<1>7. CASE size # 0 /\ Handing(k, P, n, r)
  <2>1. PICK Q : /\ Sound(r.heap, Q)
                 /\ TakenIn(r.heap, Q) = TakenIn(k, P) \cup {r.bp}
                 /\ \A p \in TakenIn(k, P) : SizeAt(r.heap, p) = SizeAt(k, p)
                 /\ SizeAt(r.heap, r.bp) >= n
                 /\ r.heap.brk >= k.brk
    BY <1>7 DEF Handing
  <2>2. r.bp # NULL /\ r.bp \notin DOMAIN f
    BY <1>2, <1>7 DEF Handing
  <2>3. ASSUME NEW asked \in Nat, ProductsFit => asked + DSIZE <= n
        PROVE  Good(r.heap, Handed(f, r.bp, asked))
    <3>1. PICK new : new = Handed(f, r.bp, asked)
      OBVIOUS
    <3>2. /\ DOMAIN new = DOMAIN f \cup {r.bp} /\ new[r.bp] = asked
          /\ \A bp \in DOMAIN f : new[bp] = f[bp]
      BY <2>2, <3>1 DEF Handed
    <3>3. SizeAt(r.heap, r.bp) \in Nat
      BY <2>1, ShapeFacts DEF Sound, TakenIn
    <3>4. ASSUME ProductsFit, NEW bp \in DOMAIN new PROVE new[bp] + DSIZE <= SizeAt(r.heap, bp)
      <4>1. CASE bp = r.bp
        BY <1>4, <2>1, <2>3, <3>2, <3>3, <3>4, <4>1 DEF DSIZE
      <4>2. CASE bp \in DOMAIN f
        BY <1>2, <2>1, <3>2, <3>4, <4>2
      <4>. QED BY <3>2, <4>1, <4>2
    <3>. QED BY <1>2, <2>1, <3>1, <3>2, <3>4 DEF Good
  <2>4. r.heap.brk >= g.brk
    <3>1. r.heap.brk \in Nat
      BY <2>1, ShapeFacts DEF Sound
    <3>. QED BY <1>1, <2>1, <3>1
  <2>. QED BY <1>3, <1>7, <2>2, <2>3, <2>4 DEF MallocGood
<1>. QED BY <1>5, <1>6, <1>7

LEMMA MallocGives ==
  ASSUME TagsFit, NEW g, NEW f, Good(g, f), NEW size, CanRound(size),
         NEW r, r = malloc(g, size)
  PROVE  MallocGood(f, size, r) /\ r.heap.brk >= g.brk
<1>a. CASE g.brk = 0 /\ ~ 16 <= LIMIT
  <2>1. r.bp = NULL /\ r.heap = NoHeap /\ Exhausted(NoHeap, size)
    <3>1. LIMIT < 16
      BY <1>a, MallocConstantsOK
    <3>. QED BY <1>a, <3>1, Unmade
  <2>2. DOMAIN f = {}
    BY <1>a DEF Good, Sound, Shape
  <2>3. NoHeap.brk = 0 /\ NoHeap.seg = [i \in Seg |-> NULL]
    BY DEF NoHeap
  <2>4. Good(NoHeap, f)
    BY <2>2, <2>3 DEF Good
  <2>. QED BY <1>a, <2>1, <2>3, <2>4 DEF MallocGood
<1>b. CASE g.brk # 0 \/ 16 <= LIMIT
  BY <1>b, MallocMade
<1>. QED BY <1>a, <1>b

LEMMA FreeGood ==
  ASSUME NEW g, NEW f, Good(g, f), NEW bp \in DOMAIN f
  PROVE  Good(free(g, bp), Returned(f, bp)) /\ free(g, bp).brk = g.brk
<1>1. PICK P : /\ Sound(g, P) /\ DOMAIN f = TakenIn(g, P)
               /\ \A x \in DOMAIN f : f[x] \in Nat
               /\ ProductsFit => \A x \in DOMAIN f : f[x] + DSIZE <= SizeAt(g, x)
  BY DEF Good
<1>2. PICK k : k = free(g, bp)
  OBVIOUS
<1>3. PICK Q : /\ Sound(k, Q) /\ k.brk = g.brk
               /\ TakenIn(k, Q) = TakenIn(g, P) \ {bp}
               /\ \A p \in TakenIn(g, P) \ {bp} : SizeAt(k, p) = SizeAt(g, p)
  BY <1>1, <1>2, FreeGives
<1>4. PICK new : new = Returned(f, bp)
  OBVIOUS
<1>5. DOMAIN new = DOMAIN f \ {bp} /\ \A x \in DOMAIN f \ {bp} : new[x] = f[x]
  BY <1>4 DEF Returned
<1>6. ProductsFit => \A x \in DOMAIN new : new[x] + DSIZE <= SizeAt(k, x)
  BY <1>1, <1>3, <1>5
<1>. QED BY <1>1, <1>2, <1>3, <1>4, <1>5, <1>6 DEF Good

-----------------------------------------------------------------------------
(* What Good says of the heap and of the walks through it. *)

LEMMA GoodHeap ==
  ASSUME Good(h, live)
  PROVE  HeapOK
<1>1. SUFFICES ASSUME h.brk # 0
      PROVE  LET w == Walk(h)
                 Inner == 2 .. Len(w) - 1
             IN  /\ SizeAt(h, DSIZE) = DSIZE /\ AllocAt(h, DSIZE)
                 /\ Last(w) = h.brk /\ GET(h, HDRP(h.brk)) = Tag(0, TRUE)
                 /\ \A k \in Inner :
                      /\ w[k] % DSIZE = 0 /\ SizeAt(h, w[k]) >= MIN_BLK_SIZE
                      /\ GET(h, HDRP(w[k])) = GET(h, FTRP(h, w[k]))
                      /\ AllocAt(h, w[k]) \/ AllocAt(h, w[k + 1])
  BY DEF HeapOK
<1>2. PICK P : Sound(h, P)
  BY <1>1 DEF Good
<1>3. PICK w : WalkOf(h, P, w) /\ Walk(h) = w
  BY <1>2, WalkExists DEF Sound
<1>4. PICK l \in Nat : l = Len(w)
  BY <1>3 DEF WalkOf, IsListing
<1>5. /\ w \in Seq(Nat) /\ l >= 2 /\ w[l] = h.brk
      /\ \A k \in 2 .. l - 1 : w[k] \in P
  BY <1>3, <1>4 DEF WalkOf, Pointers, IsListing
<1>6. SizeAt(h, DSIZE) = DSIZE /\ AllocAt(h, DSIZE)
  <2>1. GET(h, 4) = Tag(8, TRUE)
    BY <1>2 DEF Sound, Shape, Ends
  <2>2. HDRP(DSIZE) = 4 /\ DSIZE = 8
    BY DEF HDRP, DSIZE, WSIZE
  <2>. QED BY <2>1, <2>2, EndTags DEF SizeAt, AllocAt, Tag
<1>7. Last(w) = h.brk
  BY <1>4, <1>5 DEF Last
<1>8. GET(h, HDRP(h.brk)) = Tag(0, TRUE)
  BY <1>2 DEF Sound, Shape, Ends, HDRP, WSIZE
<1>9. ASSUME NEW k \in 2 .. l - 1
      PROVE  /\ w[k] % DSIZE = 0 /\ SizeAt(h, w[k]) >= MIN_BLK_SIZE
             /\ GET(h, HDRP(w[k])) = GET(h, FTRP(h, w[k]))
             /\ AllocAt(h, w[k]) \/ AllocAt(h, w[k + 1])
  <2>1. PICK x : x = w[k] /\ x \in P
    BY <1>5
  <2>2. Block(h, x)
    BY <1>2, <2>1 DEF Sound, Shape
  <2>3. x \in Nat /\ SizeAt(h, x) \in Nat /\ x + SizeAt(h, x) \in P \cup {h.brk}
    BY <1>2, <2>1, ShapeFacts DEF Sound
  <2>4. x % DSIZE = 0 /\ SizeAt(h, x) >= MIN_BLK_SIZE
    BY <2>2 DEF Block, DSIZE, MIN_BLK_SIZE
  <2>5. GET(h, HDRP(x)) = GET(h, FTRP(h, x))
    BY <2>2 DEF Block, HDRP, FTRP, WSIZE, DSIZE
  <2>6. w[k + 1] = x + SizeAt(h, x)
    <3>1. k \in 1 .. l - 1
      OBVIOUS
    <3>. QED BY <1>3, <1>4, <2>1, <3>1 DEF WalkOf, Pointers, NEXT_BLKP
  <2>7. AllocAt(h, x) \/ AllocAt(h, w[k + 1])
    <3>1. CASE w[k + 1] \in P
      BY <1>2, <2>1, <2>6, <3>1 DEF Sound
    <3>2. CASE w[k + 1] = h.brk
      BY <1>8, <3>2 DEF AllocAt, Tag
    <3>. QED BY <2>3, <2>6, <3>1, <3>2
  <2>. QED BY <2>1, <2>4, <2>5, <2>7
<1>. QED BY <1>3, <1>4, <1>6, <1>7, <1>8, <1>9

LEMMA GoodLists ==
  ASSUME Good(h, live)
  PROVE  FreeListsOK
<1>1. CASE h.brk = 0
  <2>1. h.seg = [i \in Seg |-> NULL]
    BY <1>1 DEF Good, Sound, Shape
  <2>2. ASSUME NEW i \in Seg PROVE Bucket(h, i) = << >>
    BY <2>1, NoBucket
  <2>3. IsInjective(<< >>)
    BY DEF IsInjective
  <2>. QED BY <1>1, <2>2, <2>3 DEF FreeListsOK
<1>2. CASE h.brk # 0
  <2>1. PICK P : Sound(h, P)
    BY <1>2 DEF Good
  <2>2. FreeBlocks(h) = FreeIn(h, P)
    BY <2>1, BlocksAre DEF Sound
  <2>3. \A i \in Seg :
          /\ Bucket(h, i) \in Seq(Address) /\ IsInjective(Bucket(h, i))
          /\ Chain(h.link, Bucket(h, i))
          /\ ToSet(Bucket(h, i)) = {bp \in FreeIn(h, P) : index_seg(SizeAt(h, bp)) = i}
    BY <2>1, Buckets DEF Sound, FreeIn
  <2>4. ASSUME NEW bp \in FreeBlocks(h) PROVE \E i \in Seg : Contains(Bucket(h, i), bp)
    <3>1. PICK i \in Seg : i = index_seg(SizeAt(h, bp))
      BY IndexInSeg
    <3>2. bp \in ToSet(Bucket(h, i)) /\ Bucket(h, i) \in Seq(Address)
      BY <2>2, <2>3, <3>1
    <3>3. \E k \in 1 .. Len(Bucket(h, i)) : Bucket(h, i)[k] = bp
      BY <3>2, ElementsAre
    <3>. QED BY <3>3 DEF Contains
  <2>5. ASSUME NEW i \in Seg, NEW b, b = Bucket(h, i)
        PROVE  /\ IsInjective(b)
               /\ \A k \in 1 .. Len(b) :
                    /\ b[k] \in FreeBlocks(h)
                    /\ index_seg(SizeAt(h, b[k])) = i
                    /\ h.link[b[k]].prev = IF k = 1 THEN NULL ELSE b[k - 1]
    <3>1. /\ b \in Seq(Address) /\ IsInjective(b) /\ Chain(h.link, b)
          /\ ToSet(b) = {bp \in FreeIn(h, P) : index_seg(SizeAt(h, bp)) = i}
      BY <2>3, <2>5
    <3>2. ASSUME NEW k \in 1 .. Len(b)
          PROVE  b[k] \in FreeBlocks(h) /\ index_seg(SizeAt(h, b[k])) = i
      <4>1. b[k] \in ToSet(b)
        BY <3>1, ElementsAre
      <4>. QED BY <2>2, <3>1, <4>1
    <3>3. ASSUME NEW k \in 1 .. Len(b)
          PROVE  h.link[b[k]].prev = IF k = 1 THEN NULL ELSE b[k - 1]
      <4>1. h.link[b[k]] = [next |-> At(b, k + 1), prev |-> At(b, k - 1)]
        BY <3>1 DEF Chain
      <4>2. h.link[b[k]].prev = At(b, k - 1)
        BY <4>1
      <4>3. Len(b) \in Nat
        BY <3>1
      <4>4. At(b, k - 1) = IF k = 1 THEN NULL ELSE b[k - 1]
        BY <4>3 DEF At
      <4>. QED BY <4>2, <4>4
    <3>. QED BY <3>1, <3>2, <3>3
  <2>. QED BY <1>2, <2>4, <2>5 DEF FreeListsOK
<1>. QED BY <1>1, <1>2

LEMMA GoodLive ==
  ASSUME Good(h, live), ProductsFit
  PROVE  LiveOK
<1>1. SUFFICES ASSUME h.brk # 0
      PROVE  /\ DOMAIN live = ToSet(Blocks(h)) \ FreeBlocks(h)
             /\ \A bp \in DOMAIN live : live[bp] + DSIZE <= SizeAt(h, bp)
  BY DEF LiveOK
<1>2. PICK P : /\ Sound(h, P) /\ DOMAIN live = TakenIn(h, P)
               /\ \A bp \in DOMAIN live : live[bp] + DSIZE <= SizeAt(h, bp)
  BY <1>1 DEF Good
<1>3. ToSet(Blocks(h)) = P /\ FreeBlocks(h) = FreeIn(h, P)
  BY <1>2, BlocksAre DEF Sound
<1>4. P \ FreeIn(h, P) = TakenIn(h, P)
  BY DEF FreeIn, TakenIn
<1>. QED BY <1>2, <1>3, <1>4

-----------------------------------------------------------------------------
(* The steps. *)

Invariant == Good(h, live) /\ up \in BOOLEAN

LEMMA InitGood == MallocInit => Invariant
<1>1. SUFFICES ASSUME MallocInit PROVE Good(h, live) /\ up \in BOOLEAN
  BY DEF Invariant
<1>2. h.brk = 0 /\ h.seg = [i \in Seg |-> NULL] /\ up \in BOOLEAN
  <2>1. h = NoHeap /\ up = TRUE
    BY <1>1, Zenon DEF MallocInit
  <2>2. up \in BOOLEAN
    BY <2>1
  <2>. QED BY <2>1, <2>2 DEF NoHeap
<1>3. DOMAIN live = {}
  BY <1>1 DEF MallocInit
<1>. QED BY <1>2, <1>3 DEF Good

\* What is asked for is what BLK_SIZE rounds up.
LEMMA RoomAsked ==
  ASSUME NEW size, CanRound(size)
  PROVE  size \in Nat /\ size + DSIZE <= BLK_SIZE(size)
BY Rounded DEF CanRound, DSIZE

LEMMA ProductAsked ==
  ASSUME NEW nmemb \in Count, NEW size \in Size
  PROVE  /\ nmemb * size \in Nat
         /\ ProductsFit => /\ (nmemb * size) % SIZE_T = nmemb * size
                           /\ nmemb * size + DSIZE <= BLK_SIZE((nmemb * size) % SIZE_T)
<1>1. nmemb \in Nat /\ size \in Nat /\ SIZE_T \in Nat
  BY MallocConstantsOK
<1>2. nmemb * size \in Nat
  BY <1>1
<1>3. ASSUME ProductsFit
      PROVE  /\ (nmemb * size) % SIZE_T = nmemb * size
             /\ nmemb * size + DSIZE <= BLK_SIZE((nmemb * size) % SIZE_T)
  <2>1. PICK m \in Nat : m = nmemb * size
    BY <1>2
  <2>2. CanRound(m)
    BY <1>3, <2>1 DEF ProductsFit
  <2>3. m % SIZE_T = m
    BY <1>1, <2>2, ModSmall DEF CanRound
  <2>. QED BY <2>1, <2>2, <2>3, RoomAsked
<1>. QED BY <1>2, <1>3

LEMMA CallGood ==
  ASSUME Invariant, TagsFit, RequestsFit, MallocNext
  PROVE  Invariant'
<1>1. Good(h, live)
  BY DEF Invariant
<1>2. ASSUME NEW size \in Size, Malloc(size) PROVE Good(h', live')
  <2>1. PICK r : r = malloc(h, size)
    OBVIOUS
  <2>2. h' = r.heap /\ live' = IF r.bp = NULL THEN live ELSE Handed(live, r.bp, size)
    BY <1>2, <2>1 DEF Malloc
  <2>3. CanRound(size) /\ size \in Nat /\ size + DSIZE <= BLK_SIZE(size)
    BY RoomAsked DEF RequestsFit
  <2>4. MallocGood(live, size, r)
    BY <1>1, <2>1, <2>3, MallocGives
  <2>. QED BY <2>2, <2>3, <2>4 DEF MallocGood
<1>3. ASSUME NEW bp \in DOMAIN live, Free(bp) PROVE Good(h', live')
  BY <1>1, <1>3, FreeGood DEF Free
<1>4. ASSUME NEW bp \in DOMAIN live, NEW size \in Size, Realloc(bp, size) PROVE Good(h', live')
  <2>1. PICK r : r = malloc(h, size)
    OBVIOUS
  <2>2. /\ h' = IF r.bp = NULL THEN r.heap ELSE free(r.heap, bp)
        /\ live' = IF r.bp = NULL THEN live ELSE Returned(Handed(live, r.bp, size), bp)
    BY <1>4, <2>1 DEF Realloc
  <2>3. CanRound(size) /\ size \in Nat /\ size + DSIZE <= BLK_SIZE(size)
    BY RoomAsked DEF RequestsFit
  <2>4. MallocGood(live, size, r)
    BY <1>1, <2>1, <2>3, MallocGives
  <2>5. CASE r.bp = NULL
    BY <2>2, <2>4, <2>5 DEF MallocGood
  <2>6. CASE r.bp # NULL
    <3>1. PICK new : new = Handed(live, r.bp, size)
      OBVIOUS
    <3>2. Good(r.heap, new)
      BY <2>3, <2>4, <2>6, <3>1 DEF MallocGood
    <3>3. bp \in DOMAIN new
      BY <3>1 DEF Handed
    <3>. QED BY <2>2, <2>6, <3>1, <3>2, <3>3, FreeGood
  <2>. QED BY <2>5, <2>6
<1>5. ASSUME NEW nmemb \in Count, NEW size \in Size, Calloc(nmemb, size) PROVE Good(h', live')
  <2>1. PICK bytes : bytes = (nmemb * size) % SIZE_T
    OBVIOUS
  <2>2. PICK r : r = malloc(h, bytes)
    OBVIOUS
  <2>3. h' = r.heap /\ live' = IF r.bp = NULL THEN live ELSE Handed(live, r.bp, nmemb * size)
    BY <1>5, <2>1, <2>2 DEF Calloc
  <2>4. CanRound(bytes)
    BY <2>1 DEF RequestsFit
  <2>5. MallocGood(live, bytes, r)
    BY <1>1, <2>2, <2>4, MallocGives
  <2>6. nmemb * size \in Nat /\ (ProductsFit => nmemb * size + DSIZE <= BLK_SIZE(bytes))
    BY <2>1, ProductAsked
  <2>. QED BY <2>3, <2>5, <2>6 DEF MallocGood
<1>6. Good(h', live')
  BY <1>2, <1>3, <1>4, <1>5 DEF MallocNext
<1>7. up' \in BOOLEAN
  <2>1. up \in BOOLEAN
    BY DEF Invariant
  <2>2. up' = up \/ \E nmemb \in Count, size \in Size : Calloc(nmemb, size)
    BY DEF MallocNext, Malloc, Free, Realloc
  <2>3. ASSUME NEW nmemb \in Count, NEW size \in Size, Calloc(nmemb, size)
        PROVE  up' \in BOOLEAN
    BY <2>3, Zenon DEF Calloc
  <2>. QED BY <2>1, <2>2, <2>3
<1>. QED BY <1>6, <1>7 DEF Invariant

\* The inductive invariant.
LEMMA AlwaysGood == ASSUME TagsFit, RequestsFit PROVE MallocSpec => []Invariant
<1>1. ASSUME Invariant, [MallocNext]_mallocVars PROVE Invariant'
  <2>1. CASE MallocNext
    BY <1>1, <2>1, CallGood
  <2>2. CASE UNCHANGED mallocVars
    BY <1>1, <2>2 DEF Invariant, mallocVars
  <2>. QED BY <1>1, <2>1, <2>2
<1>. QED BY InitGood, <1>1, PTL DEF MallocSpec

-----------------------------------------------------------------------------
(* The theorems. *)

\* Whatever is allocated and freed, the tags tile the heap from the prologue
\* to the epilogue, footers repeat headers and no two neighbours are free.
THEOREM HeapSound == ASSUME TagsFit, RequestsFit PROVE MallocSpec => []HeapOK
<1>1. Invariant => HeapOK
  BY GoodHeap DEF Invariant
<1>. QED BY AlwaysGood, <1>1, PTL

\* The ten lists hold every free block once, in the list of its size, and read
\* the same backwards.
THEOREM ListsSound == ASSUME TagsFit, RequestsFit PROVE MallocSpec => []FreeListsOK
<1>1. Invariant => FreeListsOK
  BY GoodLists DEF Invariant
<1>. QED BY AlwaysGood, <1>1, PTL

\* Callers hold just the taken blocks, and each has the room asked for.  For a
\* product of calloc that wraps it does not hold: too little is allocated.
THEOREM BlocksHeld ==
  ASSUME TagsFit, RequestsFit, ProductsFit PROVE MallocSpec => []LiveOK
<1>1. Invariant => LiveOK
  BY GoodLive DEF Invariant
<1>. QED BY AlwaysGood, <1>1, PTL

\* A pointer appears and the heap grew: then no free block would have done.
LEMMA CallGrows ==
  ASSUME Invariant, TagsFit, RequestsFit, ProductsFit, MallocNext,
         NEW bp \in DOMAIN live' \ DOMAIN live, h.brk # 0, h'.brk > h.brk,
         NEW x \in FreeBlocks(h)
  PROVE  SizeAt(h, x) < BLK_SIZE(live'[bp])
<1>1. PICK P : Sound(h, P) /\ DOMAIN live = TakenIn(h, P)
  BY DEF Invariant, Good
<1>2. x \in FreeIn(h, P) /\ h.brk \in Nat
  BY <1>1, BlocksAre, ShapeFacts DEF Sound
<1>3. ASSUME NEW size, CanRound(size), NEW r, r = malloc(h, size), r.bp # NULL
      PROVE  /\ \E Q : Sound(r.heap, Q) /\ DOMAIN live \cup {r.bp} = TakenIn(r.heap, Q)
             /\ r.heap.brk = h.brk \/ SizeAt(h, x) < BLK_SIZE(size)
  <2>1. PICK n : n = BLK_SIZE(size)
    OBVIOUS
  <2>2. Handing(h, P, n, r)
    <3>1. ~ Refusing(h, size, r)
      BY <1>3 DEF Refusing
    <3>. QED BY <1>1, <1>3, <2>1, <3>1, Answers
  <2>. QED BY <1>1, <1>2, <2>1, <2>2 DEF Handing
<1>4. ASSUME NEW size \in Size, Malloc(size) PROVE SizeAt(h, x) < BLK_SIZE(live'[bp])
  <2>1. PICK r : r = malloc(h, size)
    OBVIOUS
  <2>2. h' = r.heap /\ live' = IF r.bp = NULL THEN live ELSE Handed(live, r.bp, size)
    BY <1>4, <2>1 DEF Malloc
  <2>3. CanRound(size)
    BY DEF RequestsFit
  <2>4. r.bp # NULL /\ live'[bp] = size
    BY <2>2 DEF Handed
  <2>5. r.heap.brk # h.brk
    BY <1>2, <2>2
  <2>. QED BY <1>3, <2>1, <2>3, <2>4, <2>5
<1>5. ASSUME NEW y \in DOMAIN live, Free(y) PROVE FALSE
  BY <1>5 DEF Free, Returned
<1>6. ASSUME NEW y \in DOMAIN live, NEW size \in Size, Realloc(y, size)
      PROVE  SizeAt(h, x) < BLK_SIZE(live'[bp])
  <2>1. PICK r : r = malloc(h, size)
    OBVIOUS
  <2>2. /\ h' = IF r.bp = NULL THEN r.heap ELSE free(r.heap, y)
        /\ live' = IF r.bp = NULL THEN live ELSE Returned(Handed(live, r.bp, size), y)
    BY <1>6, <2>1 DEF Realloc
  <2>3. CanRound(size)
    BY DEF RequestsFit
  <2>4. r.bp # NULL /\ live'[bp] = size
    BY <2>2 DEF Handed, Returned
  <2>5. PICK Q : Sound(r.heap, Q) /\ DOMAIN live \cup {r.bp} = TakenIn(r.heap, Q)
    BY <1>3, <2>1, <2>3, <2>4
  <2>6. PICK k : k = free(r.heap, y)
    OBVIOUS
  <2>7. k.brk = r.heap.brk
    BY <2>5, <2>6, FreeGives
  <2>8. r.heap.brk # h.brk
    BY <1>2, <2>2, <2>4, <2>6, <2>7
  <2>. QED BY <1>3, <2>1, <2>3, <2>4, <2>8
<1>7. ASSUME NEW nmemb \in Count, NEW size \in Size, Calloc(nmemb, size)
      PROVE  SizeAt(h, x) < BLK_SIZE(live'[bp])
  <2>1. PICK bytes : bytes = (nmemb * size) % SIZE_T
    OBVIOUS
  <2>2. PICK r : r = malloc(h, bytes)
    OBVIOUS
  <2>3. h' = r.heap /\ live' = IF r.bp = NULL THEN live ELSE Handed(live, r.bp, nmemb * size)
    BY <1>7, <2>1, <2>2 DEF Calloc
  <2>4. CanRound(bytes)
    BY <2>1 DEF RequestsFit
  <2>5. r.bp # NULL /\ live'[bp] = nmemb * size /\ bytes = nmemb * size
    <3>1. bytes = nmemb * size
      BY <2>1, ProductAsked
    <3>. QED BY <2>3, <3>1 DEF Handed
  <2>6. r.heap.brk # h.brk
    BY <1>2, <2>3
  <2>. QED BY <1>3, <2>2, <2>4, <2>5, <2>6
<1>. QED BY <1>4, <1>5, <1>6, <1>7 DEF MallocNext

\* The heap is extended only for a request that no free block could hold.
THEOREM GrowthDelayed ==
  ASSUME TagsFit, RequestsFit, ProductsFit PROVE MallocSpec => GrowsOnlyWhenFull
<1>. DEFINE OnlyWhenFull ==
       \A bp \in DOMAIN live' \ DOMAIN live :
         h.brk # 0 /\ h'.brk > h.brk =>
           \A f \in FreeBlocks(h) : SizeAt(h, f) < BLK_SIZE(live'[bp])
<1>1. ASSUME Invariant, [MallocNext]_mallocVars PROVE [OnlyWhenFull]_mallocVars
  BY <1>1, CallGrows
<1>2. ([][OnlyWhenFull]_mallocVars) <=> GrowsOnlyWhenFull
  BY DEF GrowsOnlyWhenFull
<1>. HIDE DEF OnlyWhenFull
<1>. QED BY AlwaysGood, <1>1, <1>2, PTL DEF MallocSpec

-----------------------------------------------------------------------------
(* What callers are promised. *)

\* The n bytes from x on are aligned, in the heap g, and in nobody's hands.
OwnBytes(g, f, x, n) ==
  /\ x > 0 /\ x % 8 = 0 /\ x + n <= g.brk
  /\ \A q \in DOMAIN f : x + n <= q \/ q + f[q] <= x

LEMMA Fresh ==
  ASSUME ProductsFit, NEW f, NEW x, x \notin DOMAIN f, NEW n \in Nat,
         NEW g, Good(g, Handed(f, x, n))
  PROVE  OwnBytes(g, f, x, n)
<1>1. PICK new : new = Handed(f, x, n)
  OBVIOUS
<1>2. /\ DOMAIN new = DOMAIN f \cup {x} /\ new[x] = n
      /\ \A q \in DOMAIN f : new[q] = f[q]
  BY <1>1 DEF Handed
<1>3. PICK P : /\ Sound(g, P) /\ DOMAIN new = TakenIn(g, P)
               /\ \A q \in DOMAIN new : new[q] \in Nat /\ new[q] + DSIZE <= SizeAt(g, q)
  BY <1>1, <1>2 DEF Good
<1>4. /\ g.brk \in Nat
      /\ \A q \in P : q \in Nat /\ q >= 16 /\ SizeAt(g, q) \in Nat /\ q + SizeAt(g, q) <= g.brk
      /\ \A p, q \in P : p < q => p + SizeAt(g, p) <= q
  BY <1>3, ShapeFacts DEF Sound
<1>5. x \in P /\ x \in Nat /\ n + 8 <= SizeAt(g, x)
  BY <1>2, <1>3, <1>4 DEF TakenIn, DSIZE
<1>6. x % 8 = 0
  BY <1>3, <1>5 DEF Sound, Shape, Block
<1>7. x > 0 /\ x + n <= g.brk
  BY <1>4, <1>5
<1>8. ASSUME NEW q \in DOMAIN f PROVE x + n <= q \/ q + f[q] <= x
  <2>1. q \in P /\ q # x
    BY <1>2, <1>3 DEF TakenIn
  <2>2. q \in Nat /\ SizeAt(g, q) \in Nat /\ f[q] \in Nat /\ f[q] + 8 <= SizeAt(g, q)
    BY <1>2, <1>3, <1>4, <2>1 DEF DSIZE
  <2>3. CASE x < q
    <3>1. x + SizeAt(g, x) <= q
      BY <1>4, <1>5, <2>1, <2>3
    <3>. QED BY <1>4, <1>5, <2>2, <3>1
  <2>4. CASE q < x
    <3>1. q + SizeAt(g, q) <= x
      BY <1>4, <1>5, <2>1, <2>4
    <3>. QED BY <1>5, <2>2, <3>1
  <2>. QED BY <1>5, <2>1, <2>2, <2>3, <2>4
<1>. QED BY <1>6, <1>7, <1>8 DEF OwnBytes

\* A call of malloc: the caller gets bytes of its own, or there is a reason.
MallocServed(g, f, size, n, r) ==
  /\ r.heap.brk >= g.brk
  /\ \/ r.bp = NULL /\ (size = 0 \/ Exhausted(r.heap, size))
     \/ /\ r.bp # NULL /\ r.bp \notin DOMAIN f /\ size # 0
        /\ Good(r.heap, Handed(f, r.bp, n)) /\ OwnBytes(r.heap, f, r.bp, n)

LEMMA MallocServes ==
  ASSUME TagsFit, ProductsFit, NEW g, NEW f, Good(g, f), NEW size, CanRound(size),
         NEW n \in Nat, n + DSIZE <= BLK_SIZE(size), NEW r, r = malloc(g, size)
  PROVE  MallocServed(g, f, size, n, r)
<1>1. MallocGood(f, size, r) /\ r.heap.brk >= g.brk
  BY MallocGives
<1>2. CASE r.bp = NULL
  BY <1>1, <1>2 DEF MallocGood, MallocServed
<1>3. CASE r.bp # NULL
  <2>1. r.bp \notin DOMAIN f /\ size # 0 /\ Good(r.heap, Handed(f, r.bp, n))
    BY <1>1, <1>3 DEF MallocGood
  <2>2. OwnBytes(r.heap, f, r.bp, n)
    BY <2>1, Fresh
  <2>. QED BY <1>1, <1>3, <2>1, <2>2 DEF MallocServed
<1>. QED BY <1>2, <1>3

\* The calls say what the abstract ones say of what is held and of the break.
LEMMA IsDenied ==
  ASSUME NEW n, UNCHANGED live, n = 0 \/ Exhausted(h', n)
  PROVE  Allocated!Denied(n)
BY DEF Allocated!Denied, Exhausted

LEMMA IsVacant ==
  ASSUME NEW x, NEW n, OwnBytes(h', live, x, n)
  PROVE  Allocated!Vacant(x, n)
BY DEF Allocated!Vacant, OwnBytes

LEMMA IsGranted ==
  ASSUME NEW x, NEW n, n # 0, x \notin DOMAIN live, OwnBytes(h', live, x, n),
         live' = Handed(live, x, n)
  PROVE  Allocated!Granted(n)
<1>1. x \in DOMAIN live' \ DOMAIN live
  BY DEF Handed
<1>2. Allocated!Vacant(x, n)
  BY IsVacant
<1>3. live' = Allocated!Holding(x, n)
  BY DEF Handed, Allocated!Holding
<1>. QED BY <1>1, <1>2, <1>3 DEF Allocated!Granted

\* Each call is a call of the abstract allocator.
LEMMA CallImplements ==
  ASSUME Invariant, TagsFit, RequestsFit, ProductsFit, MallocNext
  PROVE  Allocated!Next
<1>1. Good(h, live)
  BY DEF Invariant
<1>2. ASSUME NEW size \in Size, Malloc(size) PROVE Allocated!Malloc(size)
  <2>1. PICK r : r = malloc(h, size)
    OBVIOUS
  <2>2. /\ up /\ up' = up /\ h' = r.heap
        /\ live' = IF r.bp = NULL THEN live ELSE Handed(live, r.bp, size)
    BY <1>2, <2>1 DEF Malloc
  <2>3. CanRound(size) /\ size \in Nat /\ size + DSIZE <= BLK_SIZE(size)
    BY RoomAsked DEF RequestsFit
  <2>4. MallocServed(h, live, size, size, r)
    BY <1>1, <2>1, <2>3, MallocServes
  <2>5. Allocated!Granted(size) \/ Allocated!Denied(size)
    BY <2>2, <2>4, IsDenied, IsGranted DEF MallocServed
  <2>6. h'.brk >= h.brk
    BY <2>2, <2>4 DEF MallocServed
  <2>. QED BY <2>2, <2>5, <2>6 DEF Allocated!Malloc
<1>3. ASSUME NEW bp \in DOMAIN live, Free(bp) PROVE Allocated!Free(bp)
  <2>1. h'.brk = h.brk
    BY <1>1, <1>3, FreeGood DEF Free
  <2>. QED BY <1>3, <2>1 DEF Free, Returned, Allocated!Free, Allocated!Without
<1>4. ASSUME NEW bp \in DOMAIN live, NEW size \in Size, Realloc(bp, size)
      PROVE  Allocated!Realloc(bp, size)
  <2>1. PICK r : r = malloc(h, size)
    OBVIOUS
  <2>2. /\ up /\ up' = up /\ size # 0
        /\ h' = IF r.bp = NULL THEN r.heap ELSE free(r.heap, bp)
        /\ live' = IF r.bp = NULL THEN live ELSE Returned(Handed(live, r.bp, size), bp)
    BY <1>4, <2>1 DEF Realloc
  <2>3. CanRound(size) /\ size \in Nat /\ size + DSIZE <= BLK_SIZE(size)
    BY RoomAsked DEF RequestsFit
  <2>4. MallocServed(h, live, size, size, r)
    BY <1>1, <2>1, <2>3, MallocServes
  <2>5. CASE r.bp = NULL
    <3>1. Allocated!Denied(size)
      BY <2>2, <2>4, <2>5, IsDenied DEF MallocServed
    <3>2. h'.brk >= h.brk
      BY <2>2, <2>4, <2>5 DEF MallocServed
    <3>. QED BY <2>2, <3>1, <3>2 DEF Allocated!Realloc
  <2>6. CASE r.bp # NULL
    <3>1. PICK new : new = Handed(live, r.bp, size)
      OBVIOUS
    <3>2. /\ r.bp \notin DOMAIN live /\ Good(r.heap, new)
          /\ OwnBytes(r.heap, live, r.bp, size) /\ r.heap.brk >= h.brk
      BY <2>4, <2>6, <3>1 DEF MallocServed
    <3>3. DOMAIN new = DOMAIN live \cup {r.bp}
      BY <3>1 DEF Handed
    <3>4. h'.brk = r.heap.brk
      BY <2>2, <2>6, <3>2, <3>3, FreeGood
    <3>5. Allocated!Vacant(r.bp, size)
      BY <3>2, <3>4 DEF Allocated!Vacant, OwnBytes
    <3>6. live' = Returned(new, bp)
      BY <2>2, <2>6, <3>1
    <3>7. r.bp \in DOMAIN live' \ DOMAIN live
      BY <3>2, <3>3, <3>6 DEF Returned
    <3>8. live' = Allocated!Without(Allocated!Holding(r.bp, size), bp)
      BY <3>1, <3>6 DEF Handed, Returned, Allocated!Without, Allocated!Holding
    <3>. QED BY <2>2, <3>2, <3>4, <3>5, <3>7, <3>8 DEF Allocated!Realloc
  <2>. QED BY <2>5, <2>6
<1>5. ASSUME NEW nmemb \in Count, NEW size \in Size, Calloc(nmemb, size)
      PROVE  Allocated!Calloc(nmemb * size)
  <2>1. PICK bytes : bytes = nmemb * size
    OBVIOUS
  <2>2. /\ bytes \in Nat /\ bytes % SIZE_T = bytes /\ bytes + DSIZE <= BLK_SIZE(bytes)
        /\ CanRound(bytes)
    BY <2>1, ProductAsked DEF ProductsFit
  <2>3. PICK r : r = malloc(h, bytes)
    OBVIOUS
  <2>4. /\ up /\ h' = r.heap
        /\ live' = IF r.bp = NULL THEN live ELSE Handed(live, r.bp, bytes)
        /\ up' = (r.bp # NULL \/ bytes = 0)
    BY <1>5, <2>1, <2>2, <2>3, Zenon DEF Calloc
  <2>5. MallocServed(h, live, bytes, bytes, r)
    BY <1>1, <2>2, <2>3, MallocServes
  <2>6. ASSUME r.bp = NULL PROVE Allocated!Denied(bytes) /\ up' = (bytes = 0)
    <3>1. Allocated!Denied(bytes)
      BY <2>4, <2>5, <2>6, IsDenied DEF MallocServed
    <3>2. up' = (bytes = 0)
      BY <2>4, <2>6, Zenon
    <3>. QED BY <3>1, <3>2
  <2>7. ASSUME r.bp # NULL PROVE Allocated!Granted(bytes) /\ UNCHANGED up
    <3>1. Allocated!Granted(bytes)
      BY <2>4, <2>5, <2>7, IsGranted DEF MallocServed
    <3>2. up' = TRUE
      BY <2>4, <2>7, Zenon
    <3>3. up = TRUE
      BY <2>4 DEF Invariant
    <3>. QED BY <3>1, <3>2, <3>3
  <2>8. h'.brk >= h.brk
    BY <2>4, <2>5 DEF MallocServed
  <2>9. \/ Allocated!Granted(bytes) /\ UNCHANGED up
        \/ Allocated!Denied(bytes) /\ up' = (bytes = 0)
    BY <2>6, <2>7
  <2>. QED BY <2>1, <2>4, <2>8, <2>9, Zenon DEF Allocated!Calloc
<1>. QED BY <1>2, <1>3, <1>4, <1>5 DEF MallocNext, Allocated!Next

\* Each call returns bytes that nobody else holds, or has a reason not to, and no
\* call takes away what a caller holds.
THEOREM RefinesAllocator ==
  ASSUME TagsFit, RequestsFit, ProductsFit PROVE MallocSpec => ImplementsAllocator
<1>1. MallocInit => Allocated!Init
  <2>1. SUFFICES ASSUME MallocInit PROVE Allocated!Init
    OBVIOUS
  <2>2. h = NoHeap
    BY <2>1, Zenon DEF MallocInit
  <2>3. h.brk = 0
    BY <2>2 DEF NoHeap
  <2>. QED BY <2>1, <2>3 DEF MallocInit, Allocated!Init
<1>2. ASSUME Invariant, [MallocNext]_mallocVars PROVE [Allocated!Next]_(Allocated!vars)
  <2>1. CASE MallocNext
    BY <1>2, <2>1, CallImplements
  <2>2. CASE UNCHANGED mallocVars
    BY <2>2 DEF mallocVars, Allocated!vars
  <2>. QED BY <1>2, <2>1, <2>2
<1>. QED BY AlwaysGood, <1>1, <1>2, PTL DEF MallocSpec, ImplementsAllocator, Allocated!Spec
=============================================================================
