----------------------------- MODULE Transpose -----------------------------
(***************************************************************************)
(* The matrix transposes of cache/trans.c, run one after the other as they *)
(* are registered, on the cache they are judged by: 1 KB, direct mapped,   *)
(* blocks of 32 bytes (cache/csim.c with s = 5, E = 1, b = 5).             *)
(*                                                                         *)
(* A matrix is its memory: element [r][c] of A (N rows of M) is at place   *)
(* r * M + c, and its value is its place, so that a copy can be told from  *)
(* any other.  One action is one turn of the innermost loop but one.       *)
(***************************************************************************)
EXTENDS Integers, Sequences, FiniteSets, FiniteSetsExt, SequencesExt

CONSTANT Dimensions      \* the sizes <<M, N>> of the matrices

\* REQUIRES(M > 0), REQUIRES(N > 0).  With N = 64 and another M, the branch for
\* 64 x 64 leaves the arrays: undefined, and not modelled.
ASSUME TransposeConstantsOK ==
  \A z \in Dimensions :
    /\ z \in (Nat \ {0}) \X (Nat \ {0})
    /\ z[2] = 64 => z[1] = 64

VARIABLES
  M, N,
  fn,          \* the function that runs: transpose_submit, then trans, then none
  r, c, i,     \* its loops: block row, block column, turn in the block
  v,           \* v4 to v7
  B,
  held,        \* the block in each set
  misses       \* the misses of each function

size == <<M, N>>
transposeVars == <<size, fn, r, c, i, v, B, held, misses>>

UNSET == -1
Nothing == [p \in 0 .. M * N - 1 |-> UNSET]
Empty == [s \in 0 .. 31 |-> UNSET]

TransposeInit ==
  /\ \E z \in Dimensions : M = z[1] /\ N = z[2]
  /\ fn = "transpose_submit" /\ r = 0 /\ c = 0 /\ i = 0
  /\ v = << >> /\ B = Nothing /\ held = Empty
  /\ misses = [transpose_submit |-> 0, trans |-> 0]

-----------------------------------------------------------------------------
(* Memory.  An access is the byte address of an element: B follows A, and  *)
(* both start at a multiple of the cache size.                             *)

AtA(p) == 4 * p
AtB(p) == 262144 + 4 * p

\* A direct-mapped cache: each block has one set.
CacheBlock(a) == a \div 32
CacheSet(a) == CacheBlock(a) % 32

\* The block in set s when the first k accesses of the trace have been made.
Held(trace, k, s) ==
  LET here == {j \in 1 .. k : CacheSet(trace[j]) = s} IN
  IF here = {} THEN held[s] ELSE CacheBlock(trace[Max(here)])

\* What the current turn stores (place in B |-> value) and accesses, in order.
Turn(stores, trace) ==
  LET missed == {k \in DOMAIN trace :
                   Held(trace, k - 1, CacheSet(trace[k])) # CacheBlock(trace[k])} IN
  /\ B' = [p \in DOMAIN B |-> IF p \in DOMAIN stores THEN stores[p] ELSE B[p]]
  /\ held' = [s \in DOMAIN held |-> Held(trace, Len(trace), s)]
  /\ misses' = [misses EXCEPT ![fn] = @ + Cardinality(missed)]

\* The next turn: of the block, of its row of blocks, of the matrix.
Advance(block, turns) ==
  IF i + 1 < turns THEN r' = r /\ c' = c /\ i' = i + 1
  ELSE /\ i' = 0
       /\ IF c + block < M THEN r' = r /\ c' = c + block
          ELSE r' = r + block /\ c' = 0

-----------------------------------------------------------------------------
(* transpose_submit *)

\* The place of [row][col] in a matrix of that width.
Place(row, col, width) == row * width + col

\* M = 32: a row of an 8 x 8 block; the element on the diagonal is stored last.
\* The rows below the last whole block are left out.
Rows32 ==
  /\ fn = "transpose_submit" /\ M = 32 /\ r + 8 <= N
  /\ LET from(j) == Place(r + i, c + j, M)
         to(j) == Place(c + j, r + i, N)
         Copied(j) == IF r = c /\ i = j THEN <<AtA(from(j))>> ELSE <<AtA(from(j)), AtB(to(j))>>
         last == IF r = c THEN <<AtB(Place(r + i, r + i, N))>> ELSE << >>
     IN Turn([p \in {to(j) : j \in 0 .. 7} |-> from(CHOOSE j \in 0 .. 7 : to(j) = p)],
             FlattenSeq([j \in 1 .. 8 |-> Copied(j - 1)]) \o last)
  /\ Advance(8, 8)
  /\ UNCHANGED <<size, fn, v>>

\* N = 64: four elements from place t of A go to a column from place u of B.
Four(t, u, more) ==
  Turn([p \in {u + 64 * k : k \in 0 .. 3} |-> t + (p - u) \div 64],
       [k \in 1 .. 4 |-> AtA(t + k - 1)] \o more \o [k \in 1 .. 4 |-> AtB(u + 64 * (k - 1))])

\* Mutant: v4 to v7 are loaded in every turn.
Down64_Reloads(t, u) ==
  /\ i \in 0 .. 7
  /\ v' = [k \in 1 .. 4 |-> t + 3 + k]
  /\ Four(t, u, [k \in 1 .. 4 |-> AtA(t + 3 + k)])

\* Down the left half of the block; the rest of the first row waits in v4 to v7.
Down64(t, u) ==
  /\ i \in 0 .. 7
  /\ v' = IF i = 0 THEN [k \in 1 .. 4 |-> t + 3 + k] ELSE v
  /\ Four(t, u, IF i = 0 THEN [k \in 1 .. 4 |-> AtA(t + 3 + k)] ELSE << >>)

\* Up the right half, but for the first row.
Up64(t, u) == i \in 8 .. 14 /\ Four(t + 4, u + 4 * N, << >>)

\* The first row of the right half, from v4 to v7.
Corner64(u) ==
  /\ i = 15
  /\ Turn([p \in {u + 4 * N + 64 * k : k \in 0 .. 3} |-> v[1 + (p - u - 4 * N) \div 64]],
          [k \in 1 .. 4 |-> AtB(u + 4 * N + 64 * (k - 1))])

Blocks64 ==
  /\ fn = "transpose_submit" /\ N = 64 /\ r < 64
  /\ LET row == IF i < 8 THEN i ELSE 15 - i
         t == Place(c + row, r, M)
         u == Place(r, c + row, N)
     IN Down64(t, u) \/ (Up64(t, u) /\ v' = v) \/ (Corner64(u) /\ v' = v)
  /\ Advance(8, 16)
  /\ UNCHANGED <<size, fn>>

\* A row of a block, or of the matrix: each element is read and stored.
CopyRow(row, from, to) ==
  Turn([p \in {Place(j, row, N) : j \in from .. to} |-> Place(row, p \div N, M)],
       [k \in 1 .. 2 * (to - from + 1) |->
          LET j == from + (k - 1) \div 2 IN
          IF k % 2 = 1 THEN AtA(Place(row, j, M)) ELSE AtB(Place(j, row, N))])

\* Mutant: the blocks are cut in one direction only.
Rows61_Wide ==
  /\ fn = "transpose_submit" /\ M = 61 /\ r < N
  /\ CopyRow(r + i, 0, M - 1)
  /\ IF i + 1 < Min({18, N - r}) THEN i' = i + 1 /\ r' = r ELSE i' = 0 /\ r' = r + 18
  /\ UNCHANGED <<size, fn, c, v>>

\* M = 61: a row of an 18 x 18 block, which the matrix may cut off.
Rows61 ==
  /\ fn = "transpose_submit" /\ M = 61 /\ r < N
  /\ CopyRow(r + i, c, Min({c + 17, M - 1}))
  /\ Advance(18, Min({18, N - r}))
  /\ UNCHANGED <<size, fn, v>>

\* A branch of transpose_submit tests one side only, and has turns left.  It has
\* no branch for other sizes.
TurnsLeft == (M = 32 /\ r + 8 <= N) \/ (N = 64 /\ r < 64) \/ (M = 61 /\ r < N)

\* The function returns: the driver calls the next one.
Finished == IF fn = "transpose_submit" THEN ~ TurnsLeft ELSE r >= N

NextFunction ==
  /\ Finished /\ fn # "none"
  /\ fn' = IF fn = "trans" THEN "none" ELSE "trans"
  /\ r' = 0 /\ c' = 0 /\ i' = 0 /\ v' = << >> /\ B' = Nothing /\ held' = Empty
  /\ UNCHANGED <<size, misses>>

\* trans: row by row.
Trans ==
  /\ fn = "trans" /\ r < N
  /\ CopyRow(r, 0, M - 1)
  /\ r' = r + 1
  /\ UNCHANGED <<size, fn, c, i, v>>

TransposeNext == Rows32 \/ Blocks64 \/ Rows61 \/ Trans \/ NextFunction

TransposeSpec == TransposeInit /\ [][TransposeNext]_transposeVars

-----------------------------------------------------------------------------
(* Properties. *)

\* The sizes that the branches are enough for.
Covered == (M = 32 /\ N % 8 = 0) \/ N = 64 \/ M = 61

\* ENSURES(is_transpose(M, N, A, B)): of trans always, of transpose_submit for the
\* sizes its branches cover.  And on the way every element of B is set once and
\* for all, to its element of A, whatever the size: the values that wait in v4 to
\* v7 or temp come too late for nothing and are never stale.
EnsuresTranspose ==
  /\ \A p \in 0 .. M * N - 1 : B[p] \in {UNSET, Place(p % N, p \div N, M)}
  /\ Finished /\ (fn = "trans" \/ (fn = "transpose_submit" /\ Covered)) =>
       \A p \in 0 .. M * N - 1 : B[p] # UNSET

\* The blocks pay: "A simple baseline transpose function, not optimized for the
\* cache" misses more often than the submission, for each size of the assignment.
FewerMisses ==
  fn = "none" /\ <<M, N>> \in {<<32, 32>>, <<64, 64>>, <<61, 67>>} =>
    misses.transpose_submit < misses.trans
=============================================================================
