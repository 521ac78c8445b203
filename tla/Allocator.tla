----------------------------- MODULE Allocator -----------------------------
(***************************************************************************)
(* What malloc-lab.c promises its callers, whatever the heap looks like    *)
(* inside: bytes of their own.                                             *)
(***************************************************************************)
EXTENDS Integers

CONSTANTS
  CHUNKSIZE,    \* 1024 in the source
  LIMIT,        \* the heap cannot end beyond it
  Size,         \* the sizes callers ask for
  Count         \* the numbers of elements callers of calloc ask for

VARIABLES
  held,    \* held[p]: the number of bytes from p on that a caller may use
  top,     \* where the heap ends
  up       \* FALSE once the process died

vars == <<held, top, up>>

Init == held = << >> /\ top = 0 /\ up = TRUE

Holding(p, n) == [q \in DOMAIN held \cup {p} |-> IF q = p THEN n ELSE held[q]]
Without(f, p) == [q \in DOMAIN f \ {p} |-> f[q]]

\* The n bytes from p on are aligned, in the heap, and in nobody's hands.
Vacant(p, n) ==
  /\ p > 0 /\ p % 8 = 0 /\ p + n <= top'
  /\ \A q \in DOMAIN held : p + n <= q \/ q + held[q] <= p

\* A request of nothing is denied; another one only if the heap cannot grow by
\* the n bytes with their tags, or by what it grows at least, which is as much
\* as it has, up to CHUNKSIZE.
Denied(n) ==
  /\ \/ n = 0
     \/ top' + n + 24 > LIMIT
     \/ top' + top' > LIMIT /\ top' + CHUNKSIZE > LIMIT
  /\ UNCHANGED held

Granted(n) ==
  /\ n # 0
  /\ \E p \in DOMAIN held' \ DOMAIN held : Vacant(p, n) /\ held' = Holding(p, n)

Malloc(n) ==
  /\ up
  /\ Granted(n) \/ Denied(n)
  /\ top' >= top
  /\ UNCHANGED up

Free(p) ==
  /\ up
  /\ p \in DOMAIN held
  /\ held' = Without(held, p)
  /\ UNCHANGED <<top, up>>

\* The new bytes are other ones than the old, which are given up for them, and
\* only for them.
Realloc(p, n) ==
  /\ up
  /\ p \in DOMAIN held /\ n # 0
  /\ \/ \E q \in DOMAIN held' \ DOMAIN held : Vacant(q, n) /\ held' = Without(Holding(q, n), p)
     \/ Denied(n)
  /\ top' >= top
  /\ UNCHANGED up

\* When there is no memory for n bytes, the process dies.
Calloc(n) ==
  /\ up
  /\ \/ Granted(n) /\ UNCHANGED up
     \/ Denied(n) /\ up' = (n = 0)
  /\ top' >= top

Next ==
  \/ \E n \in Size : Malloc(n)
  \/ \E p \in DOMAIN held : Free(p)
  \/ \E p \in DOMAIN held, n \in Size : Realloc(p, n)
  \/ \E k \in Count, n \in Size : Calloc(k * n)

Spec == Init /\ [][Next]_vars
=============================================================================
