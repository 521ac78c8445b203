------------------------------ MODULE LRUList ------------------------------
(***************************************************************************)
(* What proxylab-handout/cache.c promises its callers: a list of cached    *)
(* blocks, most recently used first, whose operations are atomic.          *)
(*                                                                         *)
(* The module is the abstract specification that ProxyCache, the pointer   *)
(* level model of the same file, is shown to implement.                    *)
(***************************************************************************)
EXTENDS Sequences, SequencesExt

CONSTANT Block      \* every block create_block may ever return

VARIABLE order      \* the cached blocks, most recently used first

Init == order = << >>

\* A hit moves the block to the head of the list and loses no other block.
Touch(b) ==
  \E i \in DOMAIN order :
    /\ order[i] = b
    /\ order' = <<b>> \o RemoveAt(order, i)

\* A new block enters at the head.
Add(b) ==
  /\ b \notin ToSet(order)
  /\ order' = <<b>> \o order

Next == \E b \in Block : Touch(b) \/ Add(b)

Spec == Init /\ [][Next]_order
=============================================================================
