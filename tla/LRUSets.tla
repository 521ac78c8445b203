------------------------------ MODULE LRUSets ------------------------------
(***************************************************************************)
(* What cache/csim.c simulates: a set-associative cache whose sets replace *)
(* their least recently used block.                                        *)
(***************************************************************************)
EXTENDS Integers, Sequences, SequencesExt

CONSTANTS
  S,         \* the number of sets; block n belongs to set n % S
  E,         \* lines per set
  Block

Set == 0 .. S - 1

VARIABLES
  block,     \* the block named last
  recent,    \* recent[set]: the blocks in the set, most recently used first
  hits, misses, evictions

vars == <<block, recent, hits, misses, evictions>>

Init ==
  /\ block = 0
  /\ recent = [set \in Set |-> << >>]
  /\ hits = 0 /\ misses = 0 /\ evictions = 0

Hit(n) ==
  LET set == block' % S IN
  /\ \E i \in DOMAIN recent[set] :
       /\ recent[set][i] = block'
       /\ recent' = [recent EXCEPT ![set] = <<block'>> \o RemoveAt(@, i)]
  /\ hits' = hits + n
  /\ UNCHANGED <<misses, evictions>>

\* n hits come on top of the miss: a modify stores where it just loaded.
Miss(n) ==
  LET set == block' % S
      full == Len(recent[set]) = E
      kept == IF full THEN Front(recent[set]) ELSE recent[set]
  IN  /\ block' \notin ToSet(recent[set])
      /\ recent' = [recent EXCEPT ![set] = <<block'>> \o kept]
      /\ misses' = misses + 1
      /\ evictions' = evictions + (IF full THEN 1 ELSE 0)
      /\ hits' = hits + n

Next ==
  /\ block' \in Block
  /\ Hit(1) \/ Hit(2) \/ Miss(0) \/ Miss(1)

Spec == Init /\ [][Next]_vars
=============================================================================
