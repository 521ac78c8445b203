---------------------------- MODULE MCSequential ----------------------------
(***************************************************************************)
(* The sequential programs, which share nothing, for TLC: a behaviour is   *)
(* one of Transpose, ParseLine, Bits, CacheSim or Malloc, while the others *)
(* do not start.                                                           *)
(***************************************************************************)
EXTENDS Transpose, ParseLine, Bits, CacheSim, Malloc

\* The sizes of the assignment, some that the branches test one side of, and others.
MCDimensions ==
  {<<32, 32>>, <<64, 64>>, <<61, 67>>, <<32, 8>>, <<32, 12>>, <<61, 5>>,
   <<64, 8>>, <<3, 4>>, <<1, 1>>}

MCLexeme == {"<", ">", "unclosed", "word", "&", "'&'", "fg"}

\* Runs of ones with ends where bytes, the fraction and the word end, and
\* numbers at and around the halves of the last bit of a float's fraction.
RunEnds == {0, 1, 7, 8, 15, 16, 22, 23, 24, 30, 31}
MCPairs ==
  {from .. to : from, to \in RunEnds}
    \cup {{0, 31}, {k \in Bit : k % 2 = 0}, {k \in Bit : k % 2 = 1}}
Halves ==
  {{24} \cup low : low \in SUBSET (0 .. 2)} \cup {{25} \cup low : low \in SUBSET (0 .. 3)}
    \cup {{30} \cup low : low \in SUBSET {0, 5, 6, 7, 8}}
    \cup {(0 .. top) \ low : top \in {24, 30}, low \in SUBSET {0, 1, 6, 7}}
MCWords == MCPairs \cup Halves \cup {Bit \ w : w \in MCPairs \cup Halves}

VARIABLE program

\* Not started: a matrix with no element, an empty line, no argument, an empty
\* cache, no heap.
NoTranspose ==
  /\ M = 0 /\ N = 0 /\ fn = "transpose_submit" /\ r = 0 /\ c = 0 /\ i = 0
  /\ v = << >> /\ B = Nothing /\ held = Empty
  /\ misses = [transpose_submit |-> 0, trans |-> 0]
NoLine == line = << >> /\ ParseInit
NoPuzzle == word = {} /\ another = {} /\ count = 0 /\ arguments = 0

Init ==
  /\ program \in {"transpose", "parseline", "bits", "csim", "malloc"}
  /\ IF program = "transpose" THEN TransposeInit ELSE NoTranspose
  /\ IF program = "parseline" THEN ParseInit ELSE NoLine
  /\ IF program = "bits" THEN PuzzleInit ELSE NoPuzzle
  /\ SimInit
  /\ MallocInit

Next ==
  /\ UNCHANGED program
  /\ \/ /\ program = "transpose" /\ TransposeNext
        /\ UNCHANGED <<parseVars, puzzleVars, simVars, mallocVars>>
     \/ /\ program = "parseline" /\ ParseNext
        /\ UNCHANGED <<transposeVars, puzzleVars, simVars, mallocVars>>
     \/ /\ program = "bits" /\ PuzzleNext
        /\ UNCHANGED <<transposeVars, parseVars, simVars, mallocVars>>
     \/ /\ program = "csim" /\ SimNext
        /\ UNCHANGED <<transposeVars, parseVars, puzzleVars, mallocVars>>
     \/ /\ program = "malloc" /\ MallocNext
        /\ UNCHANGED <<transposeVars, parseVars, puzzleVars, simVars>>

Spec ==
  Init /\ [][Next]_<<program, transposeVars, parseVars, puzzleVars, simVars, mallocVars>>
=============================================================================
