-------------------------- MODULE SequentialProofs --------------------------
(***************************************************************************)
(* Proofs about three of the sequential programs.                          *)
(*                                                                         *)
(* ParseLine, for any line and any number of arguments: a line is taken    *)
(* apart as it is written, or refused.  The property speaks of whole       *)
(* lines, the loop has seen a part: the invariant says of the part up to   *)
(* buf what the property says of a line, but for the run of < and > that   *)
(* may be at its end.  The rest is that the places of the arguments, put   *)
(* in order, are what the loop appends.                                    *)
(*                                                                         *)
(* Transpose, for any cache and any sizes: what is stored is right, and is *)
(* all there is.  Stored tells from the loops which elements that are; the *)
(* invariant adds what the four registers hold while they wait.            *)
(*                                                                         *)
(* Bits, for every word: the puzzles have no invariant, the work is in     *)
(* arithmetic on sets of bits.  A word and its value determine each other  *)
(* (SameValue), and each operator is a sum, a product or a remainder of    *)
(* values: + by its carries (AddValue), which are those bits for which the *)
(* parts below add up to too much, shifts by a split of the sum            *)
(* (ValueSplit, ValueShl).  A puzzle is then right because two values are  *)
(* equal, or bit by bit where it only moves bits.                          *)
(***************************************************************************)
EXTENDS ParseLine, Transpose, Bits, DataLemmas

-----------------------------------------------------------------------------
(* Places in order. *)

\* The k-th place has k - 1 before it.
LEMMA ListingBefore ==
  ASSUME NEW A, NEW w, IsListing(w, A), NEW k \in 1 .. Len(w)
  PROVE  Cardinality({q \in A : q < w[k]}) = k - 1
<1>. DEFINE l == Len(w)
<1>. DEFINE shorter == SubSeq(w, 1, k - 1)
<1>. DEFINE earlier == {q \in A : q < w[k]}
<1>1. /\ w \in Seq(Nat) /\ l \in Nat /\ k \in 1 .. l /\ \A j \in 1 .. l : w[j] \in Nat
      /\ \A h, j \in 1 .. l : h < j => w[h] < w[j]
      /\ \A x : x \in A <=> \E j \in 1 .. l : w[j] = x
  BY ListingOnce DEF IsListing
<1>. HIDE DEF l
<1>2. shorter \in Seq(Nat) /\ Len(shorter) = k - 1 /\ \A j \in 1 .. k - 1 : shorter[j] = w[j]
  BY <1>1, SubSeqProperties
<1>. HIDE DEF shorter
<1>3. ASSUME NEW x PROVE x \in ToSet(shorter) <=> x \in earlier
  <2>1. x \in ToSet(shorter) <=> \E j \in 1 .. k - 1 : w[j] = x
    BY SMTT(20), <1>2, ElementsAre
  <2>2. ASSUME NEW j \in 1 .. k - 1, w[j] = x PROVE x \in earlier
    BY <1>1, <2>2
  <2>3. ASSUME x \in earlier PROVE \E j \in 1 .. k - 1 : w[j] = x
    <3>1. PICK j \in 1 .. l : w[j] = x
      BY <1>1, <2>3
    <3>2. w[j] < w[k] /\ w[j] \in Nat /\ w[k] \in Nat
      BY <1>1, <2>3, <3>1
    <3>3. j < k
      BY <1>1, <3>2
    <3>. QED BY <1>1, <3>1, <3>3
  <2>. QED BY <2>1, <2>2, <2>3
<1>4. IsListing(shorter, earlier)
  <2>1. ToSet(shorter) = earlier
    BY <1>3
  <2>2. \A h, j \in 1 .. k - 1 : h < j => shorter[h] < shorter[j]
    BY <1>1, <1>2
  <2>. HIDE DEF earlier
  <2>. QED BY <1>2, <2>1, <2>2 DEF IsListing
<1>. QED BY <1>2, <1>4, ListingOnce

\* Hence there is one listing only, the one that WordsOf takes.
LEMMA ListingIs ==
  ASSUME NEW A, NEW w, IsListing(w, A)
  PROVE  InOrder(A) = w
<1>1. Cardinality(A) = Len(w) /\ w \in Seq(Nat)
  BY ListingOnce DEF IsListing
<1>2. ASSUME NEW k \in 1 .. Len(w)
      PROVE  (CHOOSE p \in A : Cardinality({q \in A : q < p}) = k - 1) = w[k]
  <2>1. w[k] \in A /\ Cardinality({q \in A : q < w[k]}) = k - 1
    BY ListingOnce, ListingBefore
  <2>2. ASSUME NEW p \in A, Cardinality({q \in A : q < p}) = k - 1 PROVE p = w[k]
    <3>1. PICK j \in 1 .. Len(w) : w[j] = p
      BY ListingOnce
    <3>2. Cardinality({q \in A : q < w[j]}) = j - 1
      BY ListingBefore
    <3>3. j - 1 = k - 1
      BY <2>2, <3>1, <3>2
    <3>. QED BY <3>1, <3>3
  <2>. QED BY <2>1, <2>2
<1>3. InOrder(A) = [k \in 1 .. Len(w) |-> w[k]]
  BY <1>1, <1>2 DEF InOrder
<1>4. w = [k \in 1 .. Len(w) |-> w[k]]
  BY <1>1
<1>. QED BY <1>3, <1>4

-----------------------------------------------------------------------------
(* Parts of a line. *)

\* The arguments and files of the first n lexemes are those of the line so far.
LEMMA PartOfLine ==
  ASSUME NEW l \in Seq(Lexeme), NEW p \in Seq(Lexeme), NEW n \in 0 .. Len(l),
         Len(p) = n, \A k \in 1 .. n : p[k] = l[k]
  PROVE  /\ \A f : FilesOf(p, f) = FilesOf(l, f) \cap 1 .. n
         /\ ArgumentsOf(p) = ArgumentsOf(l) \cap 1 .. n
<1>1. Len(l) \in Nat /\ n \in Nat /\ n <= Len(l)
  OBVIOUS
<1>2. TokensOf(p) = TokensOf(l) \cap 1 .. n
  BY <1>1 DEF TokensOf
<1>3. ASSUME NEW f PROVE FilesOf(p, f) = FilesOf(l, f) \cap 1 .. n
  <2>1. \A k \in 1 .. n : k > 1 => k - 1 \in 1 .. n
    BY <1>1
  <2>. QED BY <1>2, <2>1 DEF FilesOf
<1>. QED BY <1>2, <1>3 DEF ArgumentsOf

\* The places of a line, and of a part of it, are finitely many.
LEMMA ArgumentsFinite ==
  ASSUME NEW l \in Seq(Lexeme)
  PROVE  /\ ArgumentsOf(l) \in SUBSET (1 .. Len(l)) /\ IsFiniteSet(ArgumentsOf(l))
         /\ \A f : FilesOf(l, f) \in SUBSET (1 .. Len(l)) /\ IsFiniteSet(FilesOf(l, f))
<1>1. Len(l) \in Nat /\ IsFiniteSet(1 .. Len(l))
  BY FS_Interval
<1>2. TokensOf(l) \in SUBSET (1 .. Len(l))
  BY DEF TokensOf
<1>3. ArgumentsOf(l) \in SUBSET (1 .. Len(l)) /\ \A f : FilesOf(l, f) \in SUBSET (1 .. Len(l))
  BY <1>2 DEF ArgumentsOf, FilesOf
<1>. QED BY <1>1, <1>3, FS_Subset

\* Seen are the first n lexemes: all of them, or those up to the argument that
\* fills argv.
SeenTo(n) ==
  /\ n \in 0 .. Len(line)
  /\ Seen \in Seq(Lexeme) /\ Len(Seen) = n /\ \A k \in 1 .. n : Seen[k] = line[k]
  /\ \/ n = Len(line) /\ Cardinality(ArgumentsOf(line)) < MAXARGS - 1
     \/ /\ n \in ArgumentsOf(line)
        /\ Cardinality({q \in ArgumentsOf(line) : q < n}) = MAXARGS - 2

LEMMA SeenExists == ASSUME line \in Seq(Lexeme) PROVE \E n : SeenTo(n)
<1>. DEFINE l == Len(line)
<1>. DEFINE A == ArgumentsOf(line)
<1>1. l \in Nat /\ MAXARGS \in Nat /\ MAXARGS >= 2 /\ \A k \in 1 .. l : line[k] \in Lexeme
  BY ParseConstantsOK
<1>2. PICK w : IsListing(w, A)
  <2>1. A \in SUBSET (1 .. l) /\ l \in Nat
    BY ArgumentsFinite
  <2>. HIDE DEF A, l
  <2>. QED BY <2>1, ListingExists
<1>3. /\ WordsOf(line) = w /\ Cardinality(A) = Len(w) /\ Len(w) \in Nat
      /\ \A k \in 1 .. Len(w) : w[k] \in A
      /\ A \in SUBSET (1 .. l)
  BY <1>2, ListingIs, ListingOnce, ArgumentsFinite DEF WordsOf, IsListing
<1>. HIDE DEF A
<1>4. CASE Len(w) < MAXARGS - 1
  <2>1. Seen = line
    BY <1>3, <1>4 DEF Seen
  <2>2. SeenTo(l)
    BY <1>1, <1>3, <1>4, <2>1 DEF SeenTo, A
  <2>. QED BY <2>2
<1>5. CASE ~ Len(w) < MAXARGS - 1
  <2>. DEFINE n == w[MAXARGS - 1]
  <2>1. MAXARGS - 1 \in 1 .. Len(w) /\ (MAXARGS - 1) - 1 = MAXARGS - 2
    BY <1>1, <1>3, <1>5
  <2>2. Seen = SubSeq(line, 1, n)
    BY <1>3, <1>5 DEF Seen
  <2>3. n \in A /\ n \in 1 .. l
    BY <1>3, <2>1
  <2>4. Cardinality({q \in A : q < w[MAXARGS - 1]}) = (MAXARGS - 1) - 1
    BY <1>2, <2>1, ListingBefore
  <2>. HIDE DEF l
  <2>5. /\ SubSeq(line, 1, n) \in Seq(Lexeme) /\ Len(SubSeq(line, 1, n)) = n
        /\ \A k \in 1 .. n : SubSeq(line, 1, n)[k] = line[k]
    <3>1. /\ SubSeq(line, 1, n) \in Seq(Lexeme)
          /\ Len(SubSeq(line, 1, n)) = IF 1 <= n THEN n - 1 + 1 ELSE 0
          /\ \A k \in 1 .. n - 1 + 1 : SubSeq(line, 1, n)[k] = line[1 + k - 1]
      <4>. HIDE DEF n
      <4>1. n \in 1 .. Len(line)
        BY <2>3 DEF l
      <4>2. \A k \in 1 .. n : line[k] \in Lexeme
        BY <4>1
      <4>. QED BY <4>1, <4>2, SubSeqProperties
    <3>2. n \in Nat /\ 1 <= n /\ n - 1 + 1 = n /\ \A k \in 1 .. n : 1 + k - 1 = k
      BY <1>1, <2>3
    <3>. HIDE DEF n
    <3>. QED BY <3>1, <3>2
  <2>6. SeenTo(n)
    <3>. HIDE DEF n
    <3>1. n \in 0 .. Len(line)
      BY <1>1, <2>3 DEF l
    <3>2. Cardinality({q \in A : q < n}) = MAXARGS - 2
      BY <2>1, <2>4 DEF n
    <3>. QED BY <2>2, <2>3, <2>5, <3>1, <3>2 DEF SeenTo, A
  <2>. QED BY <2>6
<1>. QED BY <1>4, <1>5

\* What the code accepts: WellFormed, but for a repeated < or >.
Accepted(l) ==
  /\ \A k \in 1 .. Len(l) :
       /\ l[k] # "unclosed"
       /\ l[k] \in {"<", ">"} => k < Len(l) /\ l[k + 1] \in Token \cup {l[k]}
  /\ Cardinality(FilesOf(l, "<")) <= 1 /\ Cardinality(FilesOf(l, ">")) <= 1

\* What an accepted part looks like in the line.
LEMMA AcceptedSeen ==
  ASSUME line \in Seq(Lexeme), NEW n, SeenTo(n)
  PROVE  /\ Accepted(Seen) <=>
              /\ \A k \in 1 .. n :
                   /\ line[k] # "unclosed"
                   /\ line[k] \in {"<", ">"} => k < n /\ line[k + 1] \in Token \cup {line[k]}
              /\ \A f \in {"<", ">"} : Cardinality(FilesOf(line, f) \cap 1 .. n) <= 1
         /\ \A f : FilesOf(Seen, f) = FilesOf(line, f) \cap 1 .. n
         /\ ArgumentsOf(Seen) = ArgumentsOf(line) \cap 1 .. n
<1>1. n \in 0 .. Len(line) /\ Seen \in Seq(Lexeme) /\ Len(Seen) = n
      /\ \A k \in 1 .. n : Seen[k] = line[k]
  BY DEF SeenTo
<1>2. /\ \A f : FilesOf(Seen, f) = FilesOf(line, f) \cap 1 .. n
      /\ ArgumentsOf(Seen) = ArgumentsOf(line) \cap 1 .. n
  BY <1>1, PartOfLine
<1>3. \A k \in 1 .. n : k < n => k + 1 \in 1 .. n
  BY <1>1
<1>. QED BY <1>1, <1>2, <1>3 DEF Accepted

\* What is shown of every line, plain or not.
ParsedExactly ==
  /\ line \in Seq(Lexeme) /\ Len(argv) < MAXARGS
  /\ result # "parsing" =>
       LET words == WordsOf(Seen)
           background == words # << >> /\ line[words[Len(words)]] \in Operators
           given == IF background THEN SubSeq(words, 1, Len(words) - 1) ELSE words
       IN /\ result = "error" <=> ~ Accepted(Seen)
          /\ result # "error" =>
               /\ argv = given
               /\ FilesOf(Seen, "<") = {infile} \ {0}
               /\ FilesOf(Seen, ">") = {outfile} \ {0}
               /\ words # << >> => (result = "background" <=> background)
               /\ Evaluated = IF given = << >> THEN "nothing"
                              ELSE IF line[given[1]] \in Builtin THEN line[given[1]]
                              ELSE "fork"

-----------------------------------------------------------------------------
(* The invariant of the loop. *)

Redirect == {"<", ">"}

\* The lexemes before buf are taken apart as a line should be, and they are
\* accepted but for a run of redirection characters at the end: those are in
\* parsing_state, and when they are mixed the line can only be refused.
Reached ==
  /\ line \in Seq(Lexeme) /\ buf \in 1 .. Len(line) + 1
  /\ parsing_state \in SUBSET Redirect
  /\ Len(argv) < MAXARGS
  /\ IsListing(argv, ArgumentsOf(line) \cap 1 .. buf - 1)
  /\ FilesOf(line, "<") \cap 1 .. buf - 1 = {infile} \ {0}
  /\ FilesOf(line, ">") \cap 1 .. buf - 1 = {outfile} \ {0}
  /\ "<" \in parsing_state => infile = 0
  /\ ">" \in parsing_state => outfile = 0
  /\ parsing_state = {} => buf = 1 \/ line[buf - 1] \in Token
  /\ parsing_state # {} => buf > 1 /\ line[buf - 1] \in parsing_state
  /\ Full => buf - 1 \in ArgumentsOf(line)
  /\ \A k \in 1 .. buf - 1 : line[k] # "unclosed"
  /\ IF parsing_state = Redirect
     THEN \E k \in 1 .. buf - 2 :
            line[k] \in Redirect /\ line[k + 1] \in Redirect /\ line[k] # line[k + 1]
     ELSE \A k \in 1 .. buf - 2 :
            line[k] \in Redirect => line[k + 1] \in Token \cup {line[k]}

ParseInv ==
  IF result = "parsing" THEN Reached ELSE ParsedExactly

\* Tokens are no redirection characters.
LEMMA TokensDiffer == \A x \in Token : x \notin Redirect /\ x # "unclosed"
BY DEF Token, Operators, Builtin, Redirect

\* As long as argv has room, the lexeme to look at next is one that is seen.
LEMMA NextIsSeen ==
  ASSUME Reached, Reading, NEW n, SeenTo(n)
  PROVE  buf \in 1 .. n
<1>1. /\ buf \in 1 .. Len(line) /\ n \in 0 .. Len(line) /\ Len(line) \in Nat
      /\ Len(argv) < MAXARGS - 1 /\ Len(argv) \in Nat /\ MAXARGS \in Nat
  BY ParseConstantsOK DEF Reached, Reading, Full, SeenTo, IsListing
<1>2. CASE n = Len(line)
  BY <1>1, <1>2
<1>3. CASE n # Len(line)
  <2>. SUFFICES ASSUME n <= buf - 1 PROVE FALSE
    BY <1>1
  <2>. DEFINE A == ArgumentsOf(line)
  <2>. DEFINE before == {q \in A : q < n}
  <2>. DEFINE read == A \cap 1 .. buf - 1
  <2>1. n \in A /\ Cardinality(before) = MAXARGS - 2 /\ n \in Nat /\ A \in SUBSET (1 .. Len(line))
    BY <1>1, <1>3, ArgumentsFinite DEF SeenTo, Reached
  <2>2. IsFiniteSet(read) /\ Cardinality(read) = Len(argv)
    BY ListingOnce DEF Reached
  <2>3. before \subseteq read \ {n} /\ n \in read
    BY <1>1, <2>1
  <2>. HIDE DEF A, before, read
  <2>4. Cardinality(read \ {n}) = Len(argv) - 1 /\ IsFiniteSet(read \ {n})
    BY <2>2, <2>3, FS_RemoveElement
  <2>5. Cardinality(before) <= Cardinality(read \ {n})
    BY <2>3, <2>4, FS_Subset
  <2>. QED BY <1>1, <2>1, <2>4, <2>5
<1>. QED BY <1>2, <1>3

\* When the loop has ended without an error, all that is seen has been read.
LEMMA AllSeen ==
  ASSUME Reached, result = "parsing", ~ Reading, parsing_state = {}, NEW n, SeenTo(n)
  PROVE  n = buf - 1
<1>. DEFINE A == ArgumentsOf(line)
<1>. DEFINE read == A \cap 1 .. buf - 1
<1>. DEFINE before == {q \in A : q < n}
<1>1. /\ buf \in 1 .. Len(line) + 1 /\ n \in 0 .. Len(line) /\ Len(line) \in Nat
      /\ Len(argv) < MAXARGS /\ Len(argv) \in Nat /\ MAXARGS \in Nat
      /\ buf = Len(line) + 1 \/ Full
      /\ A \in SUBSET (1 .. Len(line)) /\ IsFiniteSet(A)
  BY ParseConstantsOK, ArgumentsFinite DEF Reached, Reading, SeenTo, IsListing
<1>2. /\ IsFiniteSet(read) /\ Cardinality(read) = Len(argv)
      /\ Full => buf - 1 \in A /\ Len(argv) = MAXARGS - 1
  BY <1>1, ListingOnce DEF Reached, Full
<1>3. \/ n = Len(line) /\ Cardinality(A) < MAXARGS - 1
      \/ n \in A /\ Cardinality(before) = MAXARGS - 2
  BY DEF SeenTo
<1>4. Cardinality(read) <= Cardinality(A)
  <2>1. read \subseteq A
    OBVIOUS
  <2>. HIDE DEF A, read
  <2>. QED BY <1>1, <2>1, FS_Subset
<1>5. ASSUME n \in A, Cardinality(before) = MAXARGS - 2, n <= buf - 1
      PROVE  Cardinality(read) >= MAXARGS - 1
  <2>1. before \subseteq read \ {n} /\ n \in read
    BY <1>1, <1>5
  <2>. HIDE DEF A, before, read
  <2>2. Cardinality(read \ {n}) = Len(argv) - 1 /\ IsFiniteSet(read \ {n})
    BY <1>2, <2>1, FS_RemoveElement
  <2>3. Cardinality(before) <= Cardinality(read \ {n})
    BY <2>1, <2>2, FS_Subset
  <2>. QED BY <1>1, <1>2, <1>5, <2>2, <2>3
<1>6. ASSUME Full PROVE n = buf - 1
  <2>1. n \in A /\ Cardinality(before) = MAXARGS - 2 /\ buf - 1 \in A
    <3>. HIDE DEF A, before, read
    <3>. QED BY <1>1, <1>2, <1>3, <1>4, <1>6, FS_CardinalityType
  <2>2. CASE n < buf - 1
    <3>1. before \subseteq (read \ {buf - 1}) \ {n} /\ n \in read \ {buf - 1} /\ buf - 1 \in read
      BY <1>1, <2>1, <2>2
    <3>. HIDE DEF A, before, read
    <3>2. Cardinality(read \ {buf - 1}) = Len(argv) - 1 /\ IsFiniteSet(read \ {buf - 1})
      BY <1>2, <3>1, FS_RemoveElement
    <3>3. /\ Cardinality((read \ {buf - 1}) \ {n}) = (Len(argv) - 1) - 1
          /\ IsFiniteSet((read \ {buf - 1}) \ {n})
      BY <3>1, <3>2, FS_RemoveElement
    <3>4. Cardinality(before) <= Cardinality((read \ {buf - 1}) \ {n})
      BY <3>1, <3>3, FS_Subset
    <3>. QED BY <1>1, <1>2, <1>6, <2>1, <3>3, <3>4
  <2>3. CASE n > buf - 1
    <3>1. read \subseteq before
      BY <1>1, <2>3
    <3>2. IsFiniteSet(before)
      <4>1. before \subseteq A
        OBVIOUS
      <4>. HIDE DEF A, before
      <4>. QED BY <1>1, <4>1, FS_Subset
    <3>. HIDE DEF A, before, read
    <3>3. Cardinality(read) <= Cardinality(before)
      BY <3>1, <3>2, FS_Subset
    <3>. QED BY <1>1, <1>2, <1>6, <2>1, <3>3
  <2>. QED BY <1>1, <2>2, <2>3
<1>7. ASSUME ~ Full PROVE n = buf - 1
  <2>1. Cardinality(read) < MAXARGS - 1 /\ buf = Len(line) + 1
    <3>. HIDE DEF A, before, read
    <3>. QED BY <1>1, <1>2, <1>7 DEF Full
  <2>. HIDE DEF A, before, read
  <2>2. Cardinality(read) \in Nat /\ n <= buf - 1
    BY <1>1, <1>2, <2>1
  <2>. QED BY <1>1, <1>3, <1>5, <2>1, <2>2
<1>. QED BY <1>6, <1>7

-----------------------------------------------------------------------------
(* Errors: the loop refuses only what is not accepted. *)

\* A second redirection of a kind: what is seen ends in it, or names a second
\* file, or is not accepted in between.
LEMMA SecondFile ==
  ASSUME Reached, Reading, NEW n, SeenTo(n), NEW f \in Redirect, line[buf] = f,
         NEW e, e # 0, FilesOf(line, f) \cap 1 .. buf - 1 = {e} \ {0}
  PROVE  ~ Accepted(Seen)
<1>. SUFFICES ASSUME Accepted(Seen) PROVE FALSE
  OBVIOUS
<1>. DEFINE F == FilesOf(line, f) \cap 1 .. n
<1>. DEFINE After == {k \in buf + 1 .. n : line[k] # f}
<1>1. /\ buf \in 1 .. n /\ n \in Nat /\ n <= Len(line) /\ Len(line) \in Nat /\ line \in Seq(Lexeme)
  <2>1. buf \in 1 .. n
    BY NextIsSeen
  <2>2. n \in 0 .. Len(line) /\ line \in Seq(Lexeme)
    BY DEF Reached, SeenTo
  <2>3. Len(line) \in Nat
    BY <2>2
  <2>. QED BY <2>1, <2>2, <2>3
<1>2. /\ \A k \in 1 .. n : line[k] = f => k < n /\ line[k + 1] \in Token \cup {f}
      /\ Cardinality(F) <= 1
  BY AcceptedSeen DEF Reached, Redirect
<1>3. After # {}
  <2>. SUFFICES ASSUME After = {} PROVE FALSE
    OBVIOUS
  <2>1. line[n] = f
    BY <1>1
  <2>. QED BY <1>1, <1>2, <2>1
<1>4. PICK m \in After : \A k \in After : m <= k
  <2>1. After \in SUBSET Nat
    BY <1>1
  <2>. HIDE DEF After
  <2>. QED BY <1>3, <2>1, LeastNat
<1>5. m \in buf + 1 .. n /\ line[m] # f /\ m - 1 \in buf .. n /\ m - 1 \in 1 .. n
      /\ (m - 1) + 1 = m /\ m \in Nat /\ m > 1
  BY <1>1, <1>4
<1>6. line[m - 1] = f
  <2>1. m - 1 = buf \/ (m - 1 \in buf + 1 .. n /\ ~ m <= m - 1)
    BY <1>1, <1>5
  <2>. QED BY <1>4, <2>1
<1>7. line[m] \in Token
  BY <1>2, <1>5, <1>6
<1>8. m \in F
  <2>1. m \in 1 .. Len(line)
    BY <1>1, <1>5
  <2>. QED BY <1>1, <1>5, <1>6, <1>7, <2>1 DEF FilesOf, TokensOf
<1>9. e \in F /\ e # m
  <2>1. e \in FilesOf(line, f) /\ e \in 1 .. buf - 1
    OBVIOUS
  <2>2. e \in 1 .. n /\ e # m
    BY <1>1, <1>5, <2>1
  <2>. QED BY <2>1, <2>2
<1>10. IsFiniteSet(F)
  <2>1. IsFiniteSet(FilesOf(line, f)) /\ F \subseteq FilesOf(line, f)
    BY <1>1, ArgumentsFinite
  <2>. HIDE DEF F
  <2>. QED BY <2>1, FS_Subset
<1>. HIDE DEF F
<1>11. Cardinality(F \ {m}) = Cardinality(F) - 1 /\ IsFiniteSet(F \ {m})
  BY <1>8, <1>10, FS_RemoveElement
<1>12. Cardinality((F \ {m}) \ {e}) = (Cardinality(F) - 1) - 1 /\ IsFiniteSet((F \ {m}) \ {e})
  <2>1. e \in F \ {m}
    BY <1>9
  <2>. QED BY <1>11, <2>1, FS_RemoveElement
<1>13. Cardinality((F \ {m}) \ {e}) \in Nat /\ Cardinality(F) \in Nat
  BY <1>10, <1>12, FS_CardinalityType
<1>. QED BY <1>2, <1>12, <1>13

\* The two kinds of characters in a row.
LEMMA Mixed ==
  ASSUME Reached, Reading, NEW n, SeenTo(n), parsing_state = Redirect
  PROVE  ~ Accepted(Seen)
<1>1. PICK k \in 1 .. buf - 2 :
        line[k] \in Redirect /\ line[k + 1] \in Redirect /\ line[k] # line[k + 1]
  BY DEF Reached
<1>2. buf \in 1 .. n /\ n \in Nat
  <2>1. n \in 0 .. Len(line) /\ Len(line) \in Nat
    <3>1. line \in Seq(Lexeme)
      BY DEF Reached
    <3>. QED BY <3>1 DEF SeenTo
  <2>. QED BY <2>1, NextIsSeen
<1>3. k \in 1 .. n
  BY <1>1, <1>2
<1>. QED BY <1>1, <1>3, AcceptedSeen, TokensDiffer DEF Reached, Redirect

\* A quote that is not closed.
LEMMA Unclosed ==
  ASSUME Reached, Reading, NEW n, SeenTo(n), line[buf] = "unclosed"
  PROVE  ~ Accepted(Seen)
BY NextIsSeen, AcceptedSeen DEF Reached

\* A character with nothing after it: the line has ended, not argv.
LEMMA NoFile ==
  ASSUME Reached, result = "parsing", ~ Reading, NEW n, SeenTo(n), parsing_state # {}
  PROVE  ~ Accepted(Seen)
<1>1. /\ buf \in 1 .. Len(line) + 1 /\ Len(line) \in Nat /\ buf > 1 /\ line[buf - 1] \in Redirect
      /\ Len(argv) \in Nat /\ MAXARGS \in Nat /\ n \in 0 .. Len(line)
  BY ParseConstantsOK DEF Reached, SeenTo, IsListing
<1>2. ~ Full
  BY <1>1, TokensDiffer DEF Reached, ArgumentsOf, TokensOf
<1>3. buf = Len(line) + 1
  BY <1>1, <1>2 DEF Reading
<1>4. ArgumentsOf(line) \cap 1 .. buf - 1 = ArgumentsOf(line)
  BY <1>3, <1>1, ArgumentsFinite DEF Reached
<1>5. IsListing(argv, ArgumentsOf(line))
  BY <1>4 DEF Reached
<1>6. n = Len(line)
  <2>1. ASSUME n \in ArgumentsOf(line), Cardinality({q \in ArgumentsOf(line) : q < n}) = MAXARGS - 2
        PROVE  FALSE
    <3>1. PICK k \in 1 .. Len(argv) : argv[k] = n
      BY <1>5, <2>1, ListingOnce
    <3>2. Cardinality({q \in ArgumentsOf(line) : q < argv[k]}) = k - 1
      BY <1>5, ListingBefore
    <3>3. k - 1 = MAXARGS - 2
      BY <2>1, <3>1, <3>2
    <3>. QED BY <1>1, <1>2, <3>1, <3>3 DEF Full
  <2>. QED BY <2>1 DEF SeenTo
<1>7. n \in 1 .. n /\ line[n] \in Redirect
  BY <1>1, <1>3, <1>6
<1>8. Accepted(Seen) =>
        \A k \in 1 .. n : line[k] \in {"<", ">"} => k < n
  BY AcceptedSeen DEF Reached
<1>. QED BY <1>1, <1>7, <1>8 DEF Redirect

\* A line that is not accepted may be refused at any time.
LEMMA Refused ==
  ASSUME Reached, ~ Accepted(Seen), result' = "error", UNCHANGED <<line, argv>>
  PROVE  ParseInv'
<1>1. Seen' = Seen
  BY DEF Seen
<1>2. line' \in Seq(Lexeme) /\ Len(argv') < MAXARGS
  BY DEF Reached
<1>. QED BY <1>1, <1>2 DEF ParseInv, ParsedExactly

-----------------------------------------------------------------------------
(* The steps. *)

\* One place more of a set of places.
LEMMA OneMore ==
  ASSUME NEW S, NEW b \in Nat \ {0}
  PROVE  /\ b \in S => S \cap 1 .. b = (S \cap 1 .. b - 1) \cup {b}
         /\ b \notin S => S \cap 1 .. b = S \cap 1 .. b - 1
OBVIOUS

LEMMA ParseStart == ParseInit => ParseInv
<1>. SUFFICES ASSUME ParseInit PROVE Reached
  BY DEF ParseInit, ParseInv
<1>1. line \in Seq(Lexeme) /\ Len(line) \in Nat
  <2>1. PICK n \in 0 .. LEXEMES : line \in [1 .. n -> Lexeme]
    BY DEF ParseInit
  <2>2. n \in Nat
    BY <2>1, ParseConstantsOK
  <2>. QED BY <2>1, <2>2, SeqDef
<1>2. /\ buf = 1 /\ parsing_state = {} /\ argv = << >> /\ infile = 0 /\ outfile = 0
  BY DEF ParseInit
<1>3. 1 .. buf - 1 = {} /\ 1 .. buf - 2 = {}
  BY <1>2
<1>4. IsListing(argv, {})
  BY <1>2 DEF IsListing, ToSet
<1>5. ~ Full /\ Len(argv) < MAXARGS
  BY <1>2, ParseConstantsOK DEF Full
<1>6. parsing_state # Redirect
  BY <1>2 DEF Redirect
<1>7. buf \in 1 .. Len(line) + 1
  BY <1>1, <1>2
<1>. QED BY <1>1, <1>2, <1>3, <1>4, <1>5, <1>6, <1>7 DEF Reached

LEMMA RedirectionStep == Reached /\ Redirection => ParseInv'
<1>. SUFFICES ASSUME Reached, Redirection PROVE ParseInv'
  OBVIOUS
<1>. DEFINE f == line[buf]
<1>1. Reading /\ f \in Redirect
  BY DEF Redirection, Redirect
<1>2. CASE (f = "<" /\ infile # 0) \/ (f = ">" /\ outfile # 0)
  <2>1. PICK n : SeenTo(n)
    BY SeenExists DEF Reached
  <2>2. PICK e : e # 0 /\ FilesOf(line, f) \cap 1 .. buf - 1 = {e} \ {0}
    BY <1>2 DEF Reached
  <2>3. ~ Accepted(Seen)
    BY <1>1, <2>1, <2>2, SecondFile
  <2>4. Error
    BY <1>2 DEF Redirection
  <2>. QED BY <2>3, <2>4, Refused DEF Error
<1>3. CASE ~ ((f = "<" /\ infile # 0) \/ (f = ">" /\ outfile # 0))
  <2>1. /\ parsing_state' = parsing_state \cup {f} /\ buf' = buf + 1
        /\ UNCHANGED <<line, argv, infile, outfile, builtins, result>>
    BY <1>3 DEF Redirection
  <2>2. /\ line \in Seq(Lexeme) /\ buf \in 1 .. Len(line) /\ Len(line) \in Nat
        /\ buf \in Nat \ {0} /\ buf' - 1 = buf /\ buf' - 2 = buf - 1
    BY <1>1, <2>1 DEF Reached, Reading
  <2>3. buf \notin TokensOf(line)
    BY <1>1, TokensDiffer DEF TokensOf
  <2>4. buf \notin ArgumentsOf(line) /\ buf \notin FilesOf(line, "<") /\ buf \notin FilesOf(line, ">")
    BY <2>3 DEF ArgumentsOf, FilesOf
  <2>5. /\ ArgumentsOf(line) \cap 1 .. buf = ArgumentsOf(line) \cap 1 .. buf - 1
        /\ FilesOf(line, "<") \cap 1 .. buf = FilesOf(line, "<") \cap 1 .. buf - 1
        /\ FilesOf(line, ">") \cap 1 .. buf = FilesOf(line, ">") \cap 1 .. buf - 1
    BY <2>2, <2>4, OneMore
  <2>6. /\ line' \in Seq(Lexeme) /\ buf' \in 1 .. Len(line') + 1 /\ Len(argv') < MAXARGS
        /\ parsing_state' \in SUBSET Redirect
    BY <1>1, <2>1, <2>2 DEF Reached
  <2>7. /\ IsListing(argv', ArgumentsOf(line') \cap 1 .. buf' - 1)
        /\ FilesOf(line', "<") \cap 1 .. buf' - 1 = {infile'} \ {0}
        /\ FilesOf(line', ">") \cap 1 .. buf' - 1 = {outfile'} \ {0}
    BY <2>1, <2>2, <2>5 DEF Reached
  <2>8. /\ "<" \in parsing_state' => infile' = 0
        /\ ">" \in parsing_state' => outfile' = 0
        /\ parsing_state' # {} /\ buf' > 1 /\ line'[buf' - 1] \in parsing_state'
    BY <1>3, <2>1, <2>2 DEF Reached
  <2>9. ~ Full'
    BY <1>1, <2>1 DEF Reading, Full
  <2>10. \A k \in 1 .. buf' - 1 : line'[k] # "unclosed"
    <3>1. \A k \in 1 .. buf : k \in 1 .. buf - 1 \/ k = buf
      BY <2>2
    <3>. QED BY <1>1, <2>1, <2>2, <3>1 DEF Reached, Redirect
  <2>11. IF parsing_state' = Redirect
         THEN \E k \in 1 .. buf' - 2 :
                line'[k] \in Redirect /\ line'[k + 1] \in Redirect /\ line'[k] # line'[k + 1]
         ELSE \A k \in 1 .. buf' - 2 :
                line'[k] \in Redirect => line'[k + 1] \in Token \cup {line'[k]}
    <3>1. \A k \in 1 .. buf - 1 : k \in 1 .. buf - 2 \/ k = buf - 1
      BY <2>2
    <3>2. \A k \in 1 .. buf - 2 : k \in 1 .. buf - 1
      BY <2>2
    <3>3. CASE parsing_state = Redirect
      <4>1. PICK k \in 1 .. buf - 2 :
              line[k] \in Redirect /\ line[k + 1] \in Redirect /\ line[k] # line[k + 1]
        BY <3>3 DEF Reached
      <4>2. parsing_state' = Redirect
        BY <1>1, <2>1, <3>3
      <4>. QED BY <2>1, <2>2, <3>2, <4>1, <4>2
    <3>4. CASE parsing_state = {}
      <4>1. parsing_state' # Redirect
        BY <2>1, <3>4 DEF Redirect
      <4>2. buf > 1 => line[buf - 1] \in Token
        BY <3>4 DEF Reached
      <4>3. \A k \in 1 .. buf - 2 : line[k] \in Redirect => line[k + 1] \in Token \cup {line[k]}
        BY <3>4 DEF Reached, Redirect
      <4>4. buf - 1 \in 1 .. buf - 1 => line[buf - 1] \notin Redirect
        BY <2>2, <4>2, TokensDiffer
      <4>. QED BY <2>1, <2>2, <3>1, <4>1, <4>3, <4>4
    <3>5. CASE parsing_state # {} /\ parsing_state # Redirect
      <4>1. PICK g \in Redirect : parsing_state = {g}
        <5>1. PICK g \in Redirect : g \in parsing_state
          BY <3>5 DEF Reached
        <5>2. parsing_state = {g}
          <6>1. parsing_state \in SUBSET {"<", ">"} /\ g \in {"<", ">"}
            BY <5>1 DEF Reached, Redirect
          <6>2. \A x \in parsing_state : x = g
            BY <3>5, <5>1, <6>1 DEF Redirect
          <6>. QED BY <5>1, <6>2
        <5>. QED BY <5>2
      <4>2. buf > 1 /\ line[buf - 1] = g
        BY <4>1, <3>5 DEF Reached
      <4>3. \A k \in 1 .. buf - 2 : line[k] \in Redirect => line[k + 1] \in Token \cup {line[k]}
        BY <3>5 DEF Reached
      <4>4. buf - 1 \in 1 .. buf - 1 /\ (buf - 1) + 1 = buf
        BY <2>2, <4>2
      <4>5. CASE f = g
        <5>1. parsing_state' # Redirect
          BY <2>1, <4>1, <4>5 DEF Redirect
        <5>. QED BY <2>1, <2>2, <3>1, <4>2, <4>3, <4>4, <4>5, <5>1
      <4>6. CASE f # g
        <5>1. parsing_state' = Redirect
          BY <1>1, <2>1, <4>1, <4>6 DEF Redirect
        <5>. QED BY <1>1, <2>1, <2>2, <4>1, <4>2, <4>4, <4>6, <5>1
      <4>. QED BY <4>5, <4>6
    <3>. QED BY <3>3, <3>4, <3>5
  <2>12. Reached'
    BY <2>6, <2>7, <2>8, <2>9, <2>10, <2>11 DEF Reached
  <2>. QED BY <1>1, <2>1, <2>12 DEF ParseInv, Reading
<1>. QED BY <1>2, <1>3

LEMMA RecordStep == Reached /\ Record => ParseInv'
<1>. SUFFICES ASSUME Reached, Record PROVE ParseInv'
  OBVIOUS
<1>1. Reading /\ line[buf] \in Token
  BY DEF Record
<1>2. CASE parsing_state = Redirect
  <2>1. PICK n : SeenTo(n)
    BY SeenExists DEF Reached
  <2>2. ~ Accepted(Seen)
    BY <1>1, <1>2, <2>1, Mixed
  <2>3. Error
    BY <1>2 DEF Record, Redirect
  <2>. QED BY <2>2, <2>3, Refused DEF Error
<1>3. CASE parsing_state # Redirect
  <2>1. /\ argv' = IF parsing_state = {} THEN Append(argv, buf) ELSE argv
        /\ infile' = IF parsing_state = {"<"} THEN buf ELSE infile
        /\ outfile' = IF parsing_state = {">"} THEN buf ELSE outfile
        /\ parsing_state' = {} /\ buf' = buf + 1
        /\ UNCHANGED <<line, builtins, result>>
    BY <1>3 DEF Record, Redirect
  <2>2. /\ line \in Seq(Lexeme) /\ buf \in 1 .. Len(line) /\ Len(line) \in Nat
        /\ buf \in Nat \ {0} /\ buf' - 1 = buf /\ buf' - 2 = buf - 1 /\ MAXARGS \in Nat
    BY <1>1, <2>1, ParseConstantsOK DEF Reached, Reading
  <2>3. buf \in TokensOf(line)
    BY <1>1, <2>2 DEF TokensOf
  <2>4. \A f : buf \in FilesOf(line, f) <=> buf > 1 /\ line[buf - 1] = f
    BY <2>3 DEF FilesOf
  <2>5. /\ parsing_state = {} => buf = 1 \/ line[buf - 1] \notin Redirect
        /\ parsing_state # {} => buf > 1 /\ line[buf - 1] \in parsing_state
    BY TokensDiffer DEF Reached
  <2>6. \/ parsing_state = {} \/ parsing_state = {"<"} \/ parsing_state = {">"}
    <3>1. parsing_state \in SUBSET {"<", ">"}
      BY DEF Reached, Redirect
    <3>2. ~ ("<" \in parsing_state /\ ">" \in parsing_state)
      BY <1>3, <3>1 DEF Redirect
    <3>. QED BY <3>1, <3>2
  <2>7. /\ buf \in FilesOf(line, "<") <=> parsing_state = {"<"}
        /\ buf \in FilesOf(line, ">") <=> parsing_state = {">"}
        /\ buf \in ArgumentsOf(line) <=> parsing_state = {}
    <3>1. CASE parsing_state = {}
      <4>1. buf \notin FilesOf(line, "<") /\ buf \notin FilesOf(line, ">")
        BY <2>4, <2>5, <3>1 DEF Redirect
      <4>. QED BY <2>3, <3>1, <4>1 DEF ArgumentsOf
    <3>2. CASE parsing_state = {"<"}
      <4>1. buf \in FilesOf(line, "<") /\ buf \notin FilesOf(line, ">")
        BY <2>4, <2>5, <3>2
      <4>. QED BY <3>2, <4>1 DEF ArgumentsOf
    <3>3. CASE parsing_state = {">"}
      <4>1. buf \in FilesOf(line, ">") /\ buf \notin FilesOf(line, "<")
        BY <2>4, <2>5, <3>3
      <4>. QED BY <3>3, <4>1 DEF ArgumentsOf
    <3>. QED BY <2>6, <3>1, <3>2, <3>3
  <2>8. /\ argv \in Seq(Nat) /\ Len(argv) \in Nat /\ Len(argv) < MAXARGS - 1
    <3>1. argv \in Seq(Nat)
      BY DEF Reached, IsListing
    <3>2. Len(argv) \in Nat
      BY <3>1
    <3>. QED BY <1>1, <2>2, <3>1, <3>2 DEF Reading, Full
  <2>9. /\ line' \in Seq(Lexeme) /\ buf' \in 1 .. Len(line') + 1
        /\ parsing_state' = {} /\ parsing_state' # Redirect
    BY <2>1, <2>2 DEF Redirect
  <2>10. Len(argv') < MAXARGS
    <3>1. Len(Append(argv, buf)) = Len(argv) + 1
      BY <2>8
    <3>. QED BY <2>1, <2>2, <2>8, <3>1
  <2>11. IsListing(argv', ArgumentsOf(line') \cap 1 .. buf' - 1)
    <3>. DEFINE A == ArgumentsOf(line)
    <3>1. PICK earlier : earlier = A \cap 1 .. buf - 1
      OBVIOUS
    <3>2. IsListing(argv, earlier)
      BY <3>1 DEF Reached
    <3>3. CASE parsing_state = {}
      <4>1. \A a \in earlier : a < buf
        BY <2>2, <3>1
      <4>2. IsListing(Append(argv, buf), earlier \cup {buf})
        BY <2>2, <3>2, <4>1, ListingAppended
      <4>3. A \cap 1 .. buf = earlier \cup {buf}
        BY <2>2, <2>7, <3>1, <3>3, OneMore
      <4>4. argv' = Append(argv, buf)
        BY <2>1, <3>3
      <4>. QED BY <2>1, <2>2, <4>2, <4>3, <4>4
    <3>4. CASE parsing_state # {}
      <4>1. A \cap 1 .. buf = earlier
        BY <2>2, <2>7, <3>1, <3>4, OneMore
      <4>2. argv' = argv
        BY <2>1, <3>4
      <4>. QED BY <2>1, <2>2, <3>2, <4>1, <4>2
    <3>. QED BY <3>3, <3>4
  <2>12. /\ "<" \in parsing_state => infile = 0
         /\ ">" \in parsing_state => outfile = 0
         /\ FilesOf(line, "<") \cap 1 .. buf - 1 = {infile} \ {0}
         /\ FilesOf(line, ">") \cap 1 .. buf - 1 = {outfile} \ {0}
    BY DEF Reached
  <2>13. FilesOf(line', "<") \cap 1 .. buf' - 1 = {infile'} \ {0}
    <3>1. PICK F : F = FilesOf(line, "<")
      OBVIOUS
    <3>2. CASE parsing_state = {"<"}
      <4>1. F \cap 1 .. buf = (F \cap 1 .. buf - 1) \cup {buf}
        BY <2>2, <2>7, <3>1, <3>2, OneMore
      <4>2. F \cap 1 .. buf - 1 = {} /\ infile' = buf
        BY <2>1, <2>12, <3>1, <3>2
      <4>3. F \cap 1 .. buf = {buf} \ {0}
        BY <2>2, <4>1, <4>2
      <4>. QED BY <2>1, <2>2, <3>1, <4>2, <4>3
    <3>3. CASE parsing_state # {"<"}
      <4>1. F \cap 1 .. buf = F \cap 1 .. buf - 1
        BY <2>2, <2>7, <3>1, <3>3, OneMore
      <4>2. infile' = infile
        BY <2>1, <3>3
      <4>. QED BY <2>1, <2>2, <2>12, <3>1, <4>1, <4>2
    <3>. QED BY <3>2, <3>3
  <2>14. FilesOf(line', ">") \cap 1 .. buf' - 1 = {outfile'} \ {0}
    <3>1. PICK F : F = FilesOf(line, ">")
      OBVIOUS
    <3>2. CASE parsing_state = {">"}
      <4>1. F \cap 1 .. buf = (F \cap 1 .. buf - 1) \cup {buf}
        BY <2>2, <2>7, <3>1, <3>2, OneMore
      <4>2. F \cap 1 .. buf - 1 = {} /\ outfile' = buf
        BY <2>1, <2>12, <3>1, <3>2
      <4>3. F \cap 1 .. buf = {buf} \ {0}
        BY <2>2, <4>1, <4>2
      <4>. QED BY <2>1, <2>2, <3>1, <4>2, <4>3
    <3>3. CASE parsing_state # {">"}
      <4>1. F \cap 1 .. buf = F \cap 1 .. buf - 1
        BY <2>2, <2>7, <3>1, <3>3, OneMore
      <4>2. outfile' = outfile
        BY <2>1, <3>3
      <4>. QED BY <2>1, <2>2, <2>12, <3>1, <4>1, <4>2
    <3>. QED BY <3>2, <3>3
  <2>15. /\ "<" \in parsing_state' => infile' = 0
         /\ ">" \in parsing_state' => outfile' = 0
         /\ parsing_state' = {} => buf' = 1 \/ line'[buf' - 1] \in Token
         /\ parsing_state' # {} => buf' > 1 /\ line'[buf' - 1] \in parsing_state'
    BY <1>1, <2>1, <2>2
  <2>16. Full' => buf' - 1 \in ArgumentsOf(line')
    <3>1. CASE parsing_state = {}
      BY <2>1, <2>2, <2>7, <3>1
    <3>2. CASE parsing_state # {}
      <4>1. argv' = argv
        BY <2>1, <3>2
      <4>. QED BY <2>2, <2>8, <4>1 DEF Full
    <3>. QED BY <3>1, <3>2
  <2>17. \A k \in 1 .. buf' - 1 : line'[k] # "unclosed"
    <3>1. \A k \in 1 .. buf : k \in 1 .. buf - 1 \/ k = buf
      BY <2>2
    <3>2. line[buf] # "unclosed"
      BY <1>1, TokensDiffer
    <3>. QED BY <2>1, <2>2, <3>1, <3>2 DEF Reached
  <2>18. \A k \in 1 .. buf' - 2 :
           line'[k] \in Redirect => line'[k + 1] \in Token \cup {line'[k]}
    <3>1. \A k \in 1 .. buf - 1 : k \in 1 .. buf - 2 \/ k + 1 = buf
      BY <2>2
    <3>2. \A k \in 1 .. buf - 2 : line[k] \in Redirect => line[k + 1] \in Token \cup {line[k]}
      BY <1>3 DEF Reached
    <3>. QED BY <1>1, <2>1, <2>2, <3>1, <3>2
  <2>19. Reached'
    BY <2>9, <2>10, <2>11, <2>13, <2>14, <2>15, <2>16, <2>17, <2>18 DEF Reached
  <2>. QED BY <1>1, <2>1, <2>19 DEF ParseInv, Reading
<1>. QED BY <1>2, <1>3

LEMMA UnmatchedStep == Reached /\ Unmatched => ParseInv'
<1>. SUFFICES ASSUME Reached, Unmatched PROVE ParseInv'
  OBVIOUS
<1>1. PICK n : SeenTo(n)
  BY SeenExists DEF Reached
<1>2. Reading /\ line[buf] = "unclosed" /\ Error
  BY DEF Unmatched
<1>3. ~ Accepted(Seen)
  BY <1>1, <1>2, Unclosed
<1>. QED BY <1>2, <1>3, Refused DEF Error

\* What has been read when the loop ends well.
LEMMA ReadWhole ==
  ASSUME Reached, result = "parsing", ~ Reading, parsing_state = {}
  PROVE  /\ Accepted(Seen) /\ WordsOf(Seen) = argv
         /\ FilesOf(Seen, "<") = {infile} \ {0}
         /\ FilesOf(Seen, ">") = {outfile} \ {0}
<1>1. line \in Seq(Lexeme) /\ buf \in 1 .. Len(line) + 1 /\ Len(line) \in Nat
  BY DEF Reached
<1>2. PICK n : SeenTo(n)
  BY <1>1, SeenExists
<1>3. n = buf - 1
  BY <1>2, AllSeen
<1>4. n \in Nat /\ buf - 2 = n - 1
  BY <1>1, <1>3
<1>5. /\ FilesOf(line, "<") \cap 1 .. n = {infile} \ {0}
      /\ FilesOf(line, ">") \cap 1 .. n = {outfile} \ {0}
      /\ IsListing(argv, ArgumentsOf(line) \cap 1 .. n)
      /\ \A k \in 1 .. n : line[k] # "unclosed"
  BY <1>3 DEF Reached
<1>6. ASSUME NEW k \in 1 .. n, line[k] \in {"<", ">"}
      PROVE  k < n /\ line[k + 1] \in Token \cup {line[k]}
  <2>1. n = 0 \/ line[n] \in Token
    BY <1>1, <1>3 DEF Reached
  <2>2. k # n
    BY <1>4, <1>6, <2>1, TokensDiffer DEF Redirect
  <2>3. k \in 1 .. buf - 2 /\ k < n
    BY <1>4, <2>2
  <2>4. \A j \in 1 .. buf - 2 : line[j] \in Redirect => line[j + 1] \in Token \cup {line[j]}
    BY DEF Reached, Redirect
  <2>. QED BY <1>6, <2>3, <2>4 DEF Redirect
<1>7. \A f \in {"<", ">"} : Cardinality(FilesOf(line, f) \cap 1 .. n) <= 1
  <2>1. ASSUME NEW x PROVE Cardinality({x} \ {0}) <= 1
    <3>1. Cardinality({x}) = 1 /\ Cardinality({}) = 0
      BY FS_EmptySet, FS_Singleton
    <3>2. {x} \ {0} = {x} \/ {x} \ {0} = {}
      OBVIOUS
    <3>. QED BY <3>1, <3>2
  <2>2. Cardinality({infile} \ {0}) <= 1 /\ Cardinality({outfile} \ {0}) <= 1
    BY <2>1
  <2>. QED BY <1>5, <2>2
<1>8. Accepted(Seen)
  BY <1>1, <1>2, <1>5, <1>6, <1>7, AcceptedSeen
<1>9. /\ FilesOf(Seen, "<") = {infile} \ {0}
      /\ FilesOf(Seen, ">") = {outfile} \ {0}
      /\ ArgumentsOf(Seen) = ArgumentsOf(line) \cap 1 .. n
  BY <1>1, <1>2, <1>5, AcceptedSeen
<1>10. InOrder(ArgumentsOf(line) \cap 1 .. n) = argv
  BY <1>5, ListingIs
<1>. QED BY <1>8, <1>9, <1>10 DEF WordsOf

LEMMA FinishStep == Reached /\ Finish => ParseInv'
<1>. SUFFICES ASSUME Reached, Finish PROVE ParseInv'
  OBVIOUS
<1>1. result = "parsing" /\ ~ Reading /\ UNCHANGED <<line, buf, parsing_state, infile, outfile>>
  BY DEF Finish
<1>2. Seen' = Seen
  BY <1>1 DEF Seen
<1>3. CASE parsing_state # {}
  <2>1. PICK n : SeenTo(n)
    BY SeenExists DEF Reached
  <2>2. ~ Accepted(Seen)
    BY <1>1, <1>3, <2>1, NoFile
  <2>3. Error
    BY <1>3 DEF Finish
  <2>. QED BY <2>2, <2>3, Refused DEF Error
<1>4. CASE parsing_state = {}
  <2>1. /\ Accepted(Seen) /\ WordsOf(Seen) = argv
        /\ FilesOf(Seen, "<") = {infile} \ {0}
        /\ FilesOf(Seen, ">") = {outfile} \ {0}
    BY <1>1, <1>4, ReadWhole
  <2>2. argv \in Seq(Nat) /\ Len(argv) \in Nat /\ Len(argv) < MAXARGS /\ MAXARGS \in Nat
    BY ParseConstantsOK DEF Reached, IsListing
  <2>5. line' \in Seq(Lexeme)
    BY <1>1 DEF Reached
  <2>. DEFINE background == argv # << >> /\ line[argv[Len(argv)]] \in Operators
  <2>. DEFINE counted == IF background THEN SubSeq(argv, 1, Len(argv) - 1) ELSE argv
  <2>3. CASE argv = << >>
    <3>1. result' = "background" /\ argv' = argv /\ builtins' = builtins
      BY <1>4, <2>3 DEF Finish
    <3>2. Evaluated' = "nothing"
      BY <2>3, <3>1 DEF Evaluated
    <3>. QED BY <1>1, <1>2, <2>1, <2>2, <2>3, <2>5, <3>1, <3>2 DEF ParseInv, ParsedExactly
  <2>4. CASE argv # << >>
    <3>1. /\ builtins' = IF line[argv[1]] \in Builtin THEN line[argv[1]] ELSE "none"
          /\ argv' = counted
          /\ result' = IF background THEN "background" ELSE "foreground"
      BY <1>4, <2>4 DEF Finish
    <3>2. Len(argv') < MAXARGS /\ (argv' # << >> => argv'[1] = argv[1])
      <4>1. CASE background
        <5>1. /\ Len(SubSeq(argv, 1, Len(argv) - 1)) = Len(argv) - 1
              /\ SubSeq(argv, 1, Len(argv) - 1) \in Seq(Nat)
              /\ \A k \in 1 .. Len(argv) - 1 : SubSeq(argv, 1, Len(argv) - 1)[k] = argv[k]
          <6>. DEFINE m == Len(argv) - 1
          <6>. DEFINE w == SubSeq(argv, 1, m)
          <6>1. m \in Nat /\ m <= Len(argv) /\ \A k \in 1 .. m : argv[k] \in Nat
            BY <2>2, <2>4
          <6>2. /\ w \in Seq(Nat) /\ Len(w) = IF 1 <= m THEN m - 1 + 1 ELSE 0
                /\ \A k \in 1 .. m - 1 + 1 : w[k] = argv[1 + k - 1]
            <7>. HIDE DEF m
            <7>. QED BY <2>2, <6>1, SubSeqProperties
          <6>. HIDE DEF w, m
          <6>3. Len(w) = m /\ \A k \in 1 .. m : w[k] = argv[k]
            <7>1. m - 1 + 1 = m /\ \A k \in 1 .. m : 1 + k - 1 = k
              BY <6>1
            <7>. QED BY <6>1, <6>2, <7>1
          <6>. QED BY <6>2, <6>3 DEF w, m
        <5>2. argv' = SubSeq(argv, 1, Len(argv) - 1)
          BY <3>1, <4>1
        <5>3. argv' # << >> => 1 \in 1 .. Len(argv) - 1
          BY <2>2, <5>1, <5>2
        <5>. QED BY <2>2, <5>1, <5>2, <5>3
      <4>2. CASE ~ background
        BY <2>2, <3>1, <4>2
      <4>. QED BY <4>1, <4>2
    <3>3. "none" \notin Builtin
      BY DEF Builtin
    <3>4. result' # "error" /\ result' # "parsing" /\ (result' = "background" <=> background)
      BY <3>1
    <3>5. Evaluated' = IF counted = << >> THEN "nothing"
                       ELSE IF line[counted[1]] \in Builtin THEN line[counted[1]]
                       ELSE "fork"
      <4>. HIDE DEF counted
      <4>. QED BY <3>1, <3>2, <3>3, <3>4 DEF Evaluated
    <3>. HIDE DEF counted, background
    <3>6. ParsedExactly'
      <4>. USE DEF background, counted
      <4>. QED BY <1>1, <1>2, <2>1, <2>4, <2>5, <3>1, <3>2, <3>4, <3>5 DEF ParsedExactly
    <3>. QED BY <3>4, <3>6 DEF ParseInv
  <2>. QED BY <2>3, <2>4
<1>. QED BY <1>3, <1>4

LEMMA ParseInductive == ParseInv /\ [ParseNext]_parseVars => ParseInv'
<1>1. ASSUME ParseInv, UNCHANGED parseVars PROVE ParseInv'
  BY <1>1 DEF parseVars, ParseInv, Reached, ParsedExactly, Evaluated, Seen, Full, Redirect
<1>2. ASSUME ParseInv, ParseNext PROVE ParseInv'
  <2>1. Reached
    BY <1>2 DEF ParseInv, ParseNext, Redirection, Record, Unmatched, Finish, Reading
  <2>. QED BY <1>2, <2>1, RedirectionStep, RecordStep, UnmatchedStep, FinishStep DEF ParseNext
<1>. QED BY <1>1, <1>2

\* A plain line that is accepted is well-formed, and its last word is the operator
\* only if it is meant to be.
LEMMA PlainParsed ==
  ASSUME ParsedExactly, line \in Seq(Lexeme), Plain(Seen), result # "parsing"
  PROVE  AsDocumented
<1>. DEFINE words == WordsOf(Seen)
<1>. DEFINE last == words[Len(words)]
<1>1. PICK n : SeenTo(n)
  BY SeenExists
<1>2. Len(Seen) = n /\ n \in Nat /\ \A k \in 1 .. n : Seen[k] = line[k]
  BY <1>1 DEF SeenTo
<1>3. Accepted(Seen) <=> WellFormed(Seen)
  <2>1. ASSUME Accepted(Seen), NEW k \in 1 .. n, Seen[k] \in {"<", ">"}
        PROVE  k < n /\ Seen[k + 1] \in Token
    <3>1. k < n /\ Seen[k + 1] \in Token \cup {Seen[k]}
      BY <1>2, <2>1 DEF Accepted
    <3>2. Seen[k + 1] # Seen[k]
      <4>1. k \in 1 .. n - 1
        BY <1>2, <3>1
      <4>. QED BY <1>2, <2>1, <4>1 DEF Plain
    <3>. QED BY <3>1, <3>2
  <2>2. Accepted(Seen) => WellFormed(Seen)
    BY <1>2, <2>1 DEF Accepted, WellFormed
  <2>3. WellFormed(Seen) => Accepted(Seen)
    BY DEF Accepted, WellFormed
  <2>. QED BY <2>2, <2>3
<1>4. words # << >> => (line[last] \in Operators <=> line[last] = "&")
  <2>1. ASSUME words # << >>, line[last] = "'&'" PROVE FALSE
    <3>1. Seen[last] # "'&'"
      BY <2>1 DEF Plain
    <3>2. PICK w : IsListing(w, ArgumentsOf(Seen))
      <4>1. ArgumentsOf(Seen) \in SUBSET (1 .. n)
        BY <1>1, <1>2, ArgumentsFinite DEF SeenTo
      <4>. QED BY <1>2, <4>1, ListingExists
    <3>3. words = w
      BY <3>2, ListingIs DEF WordsOf
    <3>4. last \in ArgumentsOf(Seen)
      <4>1. w \in Seq(Nat) /\ w # << >>
        BY <2>1, <3>2, <3>3 DEF IsListing
      <4>2. Len(w) \in 1 .. Len(w)
        BY <4>1
      <4>. QED BY <3>2, <3>3, <4>2, ListingOnce
    <3>5. last \in 1 .. n
      BY <1>1, <1>2, <3>4, ArgumentsFinite DEF SeenTo
    <3>. QED BY <1>2, <2>1, <3>1, <3>5
  <2>. QED BY <2>1 DEF Operators
<1>5. (words # << >> /\ line[last] \in Operators) <=> (words # << >> /\ line[last] = "&")
  BY <1>4
<1>6. PICK background : background = (words # << >> /\ line[last] = "&")
  OBVIOUS
<1>7. PICK given : given = IF background THEN SubSeq(words, 1, Len(words) - 1) ELSE words
  OBVIOUS
<1>. HIDE DEF words, last
<1>8. /\ result = "error" <=> ~ Accepted(Seen)
      /\ result # "error" =>
           /\ argv = given
           /\ FilesOf(Seen, "<") = {infile} \ {0}
           /\ FilesOf(Seen, ">") = {outfile} \ {0}
           /\ words # << >> => (result = "background" <=> background)
           /\ Evaluated = IF given = << >> THEN "nothing"
                          ELSE IF line[given[1]] \in Builtin THEN line[given[1]]
                          ELSE "fork"
  BY <1>5, <1>6, <1>7, Zenon DEF ParsedExactly, words, last
<1>. QED BY <1>3, <1>6, <1>7, <1>8, Zenon DEF AsDocumented, words, last

\* Any line, of whatever length, and any size of argv: parseline takes a line
\* of the form "command [arguments...] [< infile] [> oufile] [&]" apart as it
\* is written, up to what fits in argv, refuses any other, and leaves room for
\* the final NULL of argv; eval runs the first word.  Not so lines that are not
\* Plain: those that repeat a < or >, or end in a quoted & or the like.
THEOREM LinesParsed == ParseSpec => []ParsedAsWritten
<1>1. ASSUME ParseInv PROVE ParsedAsWritten
  <2>1. ParsedExactly
    BY <1>1 DEF ParseInv, Reached, ParsedExactly
  <2>2. result = "parsing" => AsDocumented
    BY DEF AsDocumented
  <2>. QED BY <2>1, <2>2, PlainParsed DEF ParsedAsWritten, ParsedExactly
<1>. QED BY <1>1, ParseStart, ParseInductive, PTL DEF ParseSpec

-----------------------------------------------------------------------------
(* The transposes. *)

\* The place in B of row col, column row, and what belongs there.
LEMMA PlaceIs ==
  ASSUME NEW width \in Nat \ {0}, NEW row \in 0 .. width - 1, NEW col \in Nat
  PROVE  /\ Place(col, row, width) % width = row
         /\ Place(col, row, width) \div width = col
BY DEF Place

LEMMA PlaceOf ==
  ASSUME NEW width \in Nat \ {0}, NEW height \in Nat \ {0}, NEW p \in 0 .. height * width - 1
  PROVE  /\ p % width \in 0 .. width - 1 /\ p \div width \in 0 .. height - 1
         /\ p = Place(p \div width, p % width, width)
BY DEF Place

LEMMA PlaceIsNat ==
  ASSUME NEW width \in Nat, NEW row \in Nat, NEW col \in Nat
  PROVE  Place(row, col, width) \in Nat
BY DEF Place

Sized == M \in Nat \ {0} /\ N \in Nat \ {0} /\ (N = 64 => M = 64)

\* Where the loops can be.
InRange ==
  /\ fn \in {"transpose_submit", "trans", "none"}
  /\ fn = "trans" => r \in 0 .. N
  /\ fn = "transpose_submit" /\ M = 32 =>
       r \in Nat /\ r % 8 = 0 /\ c \in {0, 8, 16, 24} /\ i \in 0 .. 7
  /\ fn = "transpose_submit" /\ N = 64 =>
       r \in 0 .. 64 /\ r % 8 = 0 /\ c \in 0 .. 56 /\ c % 8 = 0 /\ i \in 0 .. 15
  /\ fn = "transpose_submit" /\ M = 61 =>
       /\ r \in Nat /\ c \in {0, 18, 36, 54} /\ i \in 0 .. 17
       /\ r < N => i < N - r

\* The elements of A that were copied when the loops got there: in blocks of
\* height n, row by row;
RowsAbove(n, row, col) ==
  row < r \/ (row < r + n /\ (col < c \/ (col < c + n /\ row < r + i)))

\* in the blocks of N = 64 down the left half and up the right half;
Beside(row, col) ==
  \/ col < r
  \/ /\ col < r + 8
     /\ \/ row < c
        \/ row < c + 8 /\ IF col < r + 4 THEN row < c + i ELSE row + i >= c + 16

Stored(row, col) ==
  \/ fn = "trans" /\ row < r
  \/ fn = "transpose_submit" /\ M = 32 /\ RowsAbove(8, row, col)
  \/ fn = "transpose_submit" /\ M = 61 /\ RowsAbove(18, row, col)
  \/ fn = "transpose_submit" /\ N = 64 /\ Beside(row, col)

\* and what waits in v4 to v7 is the right half of the block's first row.
Waiting ==
  fn = "transpose_submit" /\ N = 64 /\ i > 0 => v = [k \in 1 .. 4 |-> Place(c, r, M) + 3 + k]

RightSoFar ==
  /\ DOMAIN B = 0 .. M * N - 1
  /\ \A p \in 0 .. M * N - 1 :
       /\ B[p] \in {UNSET, Place(p % N, p \div N, M)}
       /\ Stored(p % N, p \div N) => B[p] # UNSET

TransposeInv == Sized /\ InRange /\ Waiting /\ RightSoFar

\* A turn that stores what belongs there, and all that is new, keeps B right.
LEMMA TurnKeeps ==
  ASSUME Sized, RightSoFar, NEW stores, NEW trace, Turn(stores, trace),
         M' = M, N' = N,
         \A col \in 0 .. M - 1, row \in 0 .. N - 1 :
           /\ Place(col, row, N) \in DOMAIN stores =>
                stores[Place(col, row, N)] = Place(row, col, M)
           /\ Stored(row, col)' => Stored(row, col) \/ Place(col, row, N) \in DOMAIN stores
  PROVE  RightSoFar'
<1>1. N \in Nat \ {0} /\ M \in Nat \ {0}
  BY DEF Sized
<1>2. DOMAIN B' = 0 .. M * N - 1
  BY DEF Turn, RightSoFar
<1>3. ASSUME NEW p \in 0 .. M * N - 1
      PROVE  /\ B'[p] \in {UNSET, Place(p % N, p \div N, M)}
             /\ Stored(p % N, p \div N)' => B'[p] # UNSET
  <2>1. PICK row \in 0 .. N - 1, col \in 0 .. M - 1 :
          row = p % N /\ col = p \div N /\ p = Place(col, row, N)
    <3>1. p % N \in 0 .. N - 1 /\ p \div N \in 0 .. M - 1 /\ p = Place(p \div N, p % N, N)
      BY <1>1, PlaceOf
    <3>. QED BY <3>1
  <2>2. B'[p] = IF p \in DOMAIN stores THEN stores[p] ELSE B[p]
    BY DEF Turn, RightSoFar
  <2>3. /\ B[p] \in {UNSET, Place(row, col, M)}
        /\ Stored(row, col) => B[p] # UNSET
    BY <2>1 DEF RightSoFar
  <2>4. Place(row, col, M) # UNSET
    <3>1. row \in Nat /\ col \in Nat
      BY <1>1, <2>1
    <3>. QED BY <1>1, <3>1, PlaceIsNat DEF UNSET
  <2>5. /\ p \in DOMAIN stores => stores[p] = Place(row, col, M)
        /\ Stored(row, col)' => Stored(row, col) \/ p \in DOMAIN stores
    BY <2>1
  <2>6. B'[p] \in {UNSET, Place(row, col, M)} /\ (Stored(row, col)' => B'[p] # UNSET)
    BY <2>2, <2>3, <2>4, <2>5
  <2>. QED BY <2>1, <2>6
<1>. QED BY <1>2, <1>3 DEF RightSoFar

LEMMA Rows32Step == ASSUME TransposeInv, Rows32 PROVE TransposeInv'
<1>1. M = 32 /\ N \in Nat \ {0} /\ N # 64 /\ fn = "transpose_submit" /\ r + 8 <= N
  BY DEF Rows32, TransposeInv, Sized
<1>2. M' = M /\ N' = N /\ fn' = fn
  BY DEF Rows32, size
<1>3. r \in Nat /\ r % 8 = 0 /\ c \in {0, 8, 16, 24} /\ i \in 0 .. 7
  BY <1>1 DEF TransposeInv, InRange
<1>4. PICK stores, trace :
        /\ Turn(stores, trace)
        /\ stores = [p \in {Place(c + j, r + i, N) : j \in 0 .. 7} |->
                       Place(r + i, c + (CHOOSE j \in 0 .. 7 : Place(c + j, r + i, N) = p), 32)]
  <2>1. \E trace :
          Turn([p \in {Place(c + j, r + i, N) : j \in 0 .. 7} |->
                  Place(r + i, c + (CHOOSE j \in 0 .. 7 : Place(c + j, r + i, N) = p), M)], trace)
    BY Zenon DEF Rows32
  <2>. QED BY <1>1, <2>1
<1>5. ASSUME NEW col \in 0 .. 31, NEW row \in 0 .. N - 1
      PROVE  /\ Place(col, row, N) \in DOMAIN stores => stores[Place(col, row, N)] = Place(row, col, 32)
             /\ row = r + i /\ col >= c /\ col < c + 8 => Place(col, row, N) \in DOMAIN stores
  <2>1. PICK p : p = Place(col, row, N)
    OBVIOUS
  <2>2. p \in DOMAIN stores <=> \E j \in 0 .. 7 : Place(c + j, r + i, N) = p
    BY <1>4
  <2>3. ASSUME NEW j \in 0 .. 7, Place(c + j, r + i, N) = p PROVE col = c + j /\ row = r + i
    <3>1. c + j \in Nat /\ r + i \in 0 .. N - 1 /\ col \in Nat
      BY <1>1, <1>3
    <3>2. p % N = row /\ p \div N = col
      BY <1>1, <2>1, <3>1, PlaceIs
    <3>3. p % N = r + i /\ p \div N = c + j
      BY <1>1, <2>3, <3>1, PlaceIs
    <3>. QED BY <3>2, <3>3
  <2>4. ASSUME p \in DOMAIN stores PROVE stores[p] = Place(row, col, 32)
    <3>1. PICK j : j = CHOOSE k \in 0 .. 7 : Place(c + k, r + i, N) = p
      OBVIOUS
    <3>2. j \in 0 .. 7 /\ Place(c + j, r + i, N) = p
      BY <2>2, <2>4, <3>1
    <3>3. stores[p] = Place(r + i, c + j, 32)
      BY <1>4, <2>4, <3>1
    <3>. QED BY <2>3, <3>2, <3>3
  <2>5. ASSUME row = r + i, col >= c, col < c + 8 PROVE p \in DOMAIN stores
    <3>1. col - c \in 0 .. 7 /\ c + (col - c) = col
      BY <1>3, <2>5
    <3>. QED BY <2>1, <2>2, <2>5, <3>1
  <2>. QED BY <2>1, <2>4, <2>5
<1>6. Advance(8, 8)
  BY DEF Rows32
<1>7. InRange'
  BY <1>1, <1>2, <1>3, <1>6 DEF InRange, Advance
<1>8. ASSUME NEW col \in 0 .. 31, NEW row \in 0 .. N - 1, RowsAbove(8, row, col)'
      PROVE  RowsAbove(8, row, col) \/ (row = r + i /\ col >= c /\ col < c + 8)
  BY <1>1, <1>2, <1>3, <1>6, <1>8 DEF RowsAbove, Advance
<1>9. RightSoFar'
  <2>1. ASSUME NEW col \in 0 .. M - 1, NEW row \in 0 .. N - 1
        PROVE  /\ Place(col, row, N) \in DOMAIN stores =>
                    stores[Place(col, row, N)] = Place(row, col, M)
               /\ Stored(row, col)' => Stored(row, col) \/ Place(col, row, N) \in DOMAIN stores
    <3>1. col \in 0 .. 31
      BY <1>1
    <3>2. /\ Place(col, row, N) \in DOMAIN stores => stores[Place(col, row, N)] = Place(row, col, M)
          /\ row = r + i /\ col >= c /\ col < c + 8 => Place(col, row, N) \in DOMAIN stores
      BY <1>1, <1>5, <3>1
    <3>3. Stored(row, col)' => RowsAbove(8, row, col)'
      BY <1>1, <1>2 DEF Stored
    <3>4. RowsAbove(8, row, col) => Stored(row, col)
      BY <1>1 DEF Stored
    <3>. QED BY <1>8, <3>1, <3>2, <3>3, <3>4
  <2>. QED BY <1>2, <1>4, <2>1, TurnKeeps DEF TransposeInv
<1>. QED BY <1>1, <1>2, <1>7, <1>9 DEF TransposeInv, Sized, Waiting

\* Four elements of row line of A, from column top on, are where they belong.
RowStored(stores, thisRow, top) ==
  \A col \in 0 .. 63, row \in 0 .. 63 :
    /\ Place(col, row, 64) \in DOMAIN stores <=> (row = thisRow /\ col \in top .. top + 3)
    /\ Place(col, row, 64) \in DOMAIN stores => stores[Place(col, row, 64)] = Place(row, col, 64)

Fills(thisRow, top) == \E stores, trace : Turn(stores, trace) /\ RowStored(stores, thisRow, top)

LEMMA ColumnOf ==
  ASSUME NEW top \in 0 .. 60, NEW thisRow \in 0 .. 63,
         NEW t, t = Place(thisRow, top, 64), NEW u, u = Place(top, thisRow, 64), NEW stores,
         DOMAIN stores = {u + 64 * k : k \in 0 .. 3},
         \A k \in 0 .. 3 : stores[u + 64 * k] = t + k
  PROVE  RowStored(stores, thisRow, top)
<1>1. SUFFICES ASSUME NEW col \in 0 .. 63, NEW row \in 0 .. 63
      PROVE  /\ Place(col, row, 64) \in DOMAIN stores <=> (row = thisRow /\ col \in top .. top + 3)
             /\ Place(col, row, 64) \in DOMAIN stores => stores[Place(col, row, 64)] = Place(row, col, 64)
  BY DEF RowStored
<1>2. PICK p \in Nat : p = Place(col, row, 64)
  BY DEF Place
<1>3. u = top * 64 + thisRow /\ p = col * 64 + row /\ u \in Nat /\ t = thisRow * 64 + top
  BY <1>2 DEF Place
<1>4. p \in DOMAIN stores <=> \E k \in 0 .. 3 : p = u + 64 * k
  OBVIOUS
<1>5. \A k \in 0 .. 3 : p = u + 64 * k <=> (row = thisRow /\ col = top + k)
  <2>1. ASSUME NEW k \in 0 .. 3, p = u + 64 * k PROVE row = thisRow /\ col = top + k
    <3>1. PICK j \in Nat : j = top + k
      OBVIOUS
    <3>2. p = Place(j, thisRow, 64)
      BY <1>3, <2>1, <3>1 DEF Place
    <3>3. p % 64 = row /\ p \div 64 = col
      BY <1>2, PlaceIs
    <3>4. p % 64 = thisRow /\ p \div 64 = j
      BY <3>2, PlaceIs
    <3>. QED BY <3>1, <3>3, <3>4
  <2>2. ASSUME NEW k \in 0 .. 3, row = thisRow, col = top + k PROVE p = u + 64 * k
    BY <1>3, <2>2
  <2>. QED BY <2>1, <2>2
<1>6. p \in DOMAIN stores <=> (row = thisRow /\ col \in top .. top + 3)
  <2>1. ASSUME row = thisRow, col \in top .. top + 3 PROVE \E k \in 0 .. 3 : p = u + 64 * k
    <3>1. col - top \in 0 .. 3 /\ col = top + (col - top)
      BY <2>1
    <3>. QED BY <1>5, <2>1, <3>1
  <2>2. ASSUME NEW k \in 0 .. 3, p = u + 64 * k PROVE row = thisRow /\ col \in top .. top + 3
    BY <1>5, <2>2
  <2>. QED BY <1>4, <2>1, <2>2
<1>7. ASSUME p \in DOMAIN stores PROVE stores[p] = Place(row, col, 64)
  <2>1. PICK k \in 0 .. 3 : p = u + 64 * k
    BY <1>4, <1>7
  <2>2. stores[p] = t + k /\ row = thisRow /\ col = top + k
    BY <1>5, <2>1
  <2>. QED BY <1>3, <2>2 DEF Place
<1>. QED BY <1>2, <1>6, <1>7

LEMMA FourFills ==
  ASSUME NEW top \in 0 .. 60, NEW thisRow \in 0 .. 63,
         NEW t, t = Place(thisRow, top, 64), NEW u, u = Place(top, thisRow, 64), NEW more,
         Four(t, u, more)
  PROVE  Fills(thisRow, top)
<1>. DEFINE stores == [p \in {u + 64 * k : k \in 0 .. 3} |-> t + (p - u) \div 64]
<1>1. PICK trace : Turn(stores, trace)
  BY Zenon DEF Four
<1>2. t \in Nat /\ u \in Nat
  BY DEF Place
<1>3. ASSUME NEW k \in 0 .. 3 PROVE stores[u + 64 * k] = t + k
  <2>1. stores[u + 64 * k] = t + ((u + 64 * k) - u) \div 64
    OBVIOUS
  <2>2. ((u + 64 * k) - u) \div 64 = k
    BY <1>2
  <2>. QED BY <2>1, <2>2
<1>4. DOMAIN stores = {u + 64 * k : k \in 0 .. 3}
  OBVIOUS
<1>. HIDE DEF stores
<1>5. RowStored(stores, thisRow, top)
  BY ZenonT(60), <1>3, <1>4, ColumnOf
<1>. QED BY <1>1, <1>5 DEF Fills

\* The last four of the first row were read with the first four.
LEMMA CornerFills ==
  ASSUME NEW u, u = Place(r, c, 64), N = 64, r \in 0 .. 56, c \in 0 .. 63,
         v = [k \in 1 .. 4 |-> Place(c, r, 64) + 3 + k],
         Corner64(u)
  PROVE  Fills(c, r + 4)
<1>. DEFINE stores == [p \in {u + 4 * N + 64 * k : k \in 0 .. 3} |-> v[1 + (p - u - 4 * N) \div 64]]
<1>1. PICK trace : Turn(stores, trace)
  BY Zenon DEF Corner64
<1>2. PICK w \in Nat : w = Place(r + 4, c, 64)
  BY DEF Place
<1>3. u + 4 * N = w /\ u \in Nat
  BY <1>2 DEF Place
<1>4. {u + 4 * N + 64 * k : k \in 0 .. 3} = {w + 64 * k : k \in 0 .. 3}
  BY <1>3
<1>5. PICK t \in Nat : t = Place(c, r + 4, 64)
  BY DEF Place
<1>6. ASSUME NEW k \in 0 .. 3 PROVE stores[w + 64 * k] = t + k
  <2>1. PICK p : p = w + 64 * k
    OBVIOUS
  <2>2. stores[p] = v[1 + (p - u - 4 * N) \div 64]
    BY <1>4, <2>1
  <2>3. (p - u - 4 * N) \div 64 = k
    BY <1>2, <1>3, <2>1
  <2>4. v[1 + k] = Place(c, r, 64) + 3 + (1 + k)
    OBVIOUS
  <2>5. Place(c, r, 64) + 3 + (1 + k) = t + k
    BY <1>5 DEF Place
  <2>. QED BY <2>1, <2>2, <2>3, <2>4, <2>5
<1>7. DOMAIN stores = {w + 64 * k : k \in 0 .. 3}
  BY <1>4
<1>. HIDE DEF stores
<1>8. PICK top \in 0 .. 60, thisRow \in 0 .. 63 : top = r + 4 /\ thisRow = c
  OBVIOUS
<1>9. t = Place(thisRow, top, 64) /\ w = Place(top, thisRow, 64)
  BY <1>2, <1>5, <1>8
<1>10. RowStored(stores, thisRow, top)
  BY ZenonT(60), <1>6, <1>7, <1>9, ColumnOf
<1>. QED BY <1>1, <1>8, <1>10 DEF Fills

LEMMA Blocks64Step == ASSUME TransposeInv, Blocks64 PROVE TransposeInv'
<1>1. M = 64 /\ N = 64 /\ fn = "transpose_submit" /\ r < 64
  BY DEF Blocks64, TransposeInv, Sized
<1>2. M' = M /\ N' = N /\ fn' = fn
  BY DEF Blocks64, size
<1>3. r \in 0 .. 56 /\ r % 8 = 0 /\ c \in 0 .. 56 /\ c % 8 = 0 /\ i \in 0 .. 15
  BY <1>1 DEF TransposeInv, InRange
<1>4. PICK row \in 0 .. 7 : row = IF i < 8 THEN i ELSE 15 - i
  BY <1>3
<1>5. PICK t \in Nat : t = Place(c + row, r, 64)
  BY <1>3 DEF Place
<1>6. PICK u \in Nat : u = Place(r, c + row, 64)
  BY <1>3 DEF Place
<1>7. /\ Down64(t, u) \/ (Up64(t, u) /\ v' = v) \/ (Corner64(u) /\ v' = v)
      /\ Advance(8, 16)
  BY <1>1, <1>4, <1>5, <1>6, Zenon DEF Blocks64
<1>8. InRange'
  BY <1>1, <1>2, <1>3, <1>7 DEF InRange, Advance
<1>9. PICK top \in 0 .. 60 : top = IF i < 8 THEN r ELSE r + 4
  BY <1>3
<1>10. i' > 0 => i' = i + 1 /\ c' = c /\ r' = r
  BY <1>3, <1>7 DEF Advance
<1>11. i > 0 => v = [k \in 1 .. 4 |-> Place(c, r, 64) + 3 + k]
  BY <1>1 DEF TransposeInv, Waiting
<1>12. c + row \in 0 .. 63
  BY <1>3
\* The half row that a turn copies.
<1>13. Waiting' /\ Fills(c + row, top)
  <2>1. CASE Down64(t, u)
    <3>1. i \in 0 .. 7 /\ row = i /\ top = r
      BY <1>4, <1>9, <2>1 DEF Down64
    <3>2. v' = IF i = 0 THEN [k \in 1 .. 4 |-> t + 3 + k] ELSE v
      BY <2>1 DEF Down64
    <3>3. v' = [k \in 1 .. 4 |-> Place(c, r, 64) + 3 + k]
      <4>1. CASE i = 0
        <5>1. t = Place(c, r, 64)
          BY <1>3, <1>5, <3>1, <4>1
        <5>. QED BY <3>2, <4>1, <5>1
      <4>2. CASE i # 0
        BY <1>3, <1>11, <3>2, <4>2
      <4>. QED BY <4>1, <4>2
    <3>4. Waiting'
      BY <1>1, <1>2, <1>10, <3>3 DEF Waiting
    <3>5. \E more : Four(t, u, more)
      BY <2>1 DEF Down64
    <3>6. t = Place(c + row, top, 64) /\ u = Place(top, c + row, 64)
      BY <1>5, <1>6, <3>1
    <3>. QED BY <1>12, <3>4, <3>5, <3>6, FourFills
  <2>2. CASE Up64(t, u) /\ v' = v
    <3>1. i \in 8 .. 14 /\ top = r + 4 /\ Four(t + 4, u + 4 * N, << >>)
      BY <1>9, <2>2 DEF Up64
    <3>2. Waiting'
      BY <1>1, <1>2, <1>10, <1>11, <2>2, <3>1 DEF Waiting
    <3>3. t + 4 = Place(c + row, top, 64) /\ u + 4 * N = Place(top, c + row, 64)
      BY <1>1, <1>3, <1>5, <1>6, <3>1 DEF Place
    <3>. QED BY <1>12, <3>1, <3>2, <3>3, FourFills
  <2>3. CASE Corner64(u) /\ v' = v
    <3>1. i = 15 /\ top = r + 4 /\ c + row = c
      BY <1>3, <1>4, <1>9, <2>3 DEF Corner64
    <3>2. Waiting'
      BY <1>1, <1>2, <1>10, <1>11, <2>3, <3>1 DEF Waiting
    <3>3. u = Place(r, c, 64)
      BY <1>6, <3>1
    <3>4. Fills(c, r + 4)
      BY <1>1, <1>3, <1>11, <2>3, <3>1, <3>3, CornerFills
    <3>. QED BY <3>1, <3>2, <3>4
  <2>. QED BY <1>7, <2>1, <2>2, <2>3
<1>14. PICK stores, trace : Turn(stores, trace) /\ RowStored(stores, c + row, top)
  BY <1>13 DEF Fills
<1>15. \A col \in 0 .. 63, thisRow \in 0 .. 63 :
         /\ Place(col, thisRow, 64) \in DOMAIN stores <=> (thisRow = c + row /\ col \in top .. top + 3)
         /\ Place(col, thisRow, 64) \in DOMAIN stores => stores[Place(col, thisRow, 64)] = Place(thisRow, col, 64)
  BY <1>14, Zenon DEF RowStored
<1>16. ASSUME NEW col \in 0 .. 63, NEW thisRow \in 0 .. 63, Beside(thisRow, col)'
       PROVE  Beside(thisRow, col) \/ (thisRow = c + row /\ col \in top .. top + 3)
  BY <1>1, <1>2, <1>3, <1>4, <1>7, <1>9, <1>16 DEF Beside, Advance
<1>17. RightSoFar'
  <2>1. ASSUME NEW col \in 0 .. 63, NEW thisRow \in 0 .. 63, Stored(thisRow, col)'
        PROVE  Stored(thisRow, col) \/ Place(col, thisRow, 64) \in DOMAIN stores
    <3>1. Beside(thisRow, col)'
      BY <1>1, <1>2, <2>1 DEF Stored
    <3>2. CASE Beside(thisRow, col)
      BY <1>1, <3>2 DEF Stored
    <3>3. CASE thisRow = c + row /\ col \in top .. top + 3
      BY <1>15, <3>3
    <3>. QED BY <1>16, <3>1, <3>2, <3>3
  <2>2. \A col \in 0 .. M - 1, thisRow \in 0 .. N - 1 :
          /\ Place(col, thisRow, N) \in DOMAIN stores =>
               stores[Place(col, thisRow, N)] = Place(thisRow, col, M)
          /\ Stored(thisRow, col)' => Stored(thisRow, col) \/ Place(col, thisRow, N) \in DOMAIN stores
    <3>1. 0 .. M - 1 = 0 .. 63 /\ 0 .. N - 1 = 0 .. 63
      BY <1>1
    <3>2. \A col \in 0 .. 63, thisRow \in 0 .. 63 :
            Place(col, thisRow, 64) \in DOMAIN stores => stores[Place(col, thisRow, 64)] = Place(thisRow, col, 64)
      BY <1>15, Zenon
    <3>3. M = 64 /\ N = 64
      BY <1>1
    <3>. QED BY ZenonT(60), <2>1, <3>1, <3>2, <3>3
  <2>3. Turn(stores, trace)
    BY <1>14
  <2>. QED BY <1>2, <2>2, <2>3, TurnKeeps DEF TransposeInv
<1>. QED BY <1>1, <1>2, <1>8, <1>13, <1>17 DEF TransposeInv, Sized

\* A row of A, or a part of it, goes down a column of B.
LEMMA CopyStores ==
  ASSUME NEW row, NEW from, NEW to, CopyRow(row, from, to)
  PROVE  \E trace : Turn([p \in {Place(j, row, N) : j \in from .. to} |-> Place(row, p \div N, M)], trace)
BY Zenon DEF CopyRow

LEMMA CopyKeeps ==
  ASSUME Sized, RightSoFar, NEW thisRow \in 0 .. N - 1, NEW from \in 0 .. M - 1, NEW to \in 0 .. M - 1,
         CopyRow(thisRow, from, to), M' = M, N' = N,
         \A col \in 0 .. M - 1, row \in 0 .. N - 1 :
           Stored(row, col)' => Stored(row, col) \/ (row = thisRow /\ col \in from .. to)
  PROVE  RightSoFar'
<1>1. PICK stores, trace :
        /\ Turn(stores, trace)
        /\ stores = [p \in {Place(j, thisRow, N) : j \in from .. to} |-> Place(thisRow, p \div N, M)]
  BY CopyStores
<1>2. N \in Nat \ {0} /\ M \in Nat \ {0}
  BY DEF Sized
<1>3. ASSUME NEW col \in 0 .. M - 1, NEW row \in 0 .. N - 1
      PROVE  /\ Place(col, row, N) \in DOMAIN stores => stores[Place(col, row, N)] = Place(row, col, M)
             /\ Stored(row, col)' => Stored(row, col) \/ Place(col, row, N) \in DOMAIN stores
  <2>1. PICK p : p = Place(col, row, N)
    OBVIOUS
  <2>2. p % N = row /\ p \div N = col
    <3>1. col \in Nat
      BY <1>2
    <3>. QED BY <1>2, <2>1, <3>1, PlaceIs
  <2>3. p \in DOMAIN stores <=> \E j \in from .. to : p = Place(j, thisRow, N)
    BY <1>1
  <2>4. ASSUME p \in DOMAIN stores PROVE stores[p] = Place(row, col, M)
    <3>1. PICK j \in from .. to : p = Place(j, thisRow, N)
      BY <2>3, <2>4
    <3>2. p % N = thisRow
      <4>1. j \in Nat
        BY <1>2
      <4>. QED BY <1>2, <3>1, <4>1, PlaceIs
    <3>3. stores[p] = Place(thisRow, p \div N, M)
      BY <1>1, <2>4
    <3>. QED BY <2>2, <3>2, <3>3
  <2>5. row = thisRow /\ col \in from .. to => p \in DOMAIN stores
    BY <2>1, <2>3
  <2>. QED BY <2>1, <2>4, <2>5
<1>. QED BY <1>1, <1>3, TurnKeeps

LEMMA LesserOf ==
  ASSUME NEW a \in Int, NEW b \in Int, NEW m, m = Min({a, b})
  PROVE  m \in {a, b} /\ m <= a /\ m <= b
<1>1. \E q \in {a, b} : \A y \in {a, b} : q <= y
  <2>1. CASE a <= b
    BY <2>1
  <2>2. CASE b <= a
    BY <2>2
  <2>. QED BY <2>1, <2>2
<1>. QED BY <1>1 DEF Min

LEMMA Rows61Step == ASSUME TransposeInv, Rows61 PROVE TransposeInv'
<1>1. M = 61 /\ N \in Nat \ {0} /\ N # 64 /\ fn = "transpose_submit" /\ r < N
  BY DEF Rows61, TransposeInv, Sized
<1>2. M' = M /\ N' = N /\ fn' = fn
  BY DEF Rows61, size
<1>3. r \in Nat /\ c \in {0, 18, 36, 54} /\ i \in 0 .. 17 /\ r + i < N
  BY <1>1 DEF TransposeInv, InRange
<1>4. PICK to : to = Min({c + 17, M - 1})
  OBVIOUS
<1>5. PICK turns : turns = Min({18, N - r})
  OBVIOUS
<1>7. to = (IF c = 54 THEN 60 ELSE c + 17) /\ turns \in {18, N - r} /\ turns <= 18 /\ turns <= N - r
  <2>1. PICK a \in Int, b \in Int : a = c + 17 /\ b = N - r
    BY <1>1, <1>3
  <2>2. to = Min({a, 60}) /\ turns = Min({18, b})
    BY <1>1, <1>4, <1>5, <2>1
  <2>3. to \in {a, 60} /\ to <= a /\ to <= 60
    BY <2>2, LesserOf
  <2>4. turns \in {18, b} /\ turns <= 18 /\ turns <= b
    BY <2>2, LesserOf
  <2>. QED BY <1>1, <1>3, <2>1, <2>3, <2>4
<1>8. Advance(18, turns) /\ CopyRow(r + i, c, to)
  BY <1>4, <1>5 DEF Rows61
<1>9. InRange'
  BY <1>1, <1>2, <1>3, <1>7, <1>8 DEF InRange, Advance
<1>10. ASSUME NEW col \in 0 .. 60, NEW row \in 0 .. N - 1, RowsAbove(18, row, col)'
       PROVE  RowsAbove(18, row, col) \/ (row = r + i /\ col \in c .. to)
  BY <1>1, <1>2, <1>3, <1>7, <1>8, <1>10 DEF RowsAbove, Advance
<1>11. \A col \in 0 .. M - 1, row \in 0 .. N - 1 :
         Stored(row, col)' => Stored(row, col) \/ (row = r + i /\ col \in c .. to)
  <2>1. SUFFICES ASSUME NEW col \in 0 .. M - 1, NEW row \in 0 .. N - 1, Stored(row, col)'
        PROVE  Stored(row, col) \/ (row = r + i /\ col \in c .. to)
    OBVIOUS
  <2>2. col \in 0 .. 60
    BY <1>1
  <2>3. RowsAbove(18, row, col)'
    BY <1>1, <1>2, <2>1 DEF Stored
  <2>4. RowsAbove(18, row, col) => Stored(row, col)
    BY <1>1 DEF Stored
  <2>. QED BY <1>10, <2>2, <2>3, <2>4
<1>12. r + i \in 0 .. N - 1 /\ c \in 0 .. M - 1 /\ to \in 0 .. M - 1
  BY <1>1, <1>3, <1>7
<1>13. RightSoFar'
  BY <1>2, <1>8, <1>11, <1>12, CopyKeeps DEF TransposeInv
<1>. QED BY <1>1, <1>2, <1>9, <1>13 DEF TransposeInv, Sized, Waiting

LEMMA TransStep == ASSUME TransposeInv, Trans PROVE TransposeInv'
<1>1. fn = "trans" /\ r < N /\ fn' = fn /\ M' = M /\ N' = N /\ r' = r + 1
  BY DEF Trans, size
<1>2. r \in 0 .. N /\ N \in Nat \ {0} /\ M \in Nat \ {0}
  BY <1>1 DEF TransposeInv, InRange, Sized
<1>3. CopyRow(r, 0, M - 1) /\ r \in 0 .. N - 1 /\ 0 \in 0 .. M - 1 /\ M - 1 \in 0 .. M - 1
  BY <1>1, <1>2 DEF Trans
<1>4. \A col \in 0 .. M - 1, row \in 0 .. N - 1 :
        Stored(row, col)' => Stored(row, col) \/ (row = r /\ col \in 0 .. M - 1)
  BY <1>1, <1>2 DEF Stored
<1>5. RightSoFar'
  BY <1>1, <1>3, <1>4, CopyKeeps DEF TransposeInv
<1>6. InRange'
  BY <1>1, <1>2 DEF InRange
<1>. QED BY <1>1, <1>5, <1>6 DEF TransposeInv, Sized, Waiting

LEMMA NextFunctionStep == ASSUME TransposeInv, NextFunction PROVE TransposeInv'
<1>1. M' = M /\ N' = N /\ r' = 0 /\ c' = 0 /\ i' = 0 /\ B' = Nothing
  BY DEF NextFunction, size
<1>2. fn' \in {"trans", "none"}
  BY DEF NextFunction
<1>3. N \in Nat \ {0} /\ M \in Nat \ {0} /\ (N = 64 => M = 64)
  BY DEF TransposeInv, Sized
<1>4. RightSoFar'
  <2>1. DOMAIN B' = 0 .. M * N - 1 /\ \A p \in 0 .. M * N - 1 : B'[p] = UNSET
    BY <1>1 DEF Nothing
  <2>2. ASSUME NEW p \in 0 .. M * N - 1 PROVE ~ Stored(p % N, p \div N)'
    <3>1. PICK row : row = p % N
      OBVIOUS
    <3>2. row \in Nat
      BY <1>3, <3>1, PlaceOf
    <3>. QED BY <1>1, <1>2, <3>1, <3>2 DEF Stored
  <2>. QED BY <1>1, <2>1, <2>2 DEF RightSoFar
<1>5. InRange'
  BY <1>1, <1>2, <1>3 DEF InRange
<1>. QED BY <1>1, <1>2, <1>4, <1>5 DEF TransposeInv, Sized, Waiting

LEMMA TransposeStart == TransposeInit => TransposeInv
<1>1. SUFFICES ASSUME TransposeInit PROVE TransposeInv
  OBVIOUS
<1>2. Sized
  BY <1>1, TransposeConstantsOK DEF TransposeInit, Sized
<1>3. fn = "transpose_submit" /\ r = 0 /\ c = 0 /\ i = 0 /\ B = Nothing
  BY <1>1 DEF TransposeInit
<1>4. InRange
  BY <1>2, <1>3 DEF InRange, Sized
<1>5. RightSoFar
  <2>1. DOMAIN B = 0 .. M * N - 1 /\ \A p \in 0 .. M * N - 1 : B[p] = UNSET
    BY <1>3 DEF Nothing
  <2>2. ASSUME NEW p \in 0 .. M * N - 1 PROVE ~ Stored(p % N, p \div N)
    <3>1. PICK row, col : row = p % N /\ col = p \div N
      OBVIOUS
    <3>2. row \in Nat /\ col \in Nat
      <4>1. M \in Nat \ {0} /\ N \in Nat \ {0}
        BY <1>2 DEF Sized
      <4>. QED BY <3>1, <4>1, PlaceOf
    <3>3. ~ Stored(row, col)
      BY <1>3, <3>2 DEF Stored, RowsAbove, Beside
    <3>. QED BY <3>1, <3>3
  <2>. QED BY <2>1, <2>2 DEF RightSoFar
<1>. QED BY <1>2, <1>3, <1>4, <1>5 DEF TransposeInv, Waiting

LEMMA TransposeInductive == TransposeInv /\ [TransposeNext]_transposeVars => TransposeInv'
<1>1. SUFFICES ASSUME TransposeInv, [TransposeNext]_transposeVars PROVE TransposeInv'
  OBVIOUS
<1>2. CASE TransposeNext
  BY <1>1, <1>2, Rows32Step, Blocks64Step, Rows61Step, TransStep, NextFunctionStep DEF TransposeNext
<1>3. CASE UNCHANGED transposeVars
  BY <1>1, <1>3 DEF transposeVars, size, TransposeInv, Sized, InRange, Waiting, RightSoFar,
     Stored, RowsAbove, Beside
<1>. QED BY <1>1, <1>2, <1>3

\* At the end everything is stored.
LEMMA TransposeEnds == TransposeInv => EnsuresTranspose
<1>1. SUFFICES ASSUME TransposeInv PROVE EnsuresTranspose
  OBVIOUS
<1>2. ASSUME Finished, fn = "trans" \/ (fn = "transpose_submit" /\ Covered),
             NEW p \in 0 .. M * N - 1
      PROVE  B[p] # UNSET
  <2>1. PICK row, col : row = p % N /\ col = p \div N
    OBVIOUS
  <2>2. M \in Nat \ {0} /\ N \in Nat \ {0} /\ (N = 64 => M = 64)
    BY <1>1 DEF TransposeInv, Sized
  <2>3. row \in 0 .. N - 1 /\ col \in 0 .. M - 1
    BY <2>1, <2>2, PlaceOf
  <2>4. InRange
    BY <1>1 DEF TransposeInv
  <2>5. Stored(row, col)
    <3>1. CASE fn = "trans"
      BY <1>2, <2>2, <2>3, <2>4, <3>1 DEF Finished, InRange, Stored
    <3>2. CASE fn = "transpose_submit" /\ M = 32 /\ N % 8 = 0
      <4>1. r \in Nat /\ r % 8 = 0 /\ r + 8 > N
        BY <1>2, <2>2, <2>4, <3>2 DEF Finished, TurnsLeft, InRange
      <4>2. r >= N
        BY <2>2, <3>2, <4>1
      <4>. QED BY <2>2, <2>3, <3>2, <4>1, <4>2 DEF Stored, RowsAbove
    <3>3. CASE fn = "transpose_submit" /\ N = 64
      BY <1>2, <2>2, <2>3, <2>4, <3>3 DEF Finished, TurnsLeft, InRange, Stored, Beside
    <3>4. CASE fn = "transpose_submit" /\ M = 61
      BY <1>2, <2>2, <2>3, <2>4, <3>4 DEF Finished, TurnsLeft, InRange, Stored, RowsAbove
    <3>. QED BY <1>2, <3>1, <3>2, <3>3, <3>4 DEF Covered
  <2>. QED BY <1>1, <2>1, <2>5 DEF TransposeInv, RightSoFar
<1>3. \A p \in 0 .. M * N - 1 : B[p] \in {UNSET, Place(p % N, p \div N, M)}
  BY <1>1 DEF TransposeInv, RightSoFar
<1>. QED BY <1>2, <1>3 DEF EnsuresTranspose

\* For matrices of every size that the branches keep inside their arrays: trans
\* transposes it; transpose_submit does if M = 32 and N is a multiple of 8, or
\* M = N = 64, or M = 61; and neither stores what does not belong where it is stored.
THEOREM Transposed == TransposeSpec => []EnsuresTranspose
BY TransposeStart, TransposeInductive, TransposeEnds, PTL DEF TransposeSpec

-----------------------------------------------------------------------------
(* Words as numbers. *)

\* The weights of the bits.
LEMMA Weights ==
  /\ Power2[0] = 1
  /\ \A n \in Nat : Power2[n] \in Nat \ {0} /\ Power2[n + 1] = 2 * Power2[n]
<1>1. Doubling(Power2)
  BY DoublingExists DEF Doubling, Power2
<1>. QED BY <1>1, DoublingIs

LEMMA WeightsSum == \A m, n \in Nat : Power2[m + n] = Power2[m] * Power2[n]
<1>1. Doubling(Power2)
  BY DoublingExists DEF Doubling, Power2
<1>. QED BY <1>1, DoublingIs

\* Some of them.
LEMMA SmallWeights ==
  /\ Power2[0] = 1 /\ Power2[1] = 2 /\ Power2[2] = 4 /\ Power2[3] = 8
  /\ Power2[4] = 16 /\ Power2[5] = 32 /\ Power2[6] = 64 /\ Power2[7] = 128
  /\ Power2[8] = 256
<1>1. \A n \in 0 .. 7 : Power2[n + 1] = 2 * Power2[n]
  BY Weights
<1>2. Power2[0] = 1
  BY Weights
<1>3. Power2[1] = 2 * Power2[0] /\ Power2[2] = 2 * Power2[1] /\ Power2[3] = 2 * Power2[2]
  <2>1. Power2[0 + 1] = 2 * Power2[0] /\ Power2[1 + 1] = 2 * Power2[1] /\ Power2[2 + 1] = 2 * Power2[2]
    BY <1>1
  <2>. QED BY <2>1
<1>4. Power2[4] = 2 * Power2[3] /\ Power2[5] = 2 * Power2[4] /\ Power2[6] = 2 * Power2[5]
  <2>1. Power2[3 + 1] = 2 * Power2[3] /\ Power2[4 + 1] = 2 * Power2[4] /\ Power2[5 + 1] = 2 * Power2[5]
    BY <1>1
  <2>. QED BY <2>1
<1>5. Power2[7] = 2 * Power2[6] /\ Power2[8] = 2 * Power2[7]
  <2>1. Power2[6 + 1] = 2 * Power2[6] /\ Power2[7 + 1] = 2 * Power2[7]
    BY <1>1
  <2>. QED BY <2>1
<1>. QED BY <1>2, <1>3, <1>4, <1>5

LEMMA LargeWeights ==
  /\ Power2[12] = 16 * 256 /\ Power2[16] = 256 * 256 /\ Power2[20] = 16 * 256 * 256
  /\ Power2[23] = 128 * 256 * 256 /\ Power2[24] = 256 * 256 * 256
  /\ Power2[28] = 16 * 256 * 256 * 256
  /\ Power2[31] = 128 * 256 * 256 * 256 /\ Power2[32] = 256 * 256 * 256 * 256
<1>1. Power2[4 + 8] = Power2[4] * Power2[8] /\ Power2[8 + 8] = Power2[8] * Power2[8]
  BY WeightsSum
<1>2. Power2[12] = 16 * 256 /\ Power2[16] = 256 * 256
  BY <1>1, SmallWeights
<1>3. Power2[4 + 16] = Power2[4] * Power2[16] /\ Power2[7 + 16] = Power2[7] * Power2[16]
  BY WeightsSum
<1>4. Power2[8 + 16] = Power2[8] * Power2[16]
  BY WeightsSum
<1>5. /\ Power2[4 + 24] = Power2[4] * Power2[24] /\ Power2[7 + 24] = Power2[7] * Power2[24]
      /\ Power2[8 + 24] = Power2[8] * Power2[24]
  BY WeightsSum
<1>6. Power2[20] = 16 * 256 * 256 /\ Power2[23] = 128 * 256 * 256
  BY <1>2, <1>3, SmallWeights
<1>7. Power2[24] = 256 * 256 * 256
  BY <1>2, <1>4, SmallWeights
<1>8. Power2[28] = 16 * 256 * 256 * 256 /\ Power2[31] = 128 * 256 * 256 * 256
  BY <1>5, <1>7, SmallWeights
<1>9. Power2[32] = 256 * 256 * 256 * 256
  BY <1>5, <1>7, SmallWeights
<1>. QED BY <1>2, <1>6, <1>7, <1>8, <1>9

\* What sums are taken modulo.
LEMMA Modulus == Power2[32] = 256 * 256 * 256 * 256
BY LargeWeights

\* The bits of x below the k-th, and what the k-th adds to their value.
Low(x, k) == {b \in x : b < k}
Weight(x, k) == IF k \in x THEN Power2[k] ELSE 0

LEMMA BitsAre == Bit \subseteq Nat /\ (\A b : b \in Bit <=> b \in Nat /\ b < 32) /\ W = 32
BY DEF Bit, W

\* A word and its parts are finite sets of numbers, their weights integers.
LEMMA WordFinite ==
  ASSUME NEW x \in Word
  PROVE  IsFiniteSet(x) /\ \A b \in x : b \in Bit /\ Power2[b] \in Int
<1>1. IsFiniteSet(Bit)
  <2>1. 0 \in Int /\ 31 \in Int
    OBVIOUS
  <2>2. IsFiniteSet(0 .. 31)
    BY <2>1, FS_Interval, Zenon
  <2>. QED BY <2>2 DEF Bit, W
<1>2. IsFiniteSet(x) /\ \A b \in x : b \in Bit
  BY <1>1, FS_Subset DEF Word
<1>. QED BY <1>2, Weights, BitsAre

LEMMA LowIs ==
  ASSUME NEW x \in Word
  PROVE  /\ \A k \in Int : Low(x, k) \in Word
         /\ Low(x, 0) = {} /\ Low(x, W) = x
         /\ \A k \in Bit : Low(x, k + 1) = IF k \in x THEN Low(x, k) \cup {k} ELSE Low(x, k)
<1>1. \A b \in x : b \in Nat /\ b < 32 /\ b \in Bit
  BY BitsAre DEF Word
<1>2. (\A k \in Int : Low(x, k) \in Word) /\ Low(x, 0) = {} /\ Low(x, W) = x
  BY <1>1 DEF Low, Word, W
<1>3. ASSUME NEW k \in Bit
      PROVE  Low(x, k + 1) = IF k \in x THEN Low(x, k) \cup {k} ELSE Low(x, k)
  <2>1. \A b \in x : b < k + 1 <=> b < k \/ b = k
    BY <1>1, BitsAre
  <2>. QED BY <2>1 DEF Low
<1>. QED BY <1>2, <1>3

\* The value of a word, bit by bit.
LEMMA LowValue ==
  ASSUME NEW x \in Word
  PROVE  /\ Value(Low(x, 0)) = 0
         /\ \A k \in Bit : Value(Low(x, k + 1)) = Value(Low(x, k)) + Weight(x, k)
<1>1. Value(Low(x, 0)) = 0
  BY LowIs, SumEmpty DEF Value
<1>2. ASSUME NEW k \in Bit PROVE Value(Low(x, k + 1)) = Value(Low(x, k)) + Weight(x, k)
  <2>1. Low(x, k) \in Word /\ k \in Nat /\ k \notin Low(x, k)
    BY LowIs, BitsAre DEF Low
  <2>2. IsFiniteSet(Low(x, k)) /\ \A b \in Low(x, k) \cup {k} : Power2[b] \in Int
    BY <2>1, WordFinite, Weights
  <2>. DEFINE low == Low(x, k)
  <2>. HIDE DEF low
  <2>3. /\ Value(low \cup {k}) = Power2[k] + Value(low)
        /\ Value(low) \in Int /\ Power2[k] \in Int
    <3>1. IsFiniteSet(low) /\ k \notin low /\ \A b \in low \cup {k} : Power2[b] \in Int
      BY <2>1, <2>2 DEF low
    <3>2. /\ SumFunctionOnSet(Power2, low \cup {k}) = Power2[k] + SumFunctionOnSet(Power2, low)
          /\ SumFunctionOnSet(Power2, low) \in Int
      BY <3>1, SumAdd
    <3>. QED BY <3>1, <3>2 DEF Value
  <2>4. Low(x, k + 1) = IF k \in x THEN Low(x, k) \cup {k} ELSE Low(x, k)
    BY LowIs
  <2>5. CASE k \in x
    <3>1. Low(x, k + 1) = low \cup {k} /\ Weight(x, k) = Power2[k]
      BY <2>4, <2>5 DEF Weight, low
    <3>2. Value(low \cup {k}) = Value(low) + Power2[k]
      BY <2>3
    <3>. QED BY <3>1, <3>2 DEF low
  <2>6. CASE k \notin x
    <3>1. Low(x, k + 1) = low /\ Weight(x, k) = 0
      BY <2>4, <2>6 DEF Weight, low
    <3>2. Value(low) = Value(low) + 0
      BY <2>3
    <3>. QED BY <3>1, <3>2 DEF low
  <2>. QED BY <2>5, <2>6
<1>. QED BY <1>1, <1>2

\* Induction over the bits.
LEMMA BitInduction ==
  ASSUME NEW P, 0 \in P, \A k \in Bit : k \in P => k + 1 \in P
  PROVE  \A k \in 0 .. W : k \in P
<1>. DEFINE Q == {n \in Nat : n <= 32 => n \in P}
<1>1. 0 \in Q
  OBVIOUS
<1>2. \A n \in Nat : n \in Q => n + 1 \in Q
  BY BitsAre
<1>. HIDE DEF Q
<1>3. \A n \in Nat : n \in Q
  BY <1>1, <1>2, Induction
<1>. QED BY <1>3 DEF Q, W

\* The bits below the k-th are worth less than the k-th.
LEMMA LowRange ==
  ASSUME NEW x \in Word
  PROVE  \A k \in 0 .. W : Value(Low(x, k)) \in Nat /\ Value(Low(x, k)) < Power2[k]
<1>. DEFINE P == {k \in 0 .. W : Value(Low(x, k)) \in Nat /\ Value(Low(x, k)) < Power2[k]}
<1>1. 0 \in P
  BY LowValue, Weights DEF W
<1>2. ASSUME NEW k \in Bit, k \in P PROVE k + 1 \in P
  <2>1. k \in Nat /\ k + 1 \in 0 .. W
    BY BitsAre
  <2>2. Power2[k] \in Nat /\ Power2[k + 1] = 2 * Power2[k]
    BY <2>1, Weights
  <2>3. Value(Low(x, k + 1)) = Value(Low(x, k)) + Weight(x, k)
    BY LowValue
  <2>4. Weight(x, k) = Power2[k] \/ Weight(x, k) = 0
    BY DEF Weight
  <2>5. Value(Low(x, k)) \in Nat /\ Value(Low(x, k)) < Power2[k]
    BY <1>2
  <2>6. Value(Low(x, k + 1)) \in Nat /\ Value(Low(x, k + 1)) < Power2[k + 1]
    BY <2>2, <2>3, <2>4, <2>5
  <2>. QED BY <2>1, <2>6
<1>. HIDE DEF P
<1>3. \A k \in 0 .. W : k \in P
  BY <1>1, <1>2, BitInduction
<1>. QED BY <1>3 DEF P

LEMMA ValueRange ==
  ASSUME NEW x \in Word
  PROVE  Value(x) \in Nat /\ Value(x) < Power2[32]
<1>1. W \in 0 .. W /\ W = 32
  BY DEF W
<1>2. Low(x, W) = x
  BY LowIs
<1>. QED BY <1>1, <1>2, LowRange, LargeWeights

\* Different words have different values.
LEMMA SameValue ==
  ASSUME NEW x \in Word, NEW y \in Word, Value(x) = Value(y)
  PROVE  x = y
<1>. DEFINE P == {k \in 0 .. W : Value(Low(x, k)) = Value(Low(y, k)) => Low(x, k) = Low(y, k)}
<1>1. 0 \in P
  <2>1. Low(x, 0) = {} /\ Low(y, 0) = {}
    BY LowIs
  <2>. QED BY <2>1 DEF W
<1>2. ASSUME NEW k \in Bit, k \in P PROVE k + 1 \in P
  <2>1. k \in Nat /\ k + 1 \in 0 .. W /\ k \in 0 .. W
    BY BitsAre
  <2>. SUFFICES ASSUME Value(Low(x, k + 1)) = Value(Low(y, k + 1)) PROVE Low(x, k + 1) = Low(y, k + 1)
    BY <2>1
  <2>2. /\ Value(Low(x, k + 1)) = Value(Low(x, k)) + Weight(x, k)
        /\ Value(Low(y, k + 1)) = Value(Low(y, k)) + Weight(y, k)
    BY LowValue
  <2>3. /\ Value(Low(x, k)) \in Nat /\ Value(Low(x, k)) < Power2[k]
        /\ Value(Low(y, k)) \in Nat /\ Value(Low(y, k)) < Power2[k]
    BY <2>1, LowRange
  <2>4. Power2[k] \in Nat \ {0}
    BY <2>1, Weights
  <2>5. /\ Weight(x, k) = (IF k \in x THEN Power2[k] ELSE 0)
        /\ Weight(y, k) = (IF k \in y THEN Power2[k] ELSE 0)
    BY DEF Weight
  <2>6. (k \in x <=> k \in y) /\ Value(Low(x, k)) = Value(Low(y, k))
    <3>1. CASE k \in x /\ k \in y
      BY <2>2, <2>3, <2>4, <2>5, <3>1
    <3>2. CASE k \notin x /\ k \notin y
      BY <2>2, <2>3, <2>4, <2>5, <3>2
    <3>3. CASE k \in x /\ k \notin y
      BY <2>2, <2>3, <2>4, <2>5, <3>3
    <3>4. CASE k \notin x /\ k \in y
      BY <2>2, <2>3, <2>4, <2>5, <3>4
    <3>. QED BY <3>1, <3>2, <3>3, <3>4
  <2>7. Low(x, k) = Low(y, k)
    BY <1>2, <2>6
  <2>8. /\ Low(x, k + 1) = (IF k \in x THEN Low(x, k) \cup {k} ELSE Low(x, k))
        /\ Low(y, k + 1) = (IF k \in y THEN Low(y, k) \cup {k} ELSE Low(y, k))
    <3>1. Low(x, k + 1) = (IF k \in x THEN Low(x, k) \cup {k} ELSE Low(x, k))
      BY LowIs
    <3>2. Low(y, k + 1) = (IF k \in y THEN Low(y, k) \cup {k} ELSE Low(y, k))
      BY LowIs
    <3>. QED BY <3>1, <3>2
  <2>. QED BY <2>6, <2>7, <2>8
<1>. HIDE DEF P
<1>3. W \in P
  <2>1. \A k \in 0 .. W : k \in P
    BY <1>1, <1>2, BitInduction
  <2>. QED BY <2>1 DEF W
<1>4. Low(x, W) = x /\ Low(y, W) = y
  BY LowIs
<1>. QED BY <1>3, <1>4 DEF P

-----------------------------------------------------------------------------
(* Sums. *)

\* Two of three, and one or all of three.
Majority(P, Q, R) == (P /\ Q) \/ (P /\ R) \/ (Q /\ R)
Odd(P, Q, R) == P <=> (Q <=> R)

\* C is the bits into which x + y has a carry.
Carries(C, x, y) ==
  /\ C \subseteq 0 .. W /\ 0 \notin C
  /\ \A b \in Bit : b + 1 \in C <=> Majority(b \in x, b \in y, b \in C)

\* Every sum has its carries.
LEMMA CarriesExist ==
  ASSUME NEW x, NEW y
  PROVE  \E C : Carries(C, x, y)
<1>. DEFINE Q(C, n) == /\ C \subseteq 0 .. n /\ 0 \notin C
                       /\ \A b \in 0 .. n - 1 : b + 1 \in C <=> Majority(b \in x, b \in y, b \in C)
<1>. DEFINE P == {n \in Nat : \E C : Q(C, n)}
<1>1. 0 \in P
  <2>1. Q({}, 0)
    OBVIOUS
  <2>. HIDE DEF Q
  <2>. QED BY <2>1
<1>2. ASSUME NEW n \in Nat, n \in P PROVE n + 1 \in P
  <2>1. PICK C : Q(C, n)
    BY <1>2
  <2>. DEFINE D == IF Majority(n \in x, n \in y, n \in C) THEN C \cup {n + 1} ELSE C
  <2>2. D \subseteq 0 .. n + 1 /\ 0 \notin D /\ \A b \in 0 .. n : b \in D <=> b \in C
    BY <2>1
  <2>3. n + 1 \in D <=> Majority(n \in x, n \in y, n \in C)
    BY <2>1
  <2>. HIDE DEF D
  <2>4. ASSUME NEW b \in 0 .. (n + 1) - 1
        PROVE  b + 1 \in D <=> Majority(b \in x, b \in y, b \in D)
    <3>1. CASE b = n
      <4>1. b \in D <=> b \in C
        BY <2>2, <3>1
      <4>. QED BY <2>3, <3>1, <4>1 DEF Majority
    <3>2. CASE b # n
      <4>1. b \in 0 .. n - 1 /\ b \in 0 .. n /\ b + 1 \in 0 .. n
        BY <3>2
      <4>2. b + 1 \in C <=> Majority(b \in x, b \in y, b \in C)
        BY <2>1, <4>1
      <4>3. (b \in D <=> b \in C) /\ (b + 1 \in D <=> b + 1 \in C)
        BY <2>2, <4>1
      <4>. QED BY <4>2, <4>3 DEF Majority
    <3>. QED BY <3>1, <3>2
  <2>5. Q(D, n + 1)
    BY <2>2, <2>4
  <2>. HIDE DEF Q
  <2>. QED BY <2>5
<1>. HIDE DEF P
<1>3. \A n \in Nat : n \in P
  BY <1>1, <1>2, Induction
<1>4. 32 \in P
  BY <1>3
<1>. QED BY <1>4 DEF P, Carries, Bit, W

\* What Add makes of them.
LEMMA AddBits ==
  ASSUME NEW x, NEW y, NEW C, Carries(C, x, y)
  PROVE  \A b \in Bit : b \in Add(x, y) <=> Odd(b \in x, b \in y, b \in C)
<1>. DEFINE carry[b \in 0 .. W] ==
              b > 0 /\ Sum3(b - 1 \in x, b - 1 \in y, carry[b - 1]) >= 2
<1>1. Add(x, y) = {b \in Bit : Sum3(b \in x, b \in y, carry[b]) \in {1, 3}}
  BY Zenon DEF Add
<1>. DEFINE F == [b \in 0 .. W |-> b \in C]
<1>2. \A b \in 0 .. W : F[b] <=> b \in C
  BY Zenon
<1>3. ASSUME NEW b \in 0 .. W
      PROVE  F[b] = (b > 0 /\ Sum3(b - 1 \in x, b - 1 \in y, F[b - 1]) >= 2)
  <2>0. F[b] = (b \in C)
    BY Zenon
  <2>. HIDE DEF F
  <2>1. CASE b = 0
    <3>1. b \notin C /\ ~ b > 0
      BY <2>1 DEF Carries
    <3>. QED BY <2>0, <3>1
  <2>2. CASE b # 0
    <3>1. b - 1 \in Bit /\ b - 1 \in 0 .. W /\ (b - 1) + 1 = b /\ b > 0
      BY <2>2 DEF Bit, W
    <3>2. b \in C <=> Majority(b - 1 \in x, b - 1 \in y, b - 1 \in C)
      BY <3>1 DEF Carries
    <3>3. F[b - 1] <=> b - 1 \in C
      BY <1>2, <3>1
    <3>4. Sum3(b - 1 \in x, b - 1 \in y, F[b - 1]) >= 2 <=> Majority(b - 1 \in x, b - 1 \in y, b - 1 \in C)
      BY <3>3 DEF Sum3, Majority
    <3>5. b \in C <=> b > 0 /\ Sum3(b - 1 \in x, b - 1 \in y, F[b - 1]) >= 2
      BY <3>1, <3>2, <3>4
    <3>. QED BY <2>0, <3>5
  <2>. QED BY <2>1, <2>2
<1>4. F = [b \in 0 .. W |-> b > 0 /\ Sum3(b - 1 \in x, b - 1 \in y, F[b - 1]) >= 2]
  <2>1. F = [b \in 0 .. W |-> F[b]]
    OBVIOUS
  <2>. HIDE DEF F
  <2>. QED BY <1>3, <2>1, Zenon
<1>. HIDE DEF F
<1>5. carry = [b \in 0 .. W |-> b > 0 /\ Sum3(b - 1 \in x, b - 1 \in y, carry[b - 1]) >= 2]
  BY <1>4, Zenon
<1>. HIDE DEF carry
<1>6. \A b \in 0 .. W : carry[b] <=> b > 0 /\ Sum3(b - 1 \in x, b - 1 \in y, carry[b - 1]) >= 2
  BY <1>5, Zenon
<1>. DEFINE P == {b \in 0 .. W : carry[b] <=> b \in C}
<1>7. 0 \in P
  <2>1. 0 \in 0 .. W /\ ~ 0 > 0 /\ 0 \notin C
    BY DEF W, Carries
  <2>. QED BY <1>6, <2>1, Zenon
<1>8. ASSUME NEW k \in Bit, k \in P PROVE k + 1 \in P
  <2>1. k \in 0 .. W /\ k + 1 \in 0 .. W /\ k + 1 > 0 /\ (k + 1) - 1 = k
    BY DEF Bit, W
  <2>2. carry[k] <=> k \in C
    BY <1>8, Zenon
  <2>3. carry[k + 1] <=> Sum3(k \in x, k \in y, carry[k]) >= 2
    <3>1. PICK j : j = k + 1
      OBVIOUS
    <3>2. j \in 0 .. W /\ j > 0 /\ j - 1 = k
      BY <2>1, <3>1
    <3>. QED BY <1>6, <3>1, <3>2, Zenon
  <2>4. Sum3(k \in x, k \in y, carry[k]) >= 2 <=> Majority(k \in x, k \in y, k \in C)
    BY <2>2 DEF Sum3, Majority
  <2>5. carry[k + 1] <=> k + 1 \in C
    BY <2>3, <2>4, Zenon DEF Carries
  <2>. QED BY <2>1, <2>5, Zenon
<1>. HIDE DEF P
<1>9. ASSUME NEW b \in Bit PROVE carry[b] <=> b \in C
  <2>1. b \in 0 .. W
    BY BitsAre
  <2>2. \A k \in 0 .. W : k \in P
    BY <1>7, <1>8, BitInduction
  <2>. QED BY <2>1, <2>2, Zenon DEF P
<1>10. ASSUME NEW b \in Bit PROVE b \in Add(x, y) <=> Odd(b \in x, b \in y, b \in C)
  <2>1. b \in Add(x, y) <=> Sum3(b \in x, b \in y, carry[b]) \in {1, 3}
    BY <1>1, Zenon
  <2>2. Sum3(b \in x, b \in y, carry[b]) \in {1, 3} <=> Odd(b \in x, b \in y, b \in C)
    BY <1>9 DEF Sum3, Odd
  <2>. QED BY <2>1, <2>2
<1>. QED BY <1>10

LEMMA AddWord ==
  ASSUME NEW x, NEW y
  PROVE  Add(x, y) \in Word
BY DEF Add, Word

\* The value of a sum: the sum of the values, but for what leaves the word.
LEMMA AddValue ==
  ASSUME NEW x \in Word, NEW y \in Word
  PROVE  Value(Add(x, y)) = (Value(x) + Value(y)) % Power2[32]
<1>1. PICK C : Carries(C, x, y)
  BY CarriesExist
<1>. DEFINE s == Add(x, y)
<1>2. s \in Word /\ \A b \in Bit : b \in s <=> Odd(b \in x, b \in y, b \in C)
  BY <1>1, AddBits, AddWord
<1>. HIDE DEF s
<1>. DEFINE P == {k \in 0 .. W : Value(Low(s, k)) + Weight(C, k) = Value(Low(x, k)) + Value(Low(y, k))}
<1>3. 0 \in P
  <2>1. 0 \notin C /\ 0 \in 0 .. W
    BY <1>1 DEF Carries, W
  <2>2. Value(Low(s, 0)) = 0 /\ Value(Low(x, 0)) = 0 /\ Value(Low(y, 0)) = 0 /\ Weight(C, 0) = 0
    BY <1>2, <2>1, LowValue DEF Weight
  <2>. QED BY <2>1, <2>2
<1>4. ASSUME NEW k \in Bit, k \in P PROVE k + 1 \in P
  <2>1. k \in Nat /\ k \in 0 .. W /\ k + 1 \in 0 .. W
    BY BitsAre
  <2>2. PICK t \in Int : t = Power2[k]
    BY <2>1, Weights
  <2>3. Power2[k + 1] = 2 * t
    BY <2>1, <2>2, Weights
  <2>4. Value(Low(s, k + 1)) = Value(Low(s, k)) + Weight(s, k)
    BY <1>2, LowValue
  <2>5. Value(Low(x, k + 1)) = Value(Low(x, k)) + Weight(x, k)
    BY LowValue
  <2>6. Value(Low(y, k + 1)) = Value(Low(y, k)) + Weight(y, k)
    BY LowValue
  <2>7. Value(Low(s, k)) \in Nat
    BY <1>2, <2>1, LowRange
  <2>8. Value(Low(x, k)) \in Nat
    BY <2>1, LowRange
  <2>9. Value(Low(y, k)) \in Nat
    BY <2>1, LowRange
  <2>10. Value(Low(s, k)) + Weight(C, k) = Value(Low(x, k)) + Value(Low(y, k))
    BY <1>4
  <2>11. /\ k \in s <=> Odd(k \in x, k \in y, k \in C)
         /\ k + 1 \in C <=> Majority(k \in x, k \in y, k \in C)
    BY <1>1, <1>2 DEF Carries
  <2>12. /\ Weight(s, k) = (IF Odd(k \in x, k \in y, k \in C) THEN t ELSE 0)
         /\ Weight(x, k) = (IF k \in x THEN t ELSE 0)
         /\ Weight(y, k) = (IF k \in y THEN t ELSE 0)
         /\ Weight(C, k) = (IF k \in C THEN t ELSE 0)
         /\ Weight(C, k + 1) = (IF Majority(k \in x, k \in y, k \in C) THEN 2 * t ELSE 0)
    BY <2>2, <2>3, <2>11 DEF Weight
  <2>13. Weight(s, k) + Weight(C, k + 1) = Weight(x, k) + Weight(y, k) + Weight(C, k)
    BY <2>12 DEF Majority, Odd
  <2>14. Weight(s, k) \in Int /\ Weight(C, k + 1) \in Int /\ Weight(x, k) \in Int /\ Weight(y, k) \in Int /\ Weight(C, k) \in Int
    BY <2>12
  <2>15. Value(Low(s, k + 1)) + Weight(C, k + 1) = Value(Low(x, k + 1)) + Value(Low(y, k + 1))
    BY <2>4, <2>5, <2>6, <2>7, <2>8, <2>9, <2>10, <2>13, <2>14
  <2>. QED BY <2>1, <2>15
<1>. HIDE DEF P
<1>5. 32 \in P
  <2>1. \A k \in 0 .. W : k \in P
    BY <1>3, <1>4, BitInduction
  <2>. QED BY <2>1 DEF W
<1>6. Low(s, 32) = s /\ Low(x, 32) = x /\ Low(y, 32) = y
  BY <1>2, LowIs DEF W
<1>7. Weight(C, 32) = Power2[32] \/ Weight(C, 32) = 0
  BY LargeWeights DEF Weight
<1>8. Value(s) + Weight(C, 32) = Value(x) + Value(y)
  BY <1>5, <1>6 DEF P
<1>9. Value(s) \in Nat /\ Value(s) < Power2[32] /\ Value(x) \in Nat /\ Value(y) \in Nat
  BY <1>2, ValueRange
<1>10. Value(s) = (Value(x) + Value(y)) % Power2[32]
  <2>1. PICK m : m = Power2[32]
    OBVIOUS
  <2>2. m = 256 * 256 * 256 * 256
    BY <2>1, Modulus
  <2>3. /\ Value(s) \in Nat /\ Value(s) < m /\ Value(x) + Value(y) \in Nat
        /\ Value(x) + Value(y) = Value(s) \/ Value(x) + Value(y) = Value(s) + m
    BY <1>7, <1>8, <1>9, <2>1, <2>2
  <2>4. Value(s) = (Value(x) + Value(y)) % m
    BY <2>2, <2>3
  <2>. QED BY <2>1, <2>4
<1>. QED BY <1>10 DEF s

\* Words that have no bit in common.
LEMMA ValueUnion ==
  ASSUME NEW x \in Word, NEW y \in Word, x \cap y = {}
  PROVE  x \cup y \in Word /\ Value(x \cup y) = Value(x) + Value(y)
<1>. DEFINE u == x \cup y
<1>1. u \in Word
  BY DEF Word
<1>2. \A k : k \in u <=> k \in x \/ k \in y
  OBVIOUS
<1>. HIDE DEF u
<1>. DEFINE P == {k \in 0 .. W : Value(Low(u, k)) = Value(Low(x, k)) + Value(Low(y, k))}
<1>3. 0 \in P
  <2>1. Value(Low(u, 0)) = 0 /\ Value(Low(x, 0)) = 0 /\ Value(Low(y, 0)) = 0
    BY <1>1, LowValue
  <2>. QED BY <2>1 DEF W
<1>4. ASSUME NEW k \in Bit, k \in P PROVE k + 1 \in P
  <2>1. k \in Nat /\ k \in 0 .. W /\ k + 1 \in 0 .. W /\ Power2[k] \in Nat
    BY BitsAre, Weights
  <2>2. Value(Low(u, k + 1)) = Value(Low(u, k)) + Weight(u, k)
    BY <1>1, LowValue
  <2>3. Value(Low(x, k + 1)) = Value(Low(x, k)) + Weight(x, k)
    BY LowValue
  <2>4. Value(Low(y, k + 1)) = Value(Low(y, k)) + Weight(y, k)
    BY LowValue
  <2>5. Value(Low(x, k)) \in Nat
    BY <2>1, LowRange
  <2>6. Value(Low(y, k)) \in Nat
    BY <2>1, LowRange
  <2>7. Weight(u, k) = Weight(x, k) + Weight(y, k) /\ Weight(x, k) \in Nat /\ Weight(y, k) \in Nat
    BY <1>2, <2>1 DEF Weight
  <2>8. Value(Low(u, k)) = Value(Low(x, k)) + Value(Low(y, k))
    BY <1>4
  <2>9. Value(Low(u, k + 1)) = Value(Low(x, k + 1)) + Value(Low(y, k + 1))
    BY <2>2, <2>3, <2>4, <2>5, <2>6, <2>7, <2>8
  <2>. QED BY <2>1, <2>9
<1>. HIDE DEF P
<1>5. W \in P
  <2>1. \A k \in 0 .. W : k \in P
    BY <1>3, <1>4, BitInduction
  <2>. QED BY <2>1 DEF W
<1>6. Low(u, W) = u /\ Low(x, W) = x /\ Low(y, W) = y
  <2>1. Low(x, W) = x
    BY LowIs
  <2>2. Low(y, W) = y
    BY LowIs
  <2>3. Low(u, W) = u
    BY <1>1, LowIs
  <2>. QED BY <2>1, <2>2, <2>3
<1>7. Value(u) = Value(x) + Value(y)
  BY <1>5, <1>6 DEF P
<1>. QED BY <1>1, <1>7 DEF u

\* The words whose first k bits are all one.
LEMMA ValueOnes ==
  ASSUME NEW k \in 0 .. W
  PROVE  Low(Bit, k) \in Word /\ Value(Low(Bit, k)) = Power2[k] - 1
<1>. DEFINE P == {n \in 0 .. W : Value(Low(Bit, n)) = Power2[n] - 1}
<1>1. Bit \in Word
  BY DEF Word
<1>2. 0 \in P
  <2>1. Value(Low(Bit, 0)) = 0
    BY <1>1, LowValue
  <2>. QED BY <2>1, Weights DEF W
<1>3. ASSUME NEW n \in Bit, n \in P PROVE n + 1 \in P
  <2>1. n + 1 \in 0 .. W /\ Power2[n] \in Nat /\ Power2[n + 1] = 2 * Power2[n]
    BY BitsAre, Weights
  <2>2. Value(Low(Bit, n + 1)) = Value(Low(Bit, n)) + Weight(Bit, n)
    BY <1>1, LowValue
  <2>3. Weight(Bit, n) = Power2[n] /\ Value(Low(Bit, n)) = Power2[n] - 1
    BY <1>3 DEF Weight
  <2>4. Value(Low(Bit, n + 1)) = Power2[n + 1] - 1
    BY <2>1, <2>2, <2>3
  <2>. QED BY <2>1, <2>4
<1>. HIDE DEF P
<1>4. \A n \in 0 .. W : n \in P
  BY <1>2, <1>3, BitInduction
<1>5. Low(Bit, k) \in Word
  BY <1>1, LowIs DEF W
<1>. QED BY <1>4, <1>5 DEF P

\* ~x is -x - 1.
LEMMA ValueNot ==
  ASSUME NEW x \in Word
  PROVE  Not(x) \in Word /\ Value(Not(x)) = (Power2[32] - 1) - Value(x)
<1>. DEFINE y == Not(x)
<1>1. y \in Word /\ x \cap y = {} /\ x \cup y = Bit
  BY DEF Not, Word
<1>. HIDE DEF y
<1>2. Value(x \cup y) = Value(x) + Value(y)
  BY <1>1, ValueUnion
<1>3. Low(Bit, 32) = Bit
  <2>1. Bit \in Word
    BY DEF Word
  <2>. QED BY <2>1, LowIs DEF W
<1>4. Value(Bit) = Power2[32] - 1
  <2>1. 32 \in 0 .. W
    BY DEF W
  <2>2. Value(Low(Bit, 32)) = Power2[32] - 1
    BY <2>1, ValueOnes
  <2>. QED BY <1>3, <2>2, LargeWeights
<1>5. Value(x) \in Nat /\ Value(y) \in Nat
  BY <1>1, ValueRange
<1>6. Value(y) = (Power2[32] - 1) - Value(x)
  <2>1. x \cup y = Bit
    BY <1>1
  <2>2. Value(Bit) = Value(x) + Value(y)
    BY <1>2, <2>1, Zenon
  <2>. QED BY <1>4, <1>5, <2>2, Modulus
<1>. QED BY <1>1, <1>6 DEF y

\* 1 and 0.
LEMMA ValueOne == One \in Word /\ Value(One) = 1
<1>1. One = Low(Bit, 1)
  BY BitsAre DEF One, Low
<1>2. 1 \in 0 .. W
  BY DEF W
<1>. QED BY <1>1, <1>2, ValueOnes, SmallWeights

LEMMA ValueZero == {} \in Word /\ Value({}) = 0
BY SumEmpty DEF Word, Value

\* -x.
LEMMA ValueMinus ==
  ASSUME NEW x \in Word
  PROVE  Minus(x) \in Word /\ Value(Minus(x)) = (Power2[32] - Value(x)) % Power2[32]
<1>1. One \in Word /\ Value(One) = 1
  BY ValueOne
<1>2. Not(x) \in Word /\ Value(Not(x)) = (Power2[32] - 1) - Value(x)
  BY ValueNot
<1>3. Value(Add(Not(x), One)) = (Value(Not(x)) + Value(One)) % Power2[32]
  BY <1>1, <1>2, AddValue
<1>4. Value(x) \in Nat
  BY ValueRange
<1>5. ((Power2[32] - 1) - Value(x)) + 1 = Power2[32] - Value(x)
  BY <1>4, Modulus
<1>. QED BY <1>1, <1>2, <1>3, <1>5, AddWord DEF Minus

\* A word is its low bits and the others shifted down.
LEMMA ValueSplit ==
  ASSUME NEW x \in Word, NEW n \in Bit
  PROVE  /\ ShrUnsigned(x, n) \in Word
         /\ Value(x) = Value(Low(x, n)) + Power2[n] * Value(ShrUnsigned(x, n))
<1>. DEFINE s == ShrUnsigned(x, n)
<1>0. n \in Nat /\ n < 32 /\ n \in 0 .. W
  BY BitsAre
<1>1. s \in Word /\ \A k : k \in s <=> k \in Nat /\ k + n \in x
  <2>1. \A b \in x : b \in Nat /\ b < 32
    BY BitsAre DEF Word
  <2>. QED BY <1>0, <2>1, BitsAre DEF ShrUnsigned, Word
<1>. HIDE DEF s
<1>. DEFINE P == {k \in 0 .. W : k <= 32 - n =>
                    Value(Low(x, n + k)) = Value(Low(x, n)) + Power2[n] * Value(Low(s, k))}
<1>2. 0 \in P
  <2>1. Value(Low(s, 0)) = 0 /\ n + 0 = n /\ Value(Low(x, n)) \in Nat /\ Power2[n] \in Nat
    BY <1>0, <1>1, LowValue, LowRange, Weights
  <2>2. Power2[n] * Value(Low(s, 0)) = 0
    BY <2>1
  <2>. QED BY <2>1, <2>2 DEF W
<1>3. ASSUME NEW k \in Bit, k \in P PROVE k + 1 \in P
  <2>1. k \in Nat /\ k \in 0 .. W /\ k + 1 \in 0 .. W
    BY BitsAre
  <2>. SUFFICES ASSUME k + 1 <= 32 - n
                PROVE  Value(Low(x, n + (k + 1))) = Value(Low(x, n)) + Power2[n] * Value(Low(s, k + 1))
    BY <2>1
  <2>2. n + k \in Bit /\ n + (k + 1) = (n + k) + 1 /\ k + n = n + k
    BY <1>0, <2>1, BitsAre
  <2>3. Value(Low(x, n + k)) = Value(Low(x, n)) + Power2[n] * Value(Low(s, k))
    BY <1>0, <1>3, <2>1
  <2>4. Value(Low(x, (n + k) + 1)) = Value(Low(x, n + k)) + Weight(x, n + k)
    BY <2>2, LowValue
  <2>5. Value(Low(s, k + 1)) = Value(Low(s, k)) + Weight(s, k)
    BY <1>1, LowValue
  <2>6. Power2[n] \in Nat /\ Power2[k] \in Nat /\ Power2[n + k] = Power2[n] * Power2[k]
    BY <1>0, <2>1, Weights, WeightsSum
  <2>7. Weight(x, n + k) = Power2[n] * Weight(s, k) /\ Weight(s, k) \in Nat
    <3>1. CASE k \in s
      <4>1. n + k \in x
        BY <1>1, <2>2, <3>1
      <4>. QED BY <2>6, <3>1, <4>1 DEF Weight
    <3>2. CASE k \notin s
      <4>1. n + k \notin x
        BY <1>1, <2>1, <2>2, <3>2
      <4>2. Power2[n] * 0 = 0
        BY <2>6
      <4>. QED BY <3>2, <4>1, <4>2 DEF Weight
    <3>. QED BY <3>1, <3>2
  <2>8. Value(Low(s, k)) \in Nat
    BY <1>1, <2>1, LowRange
  <2>9. Value(Low(x, n)) \in Nat
    BY <1>0, LowRange
  <2>10. Power2[n] * (Value(Low(s, k)) + Weight(s, k)) = Power2[n] * Value(Low(s, k)) + Power2[n] * Weight(s, k)
    BY <2>6, <2>7, <2>8
  <2>11. Power2[n] * Value(Low(s, k)) \in Int /\ Power2[n] * Weight(s, k) \in Int
    BY <2>6, <2>7, <2>8
  <2>. QED BY <2>2, <2>3, <2>4, <2>5, <2>7, <2>9, <2>10, <2>11
<1>. HIDE DEF P
<1>4. 32 - n \in P
  <2>1. \A k \in 0 .. W : k \in P
    BY <1>2, <1>3, BitInduction
  <2>. QED BY <1>0, <2>1 DEF W
<1>5. Low(x, n + (32 - n)) = x
  BY <1>0, LowIs DEF W
<1>6. Low(s, 32 - n) = s
  <2>1. \A b \in x : b < 32
    BY BitsAre DEF Word
  <2>. QED BY <1>0, <1>1, <2>1 DEF Low
<1>7. Value(x) = Value(Low(x, n)) + Power2[n] * Value(s)
  BY <1>0, <1>4, <1>5, <1>6 DEF P
<1>. QED BY <1>1, <1>7 DEF s

\* A word with no bit from the k-th on, and one with the last bit.
LEMMA ValueLess ==
  ASSUME NEW x \in Word, NEW k \in 0 .. W, \A b \in x : b < k
  PROVE  Value(x) \in Nat /\ Value(x) < Power2[k]
<1>1. Low(x, k) = x
  BY DEF Low
<1>. QED BY <1>1, LowRange

LEMMA ValueTop ==
  ASSUME NEW x \in Word
  PROVE  31 \in x <=> Value(x) >= Power2[31]
<1>1. 31 \in Bit /\ 31 \in 0 .. W /\ 31 + 1 = 32
  BY DEF Bit, W
<1>2. Low(x, 32) = x
  BY LowIs DEF W
<1>3. Value(x) = Value(Low(x, 31)) + Weight(x, 31)
  <2>1. Value(Low(x, 31 + 1)) = Value(Low(x, 31)) + Weight(x, 31)
    BY <1>1, LowValue
  <2>. QED BY <1>1, <1>2, <2>1
<1>4. Value(Low(x, 31)) \in Nat /\ Value(Low(x, 31)) < Power2[31]
  BY <1>1, LowRange
<1>5. Power2[31] \in Nat
  BY Weights
<1>. QED BY <1>3, <1>4, <1>5 DEF Weight

\* x << n, when no bit is lost.
LEMMA ValueShl ==
  ASSUME NEW x \in Word, NEW n \in Bit, \A b \in x : b + n < 32
  PROVE  Shl(x, n) \in Word /\ Value(Shl(x, n)) = Power2[n] * Value(x)
<1>. DEFINE s == Shl(x, n)
<1>1. n \in Nat /\ \A b \in x : b \in Nat
  BY BitsAre DEF Word
<1>2. s \in Word /\ \A k \in Nat : k \in s <=> k - n \in x
  BY <1>1, BitsAre DEF Shl, Word
<1>. HIDE DEF s
<1>3. ShrUnsigned(s, n) = x
  <2>1. \A b \in x : b + n \in s /\ (b + n) - n = b /\ b \in Bit
    BY <1>1, <1>2 DEF Word
  <2>2. \A b \in s : b \in Nat /\ b - n \in x
    BY <1>2, BitsAre DEF Word
  <2>. QED BY <2>1, <2>2 DEF ShrUnsigned
<1>4. Low(s, n) = {}
  <2>1. \A b \in s : b \in Nat /\ b - n \in x
    BY <1>2, BitsAre DEF Word
  <2>. QED BY <1>1, <2>1 DEF Low
<1>5. Value(s) = Value(Low(s, n)) + Power2[n] * Value(ShrUnsigned(s, n))
  BY <1>2, ValueSplit
<1>6. Value(Low(s, n)) = 0 /\ Power2[n] * Value(x) \in Int
  BY <1>1, <1>4, ValueZero, ValueRange, Weights
<1>7. Value(s) = Power2[n] * Value(x)
  BY <1>3, <1>5, <1>6
<1>. QED BY <1>2, <1>7 DEF s

\* The word of a number has its value.
LEMMA ValueWordOf ==
  ASSUME NEW n \in Nat, n < Power2[31]
  PROVE  /\ WordOf(n) \in Word /\ 31 \notin WordOf(n)
         /\ Value(WordOf(n)) = n
<1>. DEFINE w == WordOf(n)
<1>1. w \in Word /\ 31 \notin w /\ \A b \in 0 .. 30 : b \in w <=> (n \div Power2[b]) % 2 = 1
  BY DEF WordOf, Word, Bit, W
<1>. HIDE DEF w
<1>. DEFINE P == {k \in 0 .. W : k <= 31 => n = Value(Low(w, k)) + Power2[k] * (n \div Power2[k])}
<1>2. 0 \in P
  <2>1. n \div 1 = n /\ 1 * n = n
    OBVIOUS
  <2>2. Value(Low(w, 0)) = 0
    BY <1>1, LowValue
  <2>. QED BY <2>1, <2>2, SmallWeights DEF W
<1>3. ASSUME NEW k \in Bit, k \in P PROVE k + 1 \in P
  <2>1. k \in Nat /\ k \in 0 .. W /\ k + 1 \in 0 .. W
    BY BitsAre
  <2>. SUFFICES ASSUME k + 1 <= 31
                PROVE  n = Value(Low(w, k + 1)) + Power2[k + 1] * (n \div Power2[k + 1])
    BY <2>1
  <2>2. PICK t : t = Power2[k]
    OBVIOUS
  <2>3. t \in Nat \ {0} /\ Power2[k + 1] = t * 2
    BY <2>1, <2>2, Weights
  <2>4. PICK q : q = n \div t
    OBVIOUS
  <2>5. n \div Power2[k + 1] = q \div 2
    BY <2>3, <2>4, TwoQuotients
  <2>6. q \in Nat
    BY <2>3, <2>4, Division
  <2>7. n = Value(Low(w, k)) + t * q
    BY <1>3, <2>1, <2>2, <2>4
  <2>8. Value(Low(w, k + 1)) = Value(Low(w, k)) + Weight(w, k) /\ Value(Low(w, k)) \in Nat
    BY <1>1, <2>1, LowValue, LowRange
  <2>9. PICK h \in Nat : h = q \div 2
    BY <2>6
  <2>10. CASE q % 2 = 1
    <3>1. k \in w
      BY <1>1, <2>1, <2>2, <2>4, <2>10
    <3>2. Weight(w, k) = t
      BY <2>2, <3>1 DEF Weight
    <3>3. q = 2 * h + 1
      BY <2>6, <2>9, <2>10
    <3>4. t * q = t + (t * 2) * h /\ (t * 2) * h \in Nat
      BY <2>3, <3>3
    <3>. QED BY <2>3, <2>5, <2>7, <2>8, <2>9, <3>2, <3>4
  <2>11. CASE q % 2 # 1
    <3>1. k \notin w
      BY <1>1, <2>1, <2>2, <2>4, <2>11
    <3>2. Weight(w, k) = 0
      BY <3>1 DEF Weight
    <3>3. q = 2 * h
      BY <2>6, <2>9, <2>11
    <3>4. t * q = (t * 2) * h /\ (t * 2) * h \in Nat
      BY <2>3, <3>3
    <3>. QED BY <2>3, <2>5, <2>7, <2>8, <2>9, <3>2, <3>4
  <2>. QED BY <2>10, <2>11
<1>. HIDE DEF P
<1>4. 31 \in P
  <2>1. \A k \in 0 .. W : k \in P
    BY <1>2, <1>3, BitInduction
  <2>. QED BY <2>1 DEF W
<1>5. n = Value(Low(w, 31)) + Power2[31] * (n \div Power2[31])
  BY <1>4 DEF P
<1>6. n \div Power2[31] = 0
  <2>1. PICK m : m = Power2[31]
    OBVIOUS
  <2>2. m \in Nat /\ n < m /\ m = 128 * 256 * 256 * 256
    BY <2>1, Weights, LargeWeights
  <2>. QED BY <2>1, <2>2
<1>7. Low(w, 31) = w
  <2>1. \A b \in w : b < 31
    BY <1>1, BitsAre DEF Word
  <2>. QED BY <2>1 DEF Low
<1>8. Value(w) \in Nat /\ Power2[31] \in Nat
  BY <1>1, ValueRange, Weights
<1>9. Value(w) = n
  <2>1. Power2[31] * 0 = 0
    BY <1>8
  <2>. QED BY <1>5, <1>6, <1>7, <1>8, <2>1
<1>. QED BY <1>1, <1>9 DEF w

\* How to tell the word of a number.
LEMMA WordIs ==
  ASSUME NEW x \in Word, 31 \notin x
  PROVE  WordOf(Value(x)) = x
<1>1. Value(x) \in Nat /\ Value(x) < Power2[31]
  <2>1. 31 \in 0 .. W /\ \A b \in x : b < 31
    BY BitsAre DEF W, Word
  <2>. QED BY <2>1, ValueLess
<1>2. WordOf(Value(x)) \in Word /\ Value(WordOf(Value(x))) = Value(x)
  BY <1>1, ValueWordOf
<1>. QED BY <1>2, SameValue

\* A word that is not empty has a greatest bit.
LEMMA MaxIs ==
  ASSUME NEW x \in Word, x # {}
  PROVE  Max(x) \in x /\ Max(x) \in Bit /\ \A b \in x : b <= Max(x)
<1>. DEFINE P == {31 - b : b \in x}
<1>1. \A b \in x : b \in Nat /\ b < 32 /\ b \in Bit
  BY BitsAre DEF Word
<1>2. P \in SUBSET Nat /\ P # {}
  BY <1>1
<1>3. PICK m \in P : \A k \in P : m <= k
  BY <1>2, LeastNat
<1>4. PICK top \in x : m = 31 - top
  BY <1>3
<1>5. \A b \in x : top >= b
  <2>. SUFFICES ASSUME NEW b \in x PROVE top >= b
    OBVIOUS
  <2>1. m <= 31 - b
    BY <1>3
  <2>. QED BY <1>1, <1>4, <2>1
<1>6. Max(x) \in x /\ \A b \in x : Max(x) >= b
  BY <1>5, Zenon DEF Max
<1>. QED BY <1>1, <1>6

\* The first bit in which two words differ decides which is greater.
LEMMA GreaterIs ==
  ASSUME NEW x \in Word, NEW y \in Word, NEW m \in Bit, m \in x, m \notin y,
         \A b \in Bit : b > m => (b \in x <=> b \in y)
  PROVE  Value(x) > Value(y)
<1>. DEFINE P == {k \in 0 .. W : k > m => Value(Low(x, k)) > Value(Low(y, k))}
<1>0. m \in Nat /\ m < 32
  BY BitsAre
<1>1. 0 \in P
  BY <1>0 DEF W
<1>2. ASSUME NEW k \in Bit, k \in P PROVE k + 1 \in P
  <2>1. k \in Nat /\ k \in 0 .. W /\ k + 1 \in 0 .. W /\ Power2[k] \in Nat
    BY BitsAre, Weights
  <2>. SUFFICES ASSUME k + 1 > m PROVE Value(Low(x, k + 1)) > Value(Low(y, k + 1))
    BY <2>1
  <2>2. Value(Low(x, k + 1)) = Value(Low(x, k)) + Weight(x, k)
    BY LowValue
  <2>3. Value(Low(y, k + 1)) = Value(Low(y, k)) + Weight(y, k)
    BY LowValue
  <2>4. Value(Low(x, k)) \in Nat
    BY <2>1, LowRange
  <2>5. Value(Low(y, k)) \in Nat /\ Value(Low(y, k)) < Power2[k]
    BY <2>1, LowRange
  <2>6. CASE k = m
    <3>1. Weight(x, k) = Power2[k] /\ Weight(y, k) = 0
      BY <2>6 DEF Weight
    <3>. QED BY <2>1, <2>2, <2>3, <2>4, <2>5, <3>1
  <2>7. CASE k > m
    <3>1. Weight(x, k) = Weight(y, k) /\ Weight(x, k) \in Nat
      BY <2>1, <2>7 DEF Weight
    <3>2. Value(Low(x, k)) > Value(Low(y, k))
      BY <1>2, <2>7
    <3>. QED BY <2>2, <2>3, <2>4, <2>5, <3>1, <3>2
  <2>. QED BY <1>0, <2>1, <2>6, <2>7
<1>. HIDE DEF P
<1>3. 32 \in P
  <2>1. \A k \in 0 .. W : k \in P
    BY <1>1, <1>2, BitInduction
  <2>. QED BY <2>1 DEF W
<1>4. Low(x, 32) = x /\ Low(y, 32) = y
  <2>1. Low(x, 32) = x
    BY LowIs DEF W
  <2>2. Low(y, 32) = y
    BY LowIs DEF W
  <2>. QED BY <2>1, <2>2
<1>. QED BY <1>0, <1>3, <1>4 DEF P

\* Above compares words as unsigned numbers.
LEMMA AboveIs ==
  ASSUME NEW x \in Word, NEW y \in Word
  PROVE  Above(x, y) <=> Value(x) > Value(y)
<1>0. Value(x) \in Nat /\ Value(y) \in Nat
  <2>1. Value(x) \in Nat
    BY ValueRange
  <2>2. Value(y) \in Nat
    BY ValueRange
  <2>. QED BY <2>1, <2>2
<1>1. CASE x = y
  BY <1>0, <1>1 DEF Above
<1>2. CASE x # y
  <2>. DEFINE d == Xor(x, y)
  <2>. DEFINE m == Max(d)
  <2>1. d \in Word /\ d # {} /\ \A b : b \in d <=> (b \in x /\ b \notin y) \/ (b \in y /\ b \notin x)
    BY <1>2 DEF Xor, Word
  <2>. HIDE DEF d
  <2>2. m \in d /\ m \in Bit /\ \A b \in d : b <= m
    BY <2>1, MaxIs
  <2>. HIDE DEF m
  <2>3. \A b \in Bit : b > m => (b \in x <=> b \in y)
    <3>1. \A b \in Bit : b > m => ~ b <= m
      BY <2>2, BitsAre
    <3>. QED BY <2>1, <2>2, <3>1
  <2>4. CASE m \in x
    <3>1. m \notin y
      BY <2>1, <2>2, <2>4
    <3>2. Value(x) > Value(y)
      BY <2>2, <2>3, <2>4, <3>1, GreaterIs
    <3>. QED BY <1>2, <2>4, <3>2 DEF Above, m, d
  <2>5. CASE m \notin x
    <3>1. m \in y
      BY <2>1, <2>2, <2>5
    <3>2. Value(y) > Value(x)
      BY <2>2, <2>3, <2>5, <3>1, GreaterIs
    <3>. QED BY <1>0, <2>5, <3>2 DEF Above, m, d
  <2>. QED BY <2>4, <2>5
<1>. QED BY <1>1, <1>2

-----------------------------------------------------------------------------
(* The puzzles, for every word. *)

\* A truth value in a word.
LEMMA Flags ==
  /\ \A p, q \in BOOLEAN : Flag(p) \cap Flag(q) = Flag(p /\ q)
  /\ \A x : LNot(x) = Flag(x = {}) /\ LNot(LNot(x)) = Flag(x # {})
<1>1. \A p, q \in BOOLEAN : Flag(p) \cap Flag(q) = Flag(p /\ q)
  BY DEF Flag
<1>2. ASSUME NEW x PROVE LNot(x) = Flag(x = {}) /\ LNot(LNot(x)) = Flag(x # {})
  <2>1. CASE x = {}
    BY <2>1 DEF Flag, LNot
  <2>2. CASE x # {}
    BY <2>2 DEF Flag, LNot
  <2>. QED BY <2>1, <2>2
<1>. QED BY <1>1, <1>2

\* Shifting the sign over the word.
LEMMA SignShift ==
  ASSUME NEW x \in Word
  PROVE  Shr(x, 31) # {} <=> Negative(x)
<1>1. ShrUnsigned(x, 31) = IF 31 \in x THEN {0} ELSE {}
  <2>1. \A b \in x : b \in Nat /\ b < 32
    BY BitsAre DEF Word
  <2>2. 0 \in Bit
    BY BitsAre
  <2>. QED BY <2>1, <2>2, BitsAre DEF ShrUnsigned
<1>. QED BY <1>1 DEF Shr, W, Negative

\* y + ~x + 1 is y - x.
LEMMA Difference ==
  ASSUME NEW x \in Word, NEW y \in Word
  PROVE  /\ Add(Add(y, Not(x)), One) \in Word
         /\ Value(Add(Add(y, Not(x)), One)) =
              IF Value(y) >= Value(x) THEN Value(y) - Value(x)
              ELSE (Value(y) - Value(x)) + Power2[32]
<1>1. PICK m : m = Power2[32]
  OBVIOUS
<1>2. m = 256 * 256 * 256 * 256
  BY <1>1, Modulus
<1>3. Value(Not(x)) = (m - 1) - Value(x) /\ Not(x) \in Word
  BY <1>1, ValueNot
<1>4. Value(Add(y, Not(x))) = (Value(y) + Value(Not(x))) % m
  BY <1>1, <1>3, AddValue
<1>5. Value(Add(Add(y, Not(x)), One)) = (Value(Add(y, Not(x))) + 1) % m
  BY <1>1, AddWord, AddValue, ValueOne
<1>6. Value(x) \in Nat /\ Value(x) < m
  BY <1>1, ValueRange
<1>7. Value(y) \in Nat /\ Value(y) < m
  BY <1>1, ValueRange
<1>8. (((Value(y) + ((m - 1) - Value(x))) % m) + 1) % m =
        IF Value(y) >= Value(x) THEN Value(y) - Value(x) ELSE (Value(y) - Value(x)) + m
  <2>1. PICK p \in Nat : p = Value(x)
    BY <1>6
  <2>2. PICK q \in Nat : q = Value(y)
    BY <1>7
  <2>3. p < m /\ q < m
    BY <1>6, <1>7, <2>1, <2>2
  <2>4. (((q + ((m - 1) - p)) % m) + 1) % m = IF q >= p THEN q - p ELSE (q - p) + m
    BY ONLY p \in Nat, q \in Nat, <1>2, <2>3
  <2>. QED BY <2>1, <2>2, <2>4
<1>. QED BY <1>1, <1>3, <1>4, <1>5, <1>8, AddWord

LEMMA TminRight == tmin = {31}
BY DEF tmin, Shl, One, Bit, W

\* x and its negative are zero together.
LEMMA NegateRight ==
  ASSUME NEW x \in Word
  PROVE  Add(x, negate(x)) = {}
<1>1. PICK m : m = Power2[32]
  OBVIOUS
<1>2. m = 256 * 256 * 256 * 256
  BY <1>1, Modulus
<1>3. negate(x) \in Word /\ Value(negate(x)) = (m - Value(x)) % m
  BY <1>1, ValueMinus DEF negate, Minus
<1>4. Value(Add(x, negate(x))) = (Value(x) + Value(negate(x))) % m
  BY <1>1, <1>3, AddValue
<1>5. PICK p \in Nat : p = Value(x) /\ p < m
  BY <1>1, ValueRange
<1>6. (p + ((m - p) % m)) % m = 0
  <2>1. CASE p = 0
    BY <1>2, <2>1
  <2>2. CASE p # 0
    <3>1. (m - p) % m = m - p
      BY <1>2, <1>5, <2>2
    <3>2. p + (m - p) = m /\ m % m = 0
      BY <1>2
    <3>. QED BY <3>1, <3>2
  <2>. QED BY <2>1, <2>2
<1>7. Value(Add(x, negate(x))) = 0
  BY <1>3, <1>4, <1>5, <1>6
<1>8. Add(x, negate(x)) \in Word
  BY AddWord
<1>. QED BY <1>7, <1>8, ValueZero, SameValue

\* The value of a byte.
LEMMA ValueByte ==
  ASSUME NEW x \in Word, \A b \in x : b < 8
  PROVE  Value(x) = (IF 0 \in x THEN 1 ELSE 0) + (IF 1 \in x THEN 2 ELSE 0)
                    + (IF 2 \in x THEN 4 ELSE 0) + (IF 3 \in x THEN 8 ELSE 0)
                    + (IF 4 \in x THEN 16 ELSE 0) + (IF 5 \in x THEN 32 ELSE 0)
                    + (IF 6 \in x THEN 64 ELSE 0) + (IF 7 \in x THEN 128 ELSE 0)
<1>1. Low(x, 8) = x
  BY DEF Low
<1>2. \A k \in 0 .. 7 : Value(Low(x, k + 1)) = Value(Low(x, k)) + Weight(x, k)
  BY LowValue DEF Bit, W
<1>3. /\ Value(Low(x, 1)) = Value(Low(x, 0)) + Weight(x, 0)
      /\ Value(Low(x, 2)) = Value(Low(x, 1)) + Weight(x, 1)
      /\ Value(Low(x, 3)) = Value(Low(x, 2)) + Weight(x, 2)
      /\ Value(Low(x, 4)) = Value(Low(x, 3)) + Weight(x, 3)
  <2>1. /\ Value(Low(x, 0 + 1)) = Value(Low(x, 0)) + Weight(x, 0)
        /\ Value(Low(x, 1 + 1)) = Value(Low(x, 1)) + Weight(x, 1)
        /\ Value(Low(x, 2 + 1)) = Value(Low(x, 2)) + Weight(x, 2)
        /\ Value(Low(x, 3 + 1)) = Value(Low(x, 3)) + Weight(x, 3)
    BY <1>2
  <2>. QED BY <2>1
<1>4. /\ Value(Low(x, 5)) = Value(Low(x, 4)) + Weight(x, 4)
      /\ Value(Low(x, 6)) = Value(Low(x, 5)) + Weight(x, 5)
      /\ Value(Low(x, 7)) = Value(Low(x, 6)) + Weight(x, 6)
      /\ Value(Low(x, 8)) = Value(Low(x, 7)) + Weight(x, 7)
  <2>1. /\ Value(Low(x, 4 + 1)) = Value(Low(x, 4)) + Weight(x, 4)
        /\ Value(Low(x, 5 + 1)) = Value(Low(x, 5)) + Weight(x, 5)
        /\ Value(Low(x, 6 + 1)) = Value(Low(x, 6)) + Weight(x, 6)
        /\ Value(Low(x, 7 + 1)) = Value(Low(x, 7)) + Weight(x, 7)
    BY <1>2
  <2>. QED BY <2>1
<1>5. Value(Low(x, 0)) = 0
  BY LowValue
<1>. QED BY <1>1, <1>3, <1>4, <1>5, SmallWeights DEF Weight

\* The constants of the puzzles.
LEMMA Constants ==
  /\ WordOf(170) = {1, 3, 5, 7} /\ WordOf(17) = {0, 4}
  /\ WordOf(15) = {0, 1, 2, 3}
<1>1. \A x \in SUBSET (0 .. 7) : x \in Word /\ 31 \notin x /\ \A b \in x : b < 8
  BY DEF Word, Bit, W
<1>2. Value({1, 3, 5, 7}) = 170
  BY <1>1, ValueByte
<1>3. Value({0, 4}) = 17
  BY <1>1, ValueByte
<1>4. Value({0, 1, 2, 3}) = 15
  BY <1>1, ValueByte
<1>5. \A x \in SUBSET (0 .. 7) : WordOf(Value(x)) = x
  BY <1>1, WordIs
<1>6. {1, 3, 5, 7} \in SUBSET (0 .. 7) /\ {0, 4} \in SUBSET (0 .. 7) /\ {0, 1, 2, 3} \in SUBSET (0 .. 7)
  OBVIOUS
<1>. QED BY <1>2, <1>3, <1>4, <1>5, <1>6

LEMMA EvenBitsRight ==
  ASSUME NEW x \in Word
  PROVE  allEvenBits(x) = Flag({b \in Bit : b % 2 = 0} \subseteq x)
<1>. DEFINE aa == WordOf(170)
<1>. DEFINE half == Shl(aa, 8) \cup aa
<1>. DEFINE yy == Shl(half, 16) \cup half
<1>1. half = {1, 3, 5, 7, 9, 11, 13, 15}
  <2>1. aa = {1, 3, 5, 7}
    BY Constants
  <2>2. Shl(aa, 8) = {9, 11, 13, 15}
    BY <2>1 DEF Shl, Bit, W
  <2>. QED BY <2>1, <2>2
<1>. HIDE DEF aa, half
<1>2. Shl(half, 16) = {17, 19, 21, 23, 25, 27, 29, 31}
  BY <1>1 DEF Shl, Bit, W
<1>3. \A b \in Bit : b \in yy <=> b % 2 # 0
  BY <1>1, <1>2 DEF Bit, W
<1>4. allEvenBits(x) = Flag(Not(yy \cup x) = {})
  BY Flags DEF allEvenBits, yy, half, aa
<1>. HIDE DEF yy
<1>5. Not(yy \cup x) = {} <=> {b \in Bit : b % 2 = 0} \subseteq x
  BY <1>3 DEF Not
<1>. QED BY <1>4, <1>5

LEMMA IsNegativeRight ==
  ASSUME NEW x \in Word
  PROVE  isNegative(x) = Flag(Negative(x))
<1>1. isNegative(x) = Flag(Shr(x, 31) # {})
  BY Flags DEF isNegative
<1>. QED BY <1>1, SignShift DEF Flag

\* A power of two is what minus one leaves no common bit of.
LEMMA IsPower2Right ==
  ASSUME NEW x \in Word
  PROVE  isPower2(x) = Flag(Cardinality(x) = 1 /\ ~ Negative(x))
<1>. DEFINE less == Add(Not({}), x)
<1>1. isPower2(x) = Flag(x \cap less = {} /\ (Shr(x, 31) = {} /\ x # {}))
  <2>1. LNot(x \cap less) = Flag(x \cap less = {}) /\ LNot(Shr(x, 31)) = Flag(Shr(x, 31) = {})
        /\ LNot(LNot(x)) = Flag(x # {})
    BY Flags
  <2>2. isPower2(x) = LNot(x \cap less) \cap (LNot(Shr(x, 31)) \cap LNot(LNot(x)))
    BY DEF isPower2
  <2>. QED BY <2>1, <2>2 DEF Flag
<1>2. IsFiniteSet(x)
  BY WordFinite
<1>3. CASE x = {}
  BY <1>1, <1>3, FS_EmptySet DEF Flag
<1>4. CASE x # {}
  <2>1. \A b \in x : b \in Nat /\ b \in Bit
    BY BitsAre DEF Word
  <2>2. PICK k \in x : \A b \in x : k <= b
    <3>1. x \in SUBSET Nat
      BY <2>1
    <3>. QED BY <1>4, <3>1, LeastNat
  <2>. DEFINE others == x \ {k}
  <2>. DEFINE below == Low(Bit, k)
  <2>3. k \in Bit /\ k \in Nat /\ k \in 0 .. W
    BY <2>1, BitsAre
  <2>4. others \in Word /\ {k} \in Word /\ others \cap {k} = {} /\ others \cup {k} = x
    BY <2>1, <2>2 DEF Word
  <2>5. others \cap below = {}
    <3>1. \A b \in below : b < k
      BY DEF Low
    <3>2. \A b \in others : ~ b < k
      BY <2>1, <2>2, <2>3
    <3>. QED BY <3>1, <3>2
  <2>6. below \in Word /\ Value(below) = Power2[k] - 1
    BY <2>3, ValueOnes
  <2>7. Value({k}) = Power2[k]
    <3>1. \A b \in {} \cup {k} : Power2[b] \in Int
      BY <2>3, Weights
    <3>2. IsFiniteSet({}) /\ k \notin {} /\ {} \cup {k} = {k}
      BY FS_EmptySet
    <3>3. SumFunctionOnSet(Power2, {} \cup {k}) = Power2[k] + SumFunctionOnSet(Power2, {})
      BY <3>1, <3>2, SumAdd
    <3>4. SumFunctionOnSet(Power2, {}) = 0 /\ Power2[k] + 0 = Power2[k]
      BY <2>3, SumEmpty, Weights
    <3>. QED BY <3>2, <3>3, <3>4 DEF Value
  <2>. HIDE DEF others, below
  <2>8. Value(x) = Value(others) + Power2[k]
    <3>1. Value(others \cup {k}) = Value(others) + Value({k})
      BY <2>4, ValueUnion
    <3>. QED BY <2>4, <2>7, <3>1
  <2>9. others \cup below \in Word /\ Value(others \cup below) = Value(others) + (Power2[k] - 1)
    BY <2>4, <2>5, <2>6, ValueUnion
  <2>10. Value(others) \in Nat /\ Power2[k] \in Nat \ {0}
    BY <2>3, <2>4, ValueRange, Weights
  <2>11. Value(less) = (((Power2[32] - 1) - Value({})) + Value(x)) % Power2[32]
    <3>1. Not({}) \in Word /\ Value(Not({})) = (Power2[32] - 1) - Value({})
      BY ValueZero, ValueNot
    <3>. QED BY <3>1, AddValue
  <2>. HIDE DEF less
  <2>12. Value(less) = Value(x) - 1
    <3>1. PICK m : m = Power2[32]
      OBVIOUS
    <3>2. m = 256 * 256 * 256 * 256
      BY <3>1, Modulus
    <3>3. PICK p \in Nat \ {0} : p = Value(x) /\ p < m
      <4>1. Value(x) \in Nat \ {0}
        BY <2>8, <2>10
      <4>. QED BY <3>1, <4>1, ValueRange
    <3>4. ((m - 1) + p) % m = p - 1
      <4>1. (m - 1) + p = m + (p - 1) /\ p - 1 \in Nat /\ p - 1 < m
        BY <3>2, <3>3
      <4>2. (m + (p - 1)) % m = p - 1
        BY <3>2, <4>1
      <4>. QED BY <4>1, <4>2
    <3>5. (m - 1) - Value({}) = m - 1
      BY <3>2, ValueZero
    <3>. QED BY <2>11, <3>1, <3>3, <3>4, <3>5
  <2>13. less = others \cup below
    <3>1. less \in Word
      BY AddWord DEF less
    <3>2. Value(less) = Value(others \cup below)
      BY <2>8, <2>9, <2>10, <2>12
    <3>. QED BY <2>9, <3>1, <3>2, SameValue
  <2>14. x \cap less = others
    <3>1. k \notin below
      BY <2>3 DEF Low, below
    <3>2. \A b \in below : b \notin x
      BY <2>1, <2>2, <2>3 DEF Low, below
    <3>. QED BY <2>13, <3>1, <3>2 DEF others
  <2>15. others = {} <=> Cardinality(x) = 1
    <3>1. Cardinality(x) = 1 <=> \E a : x = {a}
      BY <1>2, FS_Singleton
    <3>2. others = {} <=> \E a : x = {a}
      BY <2>2 DEF others
    <3>. QED BY <3>1, <3>2
  <2>16. Shr(x, 31) = {} <=> ~ Negative(x)
    BY SignShift
  <2>. QED BY <1>1, <1>4, <2>14, <2>15, <2>16 DEF Flag
<1>. QED BY <1>3, <1>4

LEMMA BitAndRight ==
  ASSUME NEW x \in Word, NEW y \in Word
  PROVE  bitAnd(x, y) = x \cap y
BY DEF bitAnd, Not, Word

\* Words of one sign are compared by their difference, others by their signs.
LEMMA IsGreaterRight ==
  ASSUME NEW x \in Word, NEW y \in Word
  PROVE  isGreater(x, y) = Flag(IF Negative(x) = Negative(y) THEN Above(x, y) ELSE Negative(y))
<1>. DEFINE difference == Add(Add(y, Not(x)), One)
<1>. DEFINE judge1 == Not(Xor(x, y)) \cap difference
<1>. DEFINE judge2 == y \cap Xor(x, y)
<1>1. judge1 \cup judge2 \in Word
  BY DEF Not, Word
<1>2. isGreater(x, y) = Flag(Shr(judge1 \cup judge2, 31) # {})
  BY Flags DEF isGreater
<1>3. Shr(judge1 \cup judge2, 31) # {} <=> 31 \in judge1 \/ 31 \in judge2
  BY <1>1, SignShift DEF Negative
<1>4. 31 \in Bit
  BY BitsAre
<1>5. 31 \in judge1 \/ 31 \in judge2 <=>
        IF (31 \in x <=> 31 \in y) THEN 31 \in difference ELSE 31 \in y
  BY <1>4 DEF Not, Xor
<1>. HIDE DEF judge1, judge2
<1>6. ASSUME 31 \in x <=> 31 \in y PROVE 31 \in difference <=> Above(x, y)
  <2>1. difference \in Word
    BY AddWord
  <2>2. Value(difference) = IF Value(y) >= Value(x) THEN Value(y) - Value(x)
                            ELSE (Value(y) - Value(x)) + Power2[32]
    BY Difference
  <2>. HIDE DEF difference
  <2>3. 31 \in difference <=> Value(difference) >= Power2[31]
    BY <2>1, ValueTop
  <2>4. (31 \in x <=> Value(x) >= Power2[31]) /\ (31 \in y <=> Value(y) >= Power2[31])
    BY ValueTop
  <2>5. Value(x) \in Nat /\ Value(x) < Power2[32]
    BY ValueRange
  <2>6. Value(y) \in Nat /\ Value(y) < Power2[32]
    BY ValueRange
  <2>7. Power2[31] \in Nat \ {0} /\ Power2[32] = 2 * Power2[31]
    <3>1. Power2[31 + 1] = 2 * Power2[31] /\ Power2[31] \in Nat \ {0}
      BY Weights
    <3>. QED BY <3>1
  <2>8. Value(difference) >= Power2[31] <=> Value(x) > Value(y)
    BY <1>6, <2>2, <2>4, <2>5, <2>6, <2>7
  <2>. QED BY <2>3, <2>8, AboveIs
<1>. HIDE DEF difference
<1>. QED BY <1>2, <1>3, <1>5, <1>6 DEF Flag, Negative

\* The mask of conditional is all ones or all zeros.
LEMMA ConditionalRight ==
  ASSUME NEW x \in Word, NEW y \in Word, NEW z \in Word
  PROVE  conditional(x, y, z) = IF x # {} THEN y ELSE z
<1>1. PICK m : m = Power2[32]
  OBVIOUS
<1>2. m = 256 * 256 * 256 * 256
  BY <1>1, Modulus
<1>3. Minus({}) = {}
  <2>1. Minus({}) \in Word /\ Value(Minus({})) = (m - Value({})) % m
    BY <1>1, ValueZero, ValueMinus
  <2>2. (m - 0) % m = 0
    BY <1>2
  <2>3. Value(Minus({})) = 0
    BY <2>1, <2>2, ValueZero
  <2>. QED BY <2>1, <2>3, ValueZero, SameValue
<1>4. Minus({0}) = Bit
  <2>1. Minus(One) \in Word /\ Value(Minus(One)) = (m - Value(One)) % m
    BY <1>1, ValueOne, ValueMinus
  <2>2. Not({}) \in Word /\ Value(Not({})) = (m - 1) - Value({})
    BY <1>1, ValueZero, ValueNot
  <2>3. (m - 1) % m = m - 1 /\ (m - 1) - 0 = m - 1
    BY <1>2
  <2>4. Value(Minus(One)) = Value(Not({}))
    BY <2>1, <2>2, <2>3, ValueOne, ValueZero
  <2>5. Minus(One) = Not({})
    BY <2>1, <2>2, <2>4, SameValue
  <2>. QED BY <2>5 DEF Not, One
<1>5. conditional(x, y, z) = (Minus(Flag(x # {})) \cap y) \cup (Not(Minus(Flag(x # {}))) \cap z)
  BY Flags DEF conditional
<1>6. CASE x = {}
  BY <1>3, <1>5, <1>6 DEF Flag, Not, Word
<1>7. CASE x # {}
  BY <1>4, <1>5, <1>7 DEF Flag, Not, Word
<1>. QED BY <1>6, <1>7

\* The number of bits shifted in: 31 - n.
LEMMA LogicalShiftRight ==
  ASSUME NEW x \in Word, NEW n \in Bit
  PROVE  logicalShift(x, n) = ShrUnsigned(x, n)
<1>. DEFINE con2 == Value(Add(Add(WordOf(31), Not(WordOf(n))), One))
<1>1. n \in Nat /\ n < 32
  BY BitsAre
<1>2. Power2[31] > 31
  BY LargeWeights
<1>3. WordOf(n) \in Word /\ Value(WordOf(n)) = n /\ WordOf(31) \in Word /\ Value(WordOf(31)) = 31
  <2>1. n < Power2[31]
    BY <1>1, LargeWeights
  <2>. QED BY <1>1, <1>2, <2>1, ValueWordOf
<1>4. con2 = 31 - n
  <2>1. con2 = IF Value(WordOf(31)) >= Value(WordOf(n)) THEN Value(WordOf(31)) - Value(WordOf(n))
               ELSE (Value(WordOf(31)) - Value(WordOf(n))) + Power2[32]
    BY <1>3, Difference
  <2>. HIDE DEF con2
  <2>. QED BY <1>1, <1>3, <2>1
<1>5. logicalShift(x, n) =
        (Xor(Not({}), Shl(Not({}), con2)) \cap Shr(x, n)) \cup (Shl(One, con2) \cap Shr(x, n))
  BY DEF logicalShift
<1>. HIDE DEF con2
<1>6. Shl(One, con2) = {31 - n}
  <2>1. 0 + (31 - n) = 31 - n /\ 31 - n \in Bit
    BY <1>1, BitsAre
  <2>. QED BY <1>4, <2>1 DEF Shl, One
<1>7. \A b \in Bit : b \in Shl(Not({}), con2) <=> b >= 31 - n
  <2>1. ASSUME NEW b \in Bit PROVE b \in Shl(Not({}), con2) <=> b >= 31 - n
    <3>1. b \in Shl(Not({}), con2) <=> \E a \in Bit : b = a + (31 - n)
      BY <1>4 DEF Shl, Not
    <3>2. b \in Nat /\ b < 32
      BY BitsAre
    <3>3. ASSUME b >= 31 - n PROVE \E a \in Bit : b = a + (31 - n)
      <4>1. b - (31 - n) \in Bit /\ b = (b - (31 - n)) + (31 - n)
        BY <1>1, <3>2, <3>3, BitsAre
      <4>. QED BY <4>1
    <3>4. ASSUME NEW a \in Bit, b = a + (31 - n) PROVE b >= 31 - n
      BY <1>1, <3>2, <3>4, BitsAre
    <3>. QED BY <3>1, <3>3, <3>4
  <2>. QED BY <2>1
<1>8. \A b \in Bit : b \in Shr(x, n) /\ b <= 31 - n <=> b \in ShrUnsigned(x, n)
  <2>1. \A b \in x : b \in Nat /\ b < 32
    BY BitsAre DEF Word
  <2>2. \A b \in ShrUnsigned(x, n) : b <= 31 - n
    BY <1>1, <2>1 DEF ShrUnsigned
  <2>3. \A b \in 32 - n .. 31 : ~ b <= 31 - n
    BY <1>1
  <2>. QED BY <2>2, <2>3 DEF Shr, W
<1>9. ShrUnsigned(x, n) \subseteq Bit
  BY DEF ShrUnsigned
<1>10. \A b \in Bit : b \in Xor(Not({}), Shl(Not({}), con2)) <=> ~ b >= 31 - n
  BY <1>7 DEF Xor, Not, Shl
<1>11. logicalShift(x, n) \subseteq Bit
  BY <1>5, <1>6, <1>1, BitsAre DEF Xor, Not, Shl
<1>12. \A b \in Bit : b <= 31 - n <=> ~ b >= 31 - n \/ b = 31 - n
  BY <1>1, BitsAre
<1>13. \A b \in Bit : b \in logicalShift(x, n) <=> b \in ShrUnsigned(x, n)
  BY <1>5, <1>6, <1>8, <1>10, <1>12
<1>. QED BY <1>9, <1>11, <1>13

\* x fits n + 1 bits when the bits from the n-th on are its sign.
LEMMA FitsBitsRight ==
  ASSUME NEW x \in Word, NEW n \in Bit
  PROVE  fitsBits(x, n + 1) = Flag(\A b \in n .. 31 : b \in x <=> Negative(x))
<1>. DEFINE shifts == Value(Add(Add(WordOf(n + 1), Not(One)), One))
<1>1. n \in Nat /\ n < 32
  BY BitsAre
<1>2. WordOf(n + 1) \in Word /\ Value(WordOf(n + 1)) = n + 1
  <2>1. n + 1 \in Nat /\ n + 1 < Power2[31]
    BY <1>1, LargeWeights
  <2>. QED BY <2>1, ValueWordOf
<1>3. shifts = n
  <2>1. shifts = IF Value(WordOf(n + 1)) >= Value(One) THEN Value(WordOf(n + 1)) - Value(One)
                 ELSE (Value(WordOf(n + 1)) - Value(One)) + Power2[32]
    BY <1>2, ValueOne, Difference
  <2>. HIDE DEF shifts
  <2>. QED BY <1>1, <1>2, <2>1, ValueOne
<1>. DEFINE s == Shr(x, n)
<1>4. fitsBits(x, n + 1) = Xor(Flag(s = {}), Flag(Not(s) = {}))
  BY <1>3, Flags DEF fitsBits
<1>5. ASSUME NEW b \in Bit
      PROVE  b \in s <=> b + n \in x \/ (31 \in x /\ b >= 32 - n)
  <2>1. b \in ShrUnsigned(x, n) <=> b + n \in x
    <3>1. \A a \in x : a \in Nat
      BY BitsAre DEF Word
    <3>2. b \in ShrUnsigned(x, n) <=> \E a \in x : b = a - n
      BY DEF ShrUnsigned
    <3>3. b \in Nat /\ b = (b + n) - n
      BY <1>1, BitsAre
    <3>4. \A a \in x : b = a - n => a = b + n
      BY <1>1, <3>1, <3>3
    <3>. QED BY <3>2, <3>3, <3>4
  <2>2. b \in 32 - n .. 31 <=> b >= 32 - n
    BY <1>1, BitsAre
  <2>. QED BY <2>1, <2>2 DEF Shr, W
<1>6. s \subseteq Bit
  BY <1>1, BitsAre DEF Shr, ShrUnsigned, W
<1>. HIDE DEF s
<1>7. 31 - n \in Bit /\ (31 - n) + n = 31 /\ 31 \in Bit /\ ~ 31 - n >= 32 - n
  BY <1>1, BitsAre
<1>8. \A b \in n .. 31 : b - n \in Bit /\ (b - n) + n = b /\ ~ b - n >= 32 - n
  BY <1>1, BitsAre
<1>9. \A b \in Bit : ~ b >= 32 - n => b + n \in n .. 31
  BY <1>1, BitsAre
<1>10. CASE 31 \in x
  <2>1. s # {}
    BY <1>5, <1>7, <1>10
  <2>2. Not(s) = {} <=> \A b \in n .. 31 : b \in x
    <3>1. ASSUME \A b \in n .. 31 : b \in x PROVE Not(s) = {}
      BY <1>5, <1>9, <1>10, <3>1 DEF Not
    <3>2. ASSUME Not(s) = {}, NEW b \in n .. 31 PROVE b \in x
      BY <1>5, <1>8, <3>2 DEF Not
    <3>. QED BY <3>1, <3>2
  <2>. QED BY <1>4, <1>10, <2>1, <2>2 DEF Flag, Xor, Negative
<1>11. CASE 31 \notin x
  <2>1. Not(s) # {}
    BY <1>5, <1>7, <1>11 DEF Not
  <2>2. s = {} <=> \A b \in n .. 31 : b \notin x
    <3>1. ASSUME \A b \in n .. 31 : b \notin x PROVE s = {}
      <4>1. ASSUME NEW b \in s PROVE FALSE
        <5>1. b \in Bit /\ b + n \in x
          BY <1>5, <1>6, <1>11, <4>1
        <5>2. b \in Nat /\ b + n < 32
          <6>1. \A a \in x : a < 32
            BY BitsAre DEF Word
          <6>. QED BY <5>1, <6>1, BitsAre
        <5>. QED BY <1>1, <3>1, <5>1, <5>2
      <4>. QED BY <4>1
    <3>2. ASSUME s = {}, NEW b \in n .. 31 PROVE b \notin x
      BY <1>5, <1>8, <3>2
    <3>. QED BY <3>1, <3>2
  <2>. QED BY <1>4, <1>11, <2>1, <2>2 DEF Flag, Xor, Negative
<1>. QED BY <1>10, <1>11

\* The bits of x and the r below each of them.
Smeared(x, h) == {b \in Bit : \E a \in x : b <= a /\ a <= b + h}

\* Shifting by at most one more than that makes no hole.
LEMMA Smear ==
  ASSUME NEW x \in Word, NEW h \in Nat, NEW n \in Bit, n <= h + 1
  PROVE  Smeared(x, h) \cup Shr(Smeared(x, h), n) = Smeared(x, h + n)
<1>. DEFINE s == Smeared(x, h)
<1>. DEFINE t == Smeared(x, h + n)
<1>1. n \in Nat /\ n < 32 /\ \A b \in x : b \in Nat /\ b < 32
  BY BitsAre DEF Word
<1>2. \A b : b \in s <=> b \in Nat /\ b < 32 /\ \E a \in x : b <= a /\ a <= b + h
  BY BitsAre DEF Smeared
<1>3. \A b : b \in t <=> b \in Nat /\ b < 32 /\ \E a \in x : b <= a /\ a <= b + (h + n)
  BY BitsAre DEF Smeared
<1>4. \A b : b \in ShrUnsigned(s, n) <=> b \in Nat /\ b < 32 /\ b + n \in s
  <2>1. \A b \in s : b \in Nat /\ b < 32
    BY <1>2
  <2>. HIDE DEF s
  <2>2. ASSUME NEW b PROVE b \in ShrUnsigned(s, n) <=> b \in Nat /\ b < 32 /\ b + n \in s
    <3>1. b \in ShrUnsigned(s, n) <=> b \in Nat /\ b < 32 /\ \E a \in s : b = a - n
      BY BitsAre DEF ShrUnsigned
    <3>2. ASSUME NEW a \in s, b = a - n, b \in Nat PROVE b + n \in s
      <4>1. b + n = a
        BY <1>1, <2>1, <3>2
      <4>. QED BY <4>1
    <3>3. ASSUME b \in Nat, b + n \in s PROVE \E a \in s : b = a - n
      <4>1. b = (b + n) - n
        BY <1>1, <3>3
      <4>. QED BY <3>3, <4>1
    <3>. QED BY <3>1, <3>2, <3>3
  <2>. QED BY <2>2
<1>5. 31 \in s <=> 31 \in x
  BY <1>1, <1>2
<1>. HIDE DEF s, t
<1>6. Shr(s, n) = ShrUnsigned(s, n) \cup (IF 31 \in s THEN 32 - n .. 31 ELSE {})
  BY DEF Shr, W
<1>7. ASSUME NEW b \in s \cup Shr(s, n) PROVE b \in t
  <2>1. CASE b \in s
    <3>1. PICK a \in x : b <= a /\ a <= b + h
      BY <1>2, <2>1
    <3>2. b \in Nat /\ b < 32 /\ a <= b + (h + n)
      BY <1>1, <1>2, <2>1, <3>1
    <3>. QED BY <1>3, <3>1, <3>2
  <2>2. CASE b \in ShrUnsigned(s, n)
    <3>1. b \in Nat /\ b < 32 /\ b + n \in s
      BY <1>4, <2>2
    <3>2. PICK a \in x : b + n <= a /\ a <= (b + n) + h
      BY <1>2, <3>1
    <3>3. b <= a /\ a <= b + (h + n)
      BY <1>1, <3>1, <3>2
    <3>. QED BY <1>3, <3>1, <3>2, <3>3
  <2>3. CASE 31 \in s /\ b \in 32 - n .. 31
    <3>1. b \in Nat /\ b < 32 /\ b <= 31 /\ 31 <= b + (h + n)
      BY <1>1, <2>3
    <3>. QED BY <1>3, <1>5, <2>3, <3>1
  <2>. QED BY <1>6, <1>7, <2>1, <2>2, <2>3
<1>8. ASSUME NEW b \in t PROVE b \in s \cup Shr(s, n)
  <2>1. b \in Nat /\ b < 32
    BY <1>3, <1>8
  <2>2. PICK a \in x : b <= a /\ a <= b + (h + n)
    BY <1>3, <1>8
  <2>3. a \in Nat /\ a < 32
    BY <1>1
  <2>4. CASE a <= b + h
    BY <1>2, <2>1, <2>2, <2>4
  <2>5. CASE ~ a <= b + h
    <3>1. b + n \in Nat /\ b + n <= a /\ a <= (b + n) + h /\ b + n < 32
      BY <1>1, <2>1, <2>2, <2>3, <2>5
    <3>2. b + n \in s
      BY <1>2, <2>3, <3>1
    <3>3. b \in ShrUnsigned(s, n)
      BY <1>4, <2>1, <3>2
    <3>. QED BY <1>6, <3>3
  <2>. QED BY <2>4, <2>5
<1>9. s \cup Shr(s, n) = t
  BY <1>7, <1>8
<1>. QED BY <1>9 DEF s, t

LEMMA GreatestBitPosRight ==
  ASSUME NEW x \in Word
  PROVE  greatestBitPos(x) = IF x = {} THEN {} ELSE {Max(x)}
<1>. DEFINE a1 == x \cup Shr(x, 1)
<1>. DEFINE a2 == a1 \cup Shr(a1, 2)
<1>. DEFINE a4 == a2 \cup Shr(a2, 4)
<1>. DEFINE a8 == a4 \cup Shr(a4, 8)
<1>. DEFINE all == a8 \cup Shr(a8, 16)
<1>1. greatestBitPos(x) = (Xor(all, Shr(all, 1)) \cup Shl(One, 31)) \cap all
  BY DEF greatestBitPos
<1>2. 1 \in Bit /\ 2 \in Bit /\ 4 \in Bit /\ 8 \in Bit /\ 16 \in Bit
  BY BitsAre
<1>3. Smeared(x, 0) = x
  <2>1. \A b \in x : b \in Bit /\ b <= b /\ b <= b + 0
    BY BitsAre DEF Word
  <2>2. ASSUME NEW b \in Bit, NEW e \in x, b <= e, e <= b + 0 PROVE b = e
    BY <2>1, <2>2, BitsAre
  <2>. QED BY <2>1, <2>2 DEF Smeared
<1>4. a1 = Smeared(x, 1)
  <2>1. Smeared(x, 0) \cup Shr(Smeared(x, 0), 1) = Smeared(x, 0 + 1)
    BY <1>2, Smear
  <2>. QED BY <1>3, <2>1
<1>. HIDE DEF a1
<1>5. a2 = Smeared(x, 3)
  <2>1. Smeared(x, 1) \cup Shr(Smeared(x, 1), 2) = Smeared(x, 1 + 2)
    BY <1>2, Smear
  <2>. QED BY <1>4, <2>1
<1>. HIDE DEF a2
<1>6. a4 = Smeared(x, 7)
  <2>1. Smeared(x, 3) \cup Shr(Smeared(x, 3), 4) = Smeared(x, 3 + 4)
    BY <1>2, Smear
  <2>. QED BY <1>5, <2>1
<1>. HIDE DEF a4
<1>7. a8 = Smeared(x, 15)
  <2>1. Smeared(x, 7) \cup Shr(Smeared(x, 7), 8) = Smeared(x, 7 + 8)
    BY <1>2, Smear
  <2>. QED BY <1>6, <2>1
<1>. HIDE DEF a8
<1>8. all = Smeared(x, 31)
  <2>1. Smeared(x, 15) \cup Shr(Smeared(x, 15), 16) = Smeared(x, 15 + 16)
    BY <1>2, Smear
  <2>. QED BY <1>7, <2>1
<1>. HIDE DEF all
<1>9. CASE x = {}
  <2>1. all = {}
    BY <1>8, <1>9 DEF Smeared
  <2>. QED BY <1>1, <1>9, <2>1
<1>10. CASE x # {}
  <2>1. PICK m : m = Max(x)
    OBVIOUS
  <2>2. m \in x /\ m \in Nat /\ m < 32 /\ \A a \in x : a \in Nat /\ a <= m
    BY <1>10, <2>1, MaxIs, BitsAre DEF Word
  <2>3. \A b : b \in all <=> b \in 0 .. m
    <3>1. \A b \in Bit : b <= m => b <= m /\ m <= b + 31
      BY <2>2, BitsAre
    <3>2. \A b \in Bit : \A a \in x : b <= a => b <= m
      BY <2>2, BitsAre
    <3>3. \A b : b \in all <=> b \in Bit /\ b <= m
      BY <1>8, <2>2, <3>1, <3>2 DEF Smeared
    <3>. QED BY <2>2, <3>3, BitsAre
  <2>4. Shl(One, 31) = {31}
    BY TminRight DEF tmin
  <2>5. \A b : b \in ShrUnsigned(all, 1) <=> b \in 0 .. m - 1
    <3>1. ASSUME NEW b \in 0 .. m - 1 PROVE b \in ShrUnsigned(all, 1)
      <4>1. b + 1 \in all /\ b = (b + 1) - 1 /\ b \in Bit
        BY <2>2, <2>3, <3>1, BitsAre
      <4>. QED BY <4>1 DEF ShrUnsigned
    <3>2. ASSUME NEW b \in ShrUnsigned(all, 1) PROVE b \in 0 .. m - 1
      <4>1. PICK a \in all : b = a - 1 /\ b \in Nat
        BY <3>2, BitsAre DEF ShrUnsigned
      <4>. QED BY <2>2, <2>3, <4>1
    <3>. QED BY <3>1, <3>2
  <2>6. CASE m = 31
    <3>1. Shr(all, 1) = ShrUnsigned(all, 1) \cup {31}
      <4>1. 31 \in all /\ 32 - 1 .. 31 = {31}
        BY <2>3, <2>6
      <4>. QED BY <4>1 DEF Shr, W
    <3>2. \A b : b \in Shr(all, 1) <=> b \in all
      BY <2>3, <2>5, <2>6, <3>1
    <3>3. greatestBitPos(x) = {31}
      BY <1>1, <2>3, <2>4, <2>6, <3>2 DEF Xor
    <3>. QED BY <1>10, <2>1, <2>6, <3>3
  <2>7. CASE m # 31
    <3>1. Shr(all, 1) = ShrUnsigned(all, 1)
      <4>1. 31 \notin all
        BY <2>2, <2>3, <2>7
      <4>. QED BY <4>1 DEF Shr, W
    <3>2. \A b : b \in Xor(all, Shr(all, 1)) <=> b = m
      BY <2>2, <2>3, <2>5, <3>1 DEF Xor
    <3>3. m \in all /\ 31 \notin all
      BY <2>2, <2>3, <2>7
    <3>4. greatestBitPos(x) = {m}
      BY <1>1, <2>4, <3>2, <3>3
    <3>. QED BY <1>10, <2>1, <3>4
  <2>. QED BY <2>6, <2>7
<1>. QED BY <1>9, <1>10

\* A fraction that is not zero under an exponent of ones makes a NaN.
LEMMA FloatAbsRight ==
  ASSUME NEW x \in Word
  PROVE  float_abs(x) = IF 23 .. 30 \subseteq x /\ x \cap (0 .. 22) # {} THEN x ELSE x \ {31}
<1>. DEFINE least == {0} \cup 23 .. 30
<1>. DEFINE tempt == x \cap (0 .. 30)
<1>. DEFINE d == Xor(tempt, least)
<1>1. \A b \in x : b \in Nat /\ b < 32
  BY BitsAre DEF Word
<1>2. tempt = x \ {31}
  BY <1>1
<1>3. float_abs(x) = IF Above(tempt, least) \/ tempt = least THEN x ELSE tempt
  BY DEF float_abs
<1>4. d \in Word /\ (tempt # least <=> d # {})
  BY BitsAre DEF Xor, Word
<1>5. \A b : b \in d <=> (b \in tempt /\ b \notin least) \/ (b \in least /\ b \notin tempt)
  BY DEF Xor
<1>6. d # {} => Max(d) \in d /\ \A b \in d : b <= Max(d)
  BY <1>4, MaxIs
<1>7. Above(tempt, least) <=> d # {} /\ Max(d) \in tempt
  BY <1>4 DEF Above
<1>8. (\A b : b \in tempt <=> b \in x /\ b \in 0 .. 30) /\ (\A b : b \in least <=> b = 0 \/ b \in 23 .. 30)
  OBVIOUS
<1>. HIDE DEF tempt, least, d
<1>9. CASE 23 .. 30 \subseteq x /\ x \cap (0 .. 22) # {}
  <2>1. \A b \in d : b \in 0 .. 22
    BY <1>5, <1>8, <1>9
  <2>2. ASSUME d # {} PROVE Max(d) \in tempt
    <3>1. PICK a \in x : a \in 0 .. 22
      BY <1>9
    <3>2. PICK m : m = Max(d)
      OBVIOUS
    <3>3. m \in d /\ (\A b \in d : b <= m) /\ m \in 0 .. 22
      BY <1>6, <2>1, <2>2, <3>2
    <3>4. CASE m # 0
      BY <1>5, <1>8, <3>2, <3>3, <3>4
    <3>5. CASE m = 0
      <4>1. a = 0 \/ a \in d
        BY <1>5, <1>8, <3>1
      <4>2. a = 0
        BY <3>1, <3>3, <3>5, <4>1
      <4>. QED BY <1>8, <3>1, <3>2, <3>5, <4>2
    <3>. QED BY <3>4, <3>5
  <2>. QED BY <1>3, <1>4, <1>7, <1>9, <2>2
<1>10. CASE ~ 23 .. 30 \subseteq x
  <2>1. PICK a \in 23 .. 30 : a \notin x
    BY <1>10
  <2>2. a \in d
    BY <1>5, <1>8, <2>1
  <2>3. PICK m : m = Max(d)
    OBVIOUS
  <2>4. m \in d /\ a <= m
    BY <1>6, <2>2, <2>3
  <2>5. m \in 0 .. 30
    BY <1>5, <1>8, <2>4
  <2>6. m \in least
    BY <1>8, <2>1, <2>4, <2>5
  <2>7. m \notin tempt
    BY <1>5, <2>4, <2>6
  <2>. QED BY <1>2, <1>3, <1>4, <1>7, <1>10, <2>2, <2>3, <2>7
<1>11. CASE 23 .. 30 \subseteq x /\ x \cap (0 .. 22) = {}
  <2>1. \A b : b \in d <=> b = 0
    BY <1>5, <1>8, <1>11
  <2>2. d # {} /\ Max(d) = 0
    BY <1>6, <2>1
  <2>3. 0 \notin tempt
    BY <1>8, <1>11
  <2>. QED BY <1>2, <1>3, <1>4, <1>7, <1>11, <2>2, <2>3
<1>. QED BY <1>9, <1>10, <1>11

\* A sum that does not leave the word.
LEMMA SmallSum ==
  ASSUME NEW x \in Word, NEW y \in Word, Value(x) + Value(y) < Power2[32]
  PROVE  Add(x, y) \in Word /\ Value(Add(x, y)) = Value(x) + Value(y)
<1>1. PICK m : m = Power2[32]
  OBVIOUS
<1>2. m = 256 * 256 * 256 * 256
  BY <1>1, Modulus
<1>3. Value(x) \in Nat
  BY ValueRange
<1>4. Value(y) \in Nat
  BY ValueRange
<1>5. PICK t \in Nat : t = Value(x) + Value(y)
  BY <1>3, <1>4
<1>6. t % m = t
  BY <1>1, <1>2, <1>5
<1>7. Value(Add(x, y)) = t % m
  BY <1>1, <1>5, AddValue
<1>. QED BY <1>5, <1>6, <1>7, AddWord

\* Bits that are missing add nothing.
LEMMA LowGap ==
  ASSUME NEW x \in Word, NEW j \in Nat, NEW k \in Nat, j <= k, \A b \in x : b < j \/ b >= k
  PROVE  Low(x, k) = Low(x, j)
<1>1. \A b \in x : b \in Nat
  BY BitsAre DEF Word
<1>2. \A b \in x : b < k <=> b < j
  BY <1>1
<1>. QED BY <1>2 DEF Low

\* 1 for a bit that is set, and how many of four are.
Ones(x, b) == IF b \in x THEN 1 ELSE 0
Nibble(x, b) == Ones(x, b) + Ones(x, b + 1) + Ones(x, b + 2) + Ones(x, b + 3)

LEMMA NibbleRange == \A x, b : Ones(x, b) \in 0 .. 1 /\ Nibble(x, b) \in 0 .. 4
<1>1. \A x, b : Ones(x, b) \in 0 .. 1
  BY DEF Ones
<1>2. ASSUME NEW x, NEW b PROVE Nibble(x, b) \in 0 .. 4
  BY <1>1 DEF Nibble
<1>. QED BY <1>1, <1>2

\* Every fourth bit, and the number that four of them make, from b on.
Fourth(x, b) ==
  Ones(x, b) + 16 * Ones(x, b + 4) + 256 * Ones(x, b + 8) + (16 * 256) * Ones(x, b + 12)

Fourths == {0, 4, 8, 12, 16, 20, 24, 28}

LEMMA ValueFourths ==
  ASSUME NEW t \in Word, t \subseteq Fourths
  PROVE  Value(t) = Fourth(t, 0) + (256 * 256) * Fourth(t, 16)
<1>1. \A b \in t : b \in {0, 4, 8, 12, 16, 20, 24, 28}
  BY DEF Fourths
<1>2. /\ Low(t, 4) = Low(t, 1) /\ Low(t, 8) = Low(t, 5)
      /\ Low(t, 12) = Low(t, 9) /\ Low(t, 16) = Low(t, 13)
  <2>1. \A b \in t : (b < 1 \/ b >= 4) /\ (b < 5 \/ b >= 8) /\ (b < 9 \/ b >= 12) /\ (b < 13 \/ b >= 16)
    BY <1>1
  <2>. QED BY <2>1, LowGap
<1>3. /\ Low(t, 20) = Low(t, 17) /\ Low(t, 24) = Low(t, 21)
      /\ Low(t, 28) = Low(t, 25) /\ Low(t, 32) = Low(t, 29)
  <2>1. \A b \in t : (b < 17 \/ b >= 20) /\ (b < 21 \/ b >= 24) /\ (b < 25 \/ b >= 28) /\ (b < 29 \/ b >= 32)
    BY <1>1
  <2>. QED BY <2>1, LowGap
<1>4. \A k \in Bit : Value(Low(t, k + 1)) = Value(Low(t, k)) + Weight(t, k)
  BY LowValue
<1>5. /\ Value(Low(t, 1)) = Value(Low(t, 0)) + Weight(t, 0)
      /\ Value(Low(t, 5)) = Value(Low(t, 4)) + Weight(t, 4)
      /\ Value(Low(t, 9)) = Value(Low(t, 8)) + Weight(t, 8)
      /\ Value(Low(t, 13)) = Value(Low(t, 12)) + Weight(t, 12)
  <2>1. 0 \in Bit /\ 4 \in Bit /\ 8 \in Bit /\ 12 \in Bit
    BY BitsAre
  <2>2. /\ Value(Low(t, 0 + 1)) = Value(Low(t, 0)) + Weight(t, 0)
        /\ Value(Low(t, 4 + 1)) = Value(Low(t, 4)) + Weight(t, 4)
        /\ Value(Low(t, 8 + 1)) = Value(Low(t, 8)) + Weight(t, 8)
        /\ Value(Low(t, 12 + 1)) = Value(Low(t, 12)) + Weight(t, 12)
    BY <1>4, <2>1
  <2>. QED BY <2>2
<1>6. /\ Value(Low(t, 17)) = Value(Low(t, 16)) + Weight(t, 16)
      /\ Value(Low(t, 21)) = Value(Low(t, 20)) + Weight(t, 20)
      /\ Value(Low(t, 25)) = Value(Low(t, 24)) + Weight(t, 24)
      /\ Value(Low(t, 29)) = Value(Low(t, 28)) + Weight(t, 28)
  <2>1. 16 \in Bit /\ 20 \in Bit /\ 24 \in Bit /\ 28 \in Bit
    BY BitsAre
  <2>2. /\ Value(Low(t, 16 + 1)) = Value(Low(t, 16)) + Weight(t, 16)
        /\ Value(Low(t, 20 + 1)) = Value(Low(t, 20)) + Weight(t, 20)
        /\ Value(Low(t, 24 + 1)) = Value(Low(t, 24)) + Weight(t, 24)
        /\ Value(Low(t, 28 + 1)) = Value(Low(t, 28)) + Weight(t, 28)
    BY <1>4, <2>1
  <2>. QED BY <2>2
<1>7. Value(Low(t, 0)) = 0 /\ Low(t, 32) = t
  <2>1. Low(t, W) = t
    BY LowIs
  <2>. QED BY <2>1, LowValue DEF W
<1>8. /\ Weight(t, 0) = Ones(t, 0) /\ Weight(t, 4) = 16 * Ones(t, 4)
      /\ Weight(t, 8) = 256 * Ones(t, 8)
  BY SmallWeights DEF Weight, Ones
<1>9. Weight(t, 12) = (16 * 256) * Ones(t, 12) /\ Weight(t, 16) = (256 * 256) * Ones(t, 16)
  BY LargeWeights DEF Weight, Ones
<1>10. Weight(t, 20) = (256 * 256) * (16 * Ones(t, 20)) /\ Weight(t, 24) = (256 * 256) * (256 * Ones(t, 24))
  BY LargeWeights DEF Weight, Ones
<1>11. Weight(t, 28) = (256 * 256) * ((16 * 256) * Ones(t, 28))
  BY LargeWeights DEF Weight, Ones
<1>12. /\ Ones(t, 0) \in Int /\ Ones(t, 4) \in Int /\ Ones(t, 8) \in Int /\ Ones(t, 12) \in Int
       /\ Ones(t, 16) \in Int /\ Ones(t, 20) \in Int /\ Ones(t, 24) \in Int /\ Ones(t, 28) \in Int
  BY NibbleRange
<1>13. Value(Low(t, 13)) = Ones(t, 0) + 16 * Ones(t, 4) + 256 * Ones(t, 8) + (16 * 256) * Ones(t, 12)
  BY <1>2, <1>5, <1>7, <1>8, <1>9, <1>12
<1>14. Value(Low(t, 29)) = Value(Low(t, 13)) + (256 * 256) * (Ones(t, 16) + 16 * Ones(t, 20) + 256 * Ones(t, 24)
                                     + (16 * 256) * Ones(t, 28))
  BY <1>2, <1>3, <1>6, <1>9, <1>10, <1>11, <1>12, <1>13
<1>15. /\ Fourth(t, 0) = Ones(t, 0) + 16 * Ones(t, 4) + 256 * Ones(t, 8) + (16 * 256) * Ones(t, 12)
       /\ Fourth(t, 16) = Ones(t, 16) + 16 * Ones(t, 20) + 256 * Ones(t, 24)
                            + (16 * 256) * Ones(t, 28)
  BY DEF Fourth
<1>. QED BY <1>3, <1>7, <1>13, <1>14, <1>15

\* Counting the bits of a word four by four.
LEMMA CountNibbles ==
  ASSUME NEW x \in Word
  PROVE  Cardinality(x) = Nibble(x, 0) + Nibble(x, 4) + Nibble(x, 8) + Nibble(x, 12)
                          + Nibble(x, 16) + Nibble(x, 20) + Nibble(x, 24) + Nibble(x, 28)
<1>1. ASSUME NEW k \in Bit
      PROVE  /\ Cardinality(Low(x, k)) \in Nat
             /\ Cardinality(Low(x, k + 1)) = Cardinality(Low(x, k)) + Ones(x, k)
  <2>1. Low(x, k) \in Word /\ IsFiniteSet(Low(x, k)) /\ k \notin Low(x, k)
    BY LowIs, WordFinite, BitsAre DEF Low
  <2>2. Cardinality(Low(x, k)) \in Nat
    BY <2>1, FS_CardinalityType
  <2>3. Cardinality(Low(x, k) \cup {k}) = Cardinality(Low(x, k)) + 1
    BY <2>1, FS_AddElement
  <2>4. Low(x, k + 1) = IF k \in x THEN Low(x, k) \cup {k} ELSE Low(x, k)
    BY LowIs
  <2>5. CASE k \in x
    BY <2>2, <2>3, <2>4, <2>5 DEF Ones
  <2>6. CASE k \notin x
    <3>1. Low(x, k + 1) = Low(x, k) /\ Ones(x, k) = 0
      BY <2>4, <2>6 DEF Ones
    <3>. QED BY <2>2, <3>1
  <2>. QED BY <2>5, <2>6
<1>2. ASSUME NEW k \in 0 .. 28
      PROVE  /\ Cardinality(Low(x, k)) \in Nat
             /\ Cardinality(Low(x, k + 4)) = Cardinality(Low(x, k)) + Nibble(x, k)
  <2>1. k \in Bit /\ k + 1 \in Bit /\ k + 2 \in Bit /\ k + 3 \in Bit
    BY BitsAre
  <2>2. (k + 1) + 1 = k + 2 /\ (k + 2) + 1 = k + 3 /\ (k + 3) + 1 = k + 4
    OBVIOUS
  <2>3. Cardinality(Low(x, k)) \in Nat /\ Cardinality(Low(x, k + 1)) = Cardinality(Low(x, k)) + Ones(x, k)
    BY <1>1, <2>1
  <2>4. Cardinality(Low(x, k + 2)) = Cardinality(Low(x, k + 1)) + Ones(x, k + 1)
    BY <1>1, <2>1, <2>2
  <2>5. Cardinality(Low(x, k + 3)) = Cardinality(Low(x, k + 2)) + Ones(x, k + 2)
    BY <1>1, <2>1, <2>2
  <2>6. Cardinality(Low(x, k + 4)) = Cardinality(Low(x, k + 3)) + Ones(x, k + 3)
    BY <1>1, <2>1, <2>2
  <2>7. Ones(x, k) \in Int /\ Ones(x, k + 1) \in Int /\ Ones(x, k + 2) \in Int /\ Ones(x, k + 3) \in Int
    BY NibbleRange
  <2>. QED BY <2>3, <2>4, <2>5, <2>6, <2>7 DEF Nibble
<1>. DEFINE N1(k) == Cardinality(Low(x, k))
<1>3. /\ N1(4) = N1(0) + Nibble(x, 0) /\ N1(8) = N1(4) + Nibble(x, 4)
      /\ N1(12) = N1(8) + Nibble(x, 8) /\ N1(16) = N1(12) + Nibble(x, 12)
  <2>1. /\ N1(0 + 4) = N1(0) + Nibble(x, 0) /\ N1(4 + 4) = N1(4) + Nibble(x, 4)
        /\ N1(8 + 4) = N1(8) + Nibble(x, 8) /\ N1(12 + 4) = N1(12) + Nibble(x, 12)
    BY <1>2
  <2>. QED BY <2>1
<1>4. /\ N1(20) = N1(16) + Nibble(x, 16) /\ N1(24) = N1(20) + Nibble(x, 20)
      /\ N1(28) = N1(24) + Nibble(x, 24) /\ N1(32) = N1(28) + Nibble(x, 28)
  <2>1. /\ N1(16 + 4) = N1(16) + Nibble(x, 16) /\ N1(20 + 4) = N1(20) + Nibble(x, 20)
        /\ N1(24 + 4) = N1(24) + Nibble(x, 24) /\ N1(28 + 4) = N1(28) + Nibble(x, 28)
    BY <1>2
  <2>. QED BY <2>1
<1>5. N1(0) = 0 /\ N1(32) = Cardinality(x)
  <2>1. Low(x, 0) = {} /\ Low(x, W) = x
    BY LowIs
  <2>. QED BY <2>1, FS_EmptySet DEF W
<1>. HIDE DEF N1
<1>6. /\ Nibble(x, 0) \in Int /\ Nibble(x, 4) \in Int /\ Nibble(x, 8) \in Int /\ Nibble(x, 12) \in Int
      /\ Nibble(x, 16) \in Int /\ Nibble(x, 20) \in Int /\ Nibble(x, 24) \in Int /\ Nibble(x, 28) \in Int
  BY NibbleRange
<1>. QED BY <1>3, <1>4, <1>5, <1>6

\* Four bits of a word shifted by n, whatever its sign.
LEMMA LowNibble ==
  ASSUME NEW x \in Word, NEW n \in 0 .. 28
  PROVE  Shr(x, n) \cap {0, 1, 2, 3} = Low(ShrUnsigned(x, n), 4)
<1>1. \A b \in 32 - n .. 31 : b \notin {0, 1, 2, 3}
  OBVIOUS
<1>2. \A b \in ShrUnsigned(x, n) : b < 4 <=> b \in {0, 1, 2, 3}
  BY BitsAre DEF ShrUnsigned
<1>. QED BY <1>1, <1>2 DEF Shr, Low, W

\* The bits shifted onto every fourth one.
LEMMA ShiftedFourths ==
  ASSUME NEW x \in Word, NEW n \in 1 .. 3
  PROVE  /\ Fourths \cap Shr(x, n) \in Word
         /\ \A k \in Fourths : Ones(Fourths \cap Shr(x, n), k) = Ones(x, k + n)
<1>1. Fourths \subseteq Bit
  BY BitsAre DEF Fourths
<1>2. \A a \in x : a \in Nat
  BY BitsAre DEF Word
<1>3. ASSUME NEW k \in Fourths PROVE k \in Shr(x, n) <=> k + n \in x
  <2>1. k \in Nat /\ k <= 28 /\ k \in Bit
    BY <1>1 DEF Fourths
  <2>2. ~ k \in 32 - n .. 31
    BY <2>1
  <2>3. k \in ShrUnsigned(x, n) <=> \E a \in x : k = a - n
    BY <2>1 DEF ShrUnsigned
  <2>4. k = (k + n) - n /\ \A a \in x : k = a - n => a = k + n
    BY <1>2, <2>1
  <2>. QED BY <2>2, <2>3, <2>4 DEF Shr, W
<1>. QED BY <1>1, <1>3 DEF Ones, Word

LEMMA FourthRange == \A x, b : Fourth(x, b) \in Nat /\ Fourth(x, b) <= 4369
<1>. SUFFICES ASSUME NEW x, NEW b PROVE Fourth(x, b) \in Nat /\ Fourth(x, b) <= 4369
  OBVIOUS
<1>1. /\ Ones(x, b) \in 0 .. 1 /\ Ones(x, b + 4) \in 0 .. 1
      /\ Ones(x, b + 8) \in 0 .. 1 /\ Ones(x, b + 12) \in 0 .. 1
  BY NibbleRange
<1>. QED BY <1>1 DEF Fourth

\* The number that four nibbles make when each is replaced by its count.
Quad(x, b) ==
  Nibble(x, b) + 16 * Nibble(x, b + 4) + 256 * Nibble(x, b + 8) + (16 * 256) * Nibble(x, b + 12)

LEMMA QuadIs ==
  ASSUME NEW x, NEW b \in {0, 16}
  PROVE  Fourth(x, b) + Fourth(x, b + 1) + Fourth(x, b + 2) + Fourth(x, b + 3) = Quad(x, b)
<1>1. \A n \in 0 .. 31 : Ones(x, n) \in Int
  BY NibbleRange
<1>2. CASE b = 0
  BY <1>1, <1>2 DEF Fourth, Quad, Nibble
<1>3. CASE b = 16
  BY <1>1, <1>3 DEF Fourth, Quad, Nibble
<1>. QED BY <1>2, <1>3

LEMMA QuadRange ==
  ASSUME NEW x, NEW b \in {0, 16}
  PROVE  Quad(x, b) \in Nat /\ Quad(x, b) <= 4 * 4369
<1>1. /\ Fourth(x, b) \in Nat /\ Fourth(x, b + 1) \in Nat
      /\ Fourth(x, b + 2) \in Nat /\ Fourth(x, b + 3) \in Nat
      /\ Fourth(x, b) <= 4369 /\ Fourth(x, b + 1) <= 4369
      /\ Fourth(x, b + 2) <= 4369 /\ Fourth(x, b + 3) <= 4369
  BY FourthRange
<1>. QED BY <1>1, QuadIs

\* Four sums on top of each other.
LEMMA FourSums ==
  ASSUME NEW x \in Word, NEW y \in Word, NEW z \in Word, NEW t \in Word,
         ((Value(x) + Value(y)) + Value(z)) + Value(t) < Power2[32]
  PROVE  /\ Add(Add(Add(x, y), z), t) \in Word
         /\ Value(Add(Add(Add(x, y), z), t)) = ((Value(x) + Value(y)) + Value(z)) + Value(t)
<1>1. Value(x) \in Nat
  BY ValueRange
<1>2. Value(y) \in Nat
  BY ValueRange
<1>3. Value(z) \in Nat
  BY ValueRange
<1>4. Value(t) \in Nat
  BY ValueRange
<1>5. Power2[32] \in Nat
  BY Weights
<1>. DEFINE s1 == Add(x, y)
<1>6. s1 \in Word /\ Value(s1) = Value(x) + Value(y)
  <2>1. Value(x) + Value(y) < Power2[32]
    BY <1>1, <1>2, <1>3, <1>4, <1>5
  <2>. QED BY <2>1, SmallSum
<1>. HIDE DEF s1
<1>. DEFINE s2 == Add(s1, z)
<1>7. s2 \in Word /\ Value(s2) = (Value(x) + Value(y)) + Value(z)
  <2>1. Value(s1) + Value(z) < Power2[32]
    BY <1>1, <1>2, <1>3, <1>4, <1>5, <1>6
  <2>. QED BY <1>6, <2>1, SmallSum
<1>. HIDE DEF s2
<1>8. Add(s2, t) \in Word /\ Value(Add(s2, t)) = ((Value(x) + Value(y)) + Value(z)) + Value(t)
  BY <1>7, SmallSum
<1>. QED BY <1>8 DEF s1, s2

\* The sum that counts the ones of every nibble.
LEMMA NibblesCounted ==
  ASSUME NEW x \in Word
  PROVE  LET nibbles == Add(Add(Add(Fourths \cap x, Fourths \cap Shr(x, 1)), Fourths \cap Shr(x, 2)),
                            Fourths \cap Shr(x, 3))
         IN nibbles \in Word /\ Value(nibbles) = Quad(x, 0) + (256 * 256) * Quad(x, 16)
<1>. DEFINE t0 == Fourths \cap x
<1>. DEFINE t1 == Fourths \cap Shr(x, 1)
<1>. DEFINE t2 == Fourths \cap Shr(x, 2)
<1>. DEFINE t3 == Fourths \cap Shr(x, 3)
<1>1. t0 \in Word /\ Value(t0) = Fourth(x, 0) + (256 * 256) * Fourth(x, 16)
  <2>1. t0 \in Word /\ t0 \subseteq Fourths
    BY DEF Word
  <2>2. \A k \in Fourths : Ones(t0, k) = Ones(x, k)
    BY DEF Ones
  <2>. HIDE DEF t0
  <2>3. Fourth(t0, 0) = Fourth(x, 0) /\ Fourth(t0, 16) = Fourth(x, 16)
    BY <2>2 DEF Fourth, Fourths
  <2>4. Value(t0) = Fourth(t0, 0) + (256 * 256) * Fourth(t0, 16)
    BY <2>1, ValueFourths
  <2>. QED BY <2>1, <2>3, <2>4
<1>2. ASSUME NEW n \in 1 .. 3
      PROVE  /\ Fourths \cap Shr(x, n) \in Word
             /\ Value(Fourths \cap Shr(x, n)) = Fourth(x, n) + (256 * 256) * Fourth(x, n + 16)
  <2>1. PICK t : t = Fourths \cap Shr(x, n)
    OBVIOUS
  <2>2. t \in Word /\ t \subseteq Fourths /\ \A k \in Fourths : Ones(t, k) = Ones(x, k + n)
    BY <2>1, ShiftedFourths
  <2>3. /\ Ones(t, 0) = Ones(x, n) /\ Ones(t, 4) = Ones(x, n + 4) /\ Ones(t, 8) = Ones(x, n + 8)
        /\ Ones(t, 12) = Ones(x, n + 12)
    <3>1. 0 + n = n /\ 4 + n = n + 4 /\ 8 + n = n + 8 /\ 12 + n = n + 12
      OBVIOUS
    <3>2. 0 \in Fourths /\ 4 \in Fourths /\ 8 \in Fourths /\ 12 \in Fourths
      BY DEF Fourths
    <3>. QED BY <2>2, <3>1, <3>2
  <2>4. /\ Ones(t, 16) = Ones(x, n + 16) /\ Ones(t, 20) = Ones(x, (n + 16) + 4)
        /\ Ones(t, 24) = Ones(x, (n + 16) + 8) /\ Ones(t, 28) = Ones(x, (n + 16) + 12)
    <3>1. 16 + n = n + 16 /\ 20 + n = (n + 16) + 4 /\ 24 + n = (n + 16) + 8 /\ 28 + n = (n + 16) + 12
      OBVIOUS
    <3>2. 16 \in Fourths /\ 20 \in Fourths /\ 24 \in Fourths /\ 28 \in Fourths
      BY DEF Fourths
    <3>. QED BY <2>2, <3>1, <3>2
  <2>5. Fourth(t, 0) = Fourth(x, n)
    BY <2>3 DEF Fourth
  <2>6. Fourth(t, 16) = Fourth(x, n + 16)
    BY <2>4 DEF Fourth
  <2>7. Value(t) = Fourth(t, 0) + (256 * 256) * Fourth(t, 16)
    BY <2>2, ValueFourths
  <2>. QED BY <2>1, <2>2, <2>5, <2>6, <2>7
<1>3. t1 \in Word /\ Value(t1) = Fourth(x, 1) + (256 * 256) * Fourth(x, 1 + 16)
  <2>1. 1 \in 1 .. 3
    OBVIOUS
  <2>. QED BY <1>2, <2>1
<1>4. t2 \in Word /\ Value(t2) = Fourth(x, 2) + (256 * 256) * Fourth(x, 2 + 16)
  <2>1. 2 \in 1 .. 3
    OBVIOUS
  <2>. QED BY <1>2, <2>1
<1>5. t3 \in Word /\ Value(t3) = Fourth(x, 3) + (256 * 256) * Fourth(x, 3 + 16)
  <2>1. 3 \in 1 .. 3
    OBVIOUS
  <2>. QED BY <1>2, <2>1
<1>6. Fourth(x, 0) + Fourth(x, 1) + Fourth(x, 2) + Fourth(x, 3) = Quad(x, 0)
  <2>1. Fourth(x, 0) + Fourth(x, 0 + 1) + Fourth(x, 0 + 2) + Fourth(x, 0 + 3) = Quad(x, 0)
    BY QuadIs
  <2>. QED BY <2>1
<1>7. Fourth(x, 16) + Fourth(x, 17) + Fourth(x, 18) + Fourth(x, 19) = Quad(x, 16)
  <2>1. Fourth(x, 16) + Fourth(x, 16 + 1) + Fourth(x, 16 + 2) + Fourth(x, 16 + 3) = Quad(x, 16)
    BY QuadIs
  <2>. QED BY <2>1
<1>. HIDE DEF t0, t1, t2, t3
<1>8. \A b : Fourth(x, b) \in Nat /\ Fourth(x, b) <= 4369
  BY FourthRange
<1>9. ((Value(t0) + Value(t1)) + Value(t2)) + Value(t3) = Quad(x, 0) + (256 * 256) * Quad(x, 16)
  <2>1. 1 + 16 = 17 /\ 2 + 16 = 18 /\ 3 + 16 = 19
    OBVIOUS
  <2>2. /\ Value(t1) = Fourth(x, 1) + (256 * 256) * Fourth(x, 17)
        /\ Value(t2) = Fourth(x, 2) + (256 * 256) * Fourth(x, 18)
        /\ Value(t3) = Fourth(x, 3) + (256 * 256) * Fourth(x, 19)
    BY <1>3, <1>4, <1>5, <2>1
  <2>3. ((Value(t0) + Value(t1)) + Value(t2)) + Value(t3)
          = (Fourth(x, 0) + Fourth(x, 1) + Fourth(x, 2) + Fourth(x, 3))
              + (256 * 256) * (Fourth(x, 16) + Fourth(x, 17) + Fourth(x, 18) + Fourth(x, 19))
    <3>. PICK a0 \in Int : a0 = Fourth(x, 0)
      BY <1>8
    <3>. PICK a1 \in Int : a1 = Fourth(x, 1)
      BY <1>8
    <3>. PICK a2 \in Int : a2 = Fourth(x, 2)
      BY <1>8
    <3>. PICK a3 \in Int : a3 = Fourth(x, 3)
      BY <1>8
    <3>. PICK b0 \in Int : b0 = Fourth(x, 16)
      BY <1>8
    <3>. PICK b1 \in Int : b1 = Fourth(x, 17)
      BY <1>8
    <3>. PICK b2 \in Int : b2 = Fourth(x, 18)
      BY <1>8
    <3>. PICK b3 \in Int : b3 = Fourth(x, 19)
      BY <1>8
    <3>1. ((Value(t0) + Value(t1)) + Value(t2)) + Value(t3)
            = (((a0 + (256 * 256) * b0) + (a1 + (256 * 256) * b1)) + (a2 + (256 * 256) * b2))
                + (a3 + (256 * 256) * b3)
      BY <1>1, <2>2
    <3>2. (((a0 + (256 * 256) * b0) + (a1 + (256 * 256) * b1)) + (a2 + (256 * 256) * b2))
             + (a3 + (256 * 256) * b3)
            = (a0 + a1 + a2 + a3) + (256 * 256) * (b0 + b1 + b2 + b3)
      OBVIOUS
    <3>. QED BY <3>1, <3>2
  <2>. QED BY <1>6, <1>7, <2>3
<1>10. /\ Quad(x, 0) \in Nat /\ Quad(x, 0) <= 4 * 4369
       /\ Quad(x, 16) \in Nat /\ Quad(x, 16) <= 4 * 4369
  BY QuadRange
<1>11. Quad(x, 0) + (256 * 256) * Quad(x, 16) < Power2[32]
  <2>1. PICK lower \in Nat : lower = Quad(x, 0)
    BY <1>10
  <2>2. PICK upper \in Nat : upper = Quad(x, 16)
    BY <1>10
  <2>3. lower <= 4 * 4369 /\ upper <= 4 * 4369
    BY <1>10, <2>1, <2>2
  <2>4. lower + (256 * 256) * upper < 256 * 256 * 256 * 256
    BY ONLY lower \in Nat, upper \in Nat, <2>3
  <2>. QED BY <2>1, <2>2, <2>4, Modulus
<1>12. /\ Add(Add(Add(t0, t1), t2), t3) \in Word
       /\ Value(Add(Add(Add(t0, t1), t2), t3)) = Quad(x, 0) + (256 * 256) * Quad(x, 16)
  BY <1>1, <1>3, <1>4, <1>5, <1>9, <1>11, FourSums
<1>. QED BY <1>12 DEF t0, t1, t2, t3

\* The word x has a below its n-th bit and q from there on.
Halved(x, n, a, q) == a < Power2[n] /\ Value(x) = a + Power2[n] * q

\* The two parts of a word are known when its value is.
LEMMA PartsAre ==
  ASSUME NEW x \in Word, NEW n \in {4, 8, 12, 16}, NEW a \in Nat, NEW q \in Nat,
         Halved(x, n, a, q)
  PROVE  /\ Low(x, n) \in Word /\ Value(Low(x, n)) = a
         /\ ShrUnsigned(x, n) \in Word /\ Value(ShrUnsigned(x, n)) = q
<1>1. n \in Bit /\ n \in 0 .. W /\ n \in Int
  BY DEF Bit, W
<1>2. PICK s : s = ShrUnsigned(x, n)
  OBVIOUS
<1>3. s \in Word /\ Value(x) = Value(Low(x, n)) + Power2[n] * Value(s)
  BY <1>1, <1>2, ValueSplit
<1>4. Low(x, n) \in Word /\ Value(Low(x, n)) \in Nat /\ Value(Low(x, n)) < Power2[n]
  BY <1>1, LowIs, LowRange
<1>5. PICK low \in Nat : low = Value(Low(x, n))
  BY <1>4
<1>6. PICK high \in Nat : high = Value(s)
  BY <1>3, ValueRange
<1>7. PICK m : m = Power2[n]
  OBVIOUS
<1>8. m = 16 \/ m = 256 \/ m = 16 * 256 \/ m = 256 * 256
  BY <1>7, SmallWeights, LargeWeights
<1>9. low + m * high = a + m * q /\ low < m /\ a < m
  BY <1>3, <1>4, <1>5, <1>6, <1>7 DEF Halved
<1>10. low = a /\ high = q
  <2>1. CASE m = 16
    BY ONLY low \in Nat, high \in Nat, a \in Nat, q \in Nat, <1>9, <2>1
  <2>2. CASE m = 256
    BY ONLY low \in Nat, high \in Nat, a \in Nat, q \in Nat, <1>9, <2>2
  <2>3. CASE m = 16 * 256
    BY ONLY low \in Nat, high \in Nat, a \in Nat, q \in Nat, <1>9, <2>3
  <2>4. CASE m = 256 * 256
    BY ONLY low \in Nat, high \in Nat, a \in Nat, q \in Nat, <1>9, <2>4
  <2>. QED BY <1>8, <2>1, <2>2, <2>3, <2>4
<1>. QED BY <1>2, <1>3, <1>4, <1>5, <1>6, <1>10

\* The nibble of x that starts at bit n is d, with a below and p above it.
Parted(x, n, a, d, p) == a < Power2[n] /\ Value(x) = a + Power2[n] * (d + 16 * p)

\* The nibbles of x, with q above the four last ones.
Hexadecimal(x, d0, d1, d2, d3, q) ==
  Value(x) = d0 + 16 * d1 + 256 * d2 + (16 * 256) * d3 + (256 * 256) * q

\* The four last nibbles of a word, cut out of it by four.
LastNibbles(x, four, d0, d1, d2, d3) ==
  /\ x \cap four \in Word /\ Value(x \cap four) = d0
  /\ Shr(x, 4) \cap four \in Word /\ Value(Shr(x, 4) \cap four) = d1
  /\ Shr(x, 8) \cap four \in Word /\ Value(Shr(x, 8) \cap four) = d2
  /\ Shr(x, 12) \cap four \in Word /\ Value(Shr(x, 12) \cap four) = d3

LEMMA Digits ==
  ASSUME NEW x \in Word, NEW four, four = {0, 1, 2, 3}, NEW d0 \in 0 .. 15, NEW d1 \in 0 .. 15,
         NEW d2 \in 0 .. 15, NEW d3 \in 0 .. 15, NEW q \in Nat,
         Hexadecimal(x, d0, d1, d2, d3, q)
  PROVE  LastNibbles(x, four, d0, d1, d2, d3)
<1>1. x \cap four = Low(x, 4)
  <2>1. \A b \in x : b < 4 <=> b \in four
    BY BitsAre DEF Word
  <2>. QED BY <2>1 DEF Low
<1>2. ASSUME NEW n \in {4, 8, 12}, NEW a \in Nat, NEW d \in 0 .. 15, NEW p \in Nat,
             Parted(x, n, a, d, p)
      PROVE  /\ Low(x, n) \in Word /\ Value(Low(x, n)) = a
             /\ Shr(x, n) \cap four \in Word /\ Value(Shr(x, n) \cap four) = d
  <2>1. n \in 0 .. 28
    OBVIOUS
  <2>2. Shr(x, n) \cap four = Low(ShrUnsigned(x, n), 4)
    BY <2>1, LowNibble
  <2>3. PICK s : s = ShrUnsigned(x, n)
    OBVIOUS
  <2>4. PICK r0 \in Nat : r0 = d + 16 * p
    OBVIOUS
  <2>5. n \in {4, 8, 12, 16} /\ Halved(x, n, a, r0)
    BY <1>2, <2>4 DEF Parted, Halved
  <2>6. Low(x, n) \in Word /\ Value(Low(x, n)) = a /\ s \in Word /\ Value(s) = r0
    BY <2>3, <2>5, PartsAre
  <2>7. d \in Nat /\ Halved(s, 4, d, p) /\ 4 \in {4, 8, 12, 16}
    BY <2>4, <2>6, SmallWeights DEF Halved
  <2>8. Low(s, 4) \in Word /\ Value(Low(s, 4)) = d
    BY <2>6, <2>7, PartsAre
  <2>. QED BY <2>2, <2>3, <2>6, <2>8
<1>3. PICK p1 \in Nat : p1 = d2 + 16 * d3 + 256 * q
  OBVIOUS
<1>4. PICK p2 \in Nat : p2 = d3 + 16 * q
  OBVIOUS
<1>5. d0 < 16 /\ Value(x) = d0 + 16 * (d1 + 16 * p1)
  BY <1>3 DEF Hexadecimal
<1>6. PICK a2 \in Nat : a2 = d0 + 16 * d1
  OBVIOUS
<1>7. a2 < 256 /\ Value(x) = a2 + 256 * (d2 + 16 * p2)
  BY <1>4, <1>6 DEF Hexadecimal
<1>8. PICK a3 \in Nat : a3 = d0 + 16 * d1 + 256 * d2
  OBVIOUS
<1>9. a3 < 16 * 256 /\ Value(x) = a3 + (16 * 256) * (d3 + 16 * q)
  BY <1>8 DEF Hexadecimal
<1>10. /\ Low(x, 4) \in Word /\ Value(Low(x, 4)) = d0
       /\ Shr(x, 4) \cap four \in Word /\ Value(Shr(x, 4) \cap four) = d1
  <2>1. 4 \in {4, 8, 12} /\ d0 \in Nat /\ Parted(x, 4, d0, d1, p1)
    BY <1>5, SmallWeights DEF Parted
  <2>. QED BY ONLY d1 \in 0 .. 15, p1 \in Nat, <1>2, <2>1
<1>11. Shr(x, 8) \cap four \in Word /\ Value(Shr(x, 8) \cap four) = d2
  <2>1. 8 \in {4, 8, 12} /\ Parted(x, 8, a2, d2, p2)
    BY <1>7, SmallWeights DEF Parted
  <2>. QED BY ONLY a2 \in Nat, d2 \in 0 .. 15, p2 \in Nat, <1>2, <2>1
<1>12. Shr(x, 12) \cap four \in Word /\ Value(Shr(x, 12) \cap four) = d3
  <2>1. 12 \in {4, 8, 12} /\ Parted(x, 12, a3, d3, q)
    BY <1>9, LargeWeights, SmallWeights DEF Parted
  <2>. QED BY ONLY a3 \in Nat, d3 \in 0 .. 15, q \in Nat, <1>2, <2>1
<1>. QED BY <1>1, <1>10, <1>11, <1>12 DEF LastNibbles

\* The nibbles of x are added bit by bit, none overflows; then the upper half
\* to the lower; then the four nibbles that are left.
LEMMA BitCountRight ==
  ASSUME NEW x \in Word
  PROVE  Value(bitCount(x)) = Cardinality(x)
<1>. DEFINE byte == Shl(WordOf(17), 8) \cup WordOf(17)
<1>. DEFINE mask == Shl(byte, 16) \cup byte
<1>. DEFINE low == WordOf(15)
<1>. DEFINE nibbles == Add(Add(Add(Fourths \cap x, Fourths \cap Shr(x, 1)), Fourths \cap Shr(x, 2)),
                           Fourths \cap Shr(x, 3))
<1>. DEFINE sum1 == Add(nibbles, Shr(nibbles, 16))
<1>1. mask = Fourths
  <2>1. WordOf(17) = {0, 4}
    BY Constants
  <2>2. Shl(WordOf(17), 8) = {8, 12}
    BY <2>1 DEF Shl, Bit, W
  <2>3. byte = {0, 4, 8, 12}
    BY <2>1, <2>2
  <2>. HIDE DEF byte
  <2>4. Shl(byte, 16) = {16, 20, 24, 28}
    BY <2>3 DEF Shl, Bit, W
  <2>. QED BY <2>3, <2>4 DEF Fourths
<1>2. low = {0, 1, 2, 3}
  BY Constants
<1>3. bitCount(x) = Add(Add(Add(sum1 \cap low, Shr(sum1, 4) \cap low), Shr(sum1, 8) \cap low),
                        Shr(sum1, 12) \cap low)
  <2>. DEFINE n1 == Add(Add(Add(mask \cap x, mask \cap Shr(x, 1)), mask \cap Shr(x, 2)),
                        mask \cap Shr(x, 3))
  <2>. DEFINE m1 == Add(n1, Shr(n1, 16))
  <2>1. bitCount(x) = Add(Add(Add(m1 \cap low, Shr(m1, 4) \cap low), Shr(m1, 8) \cap low),
                          Shr(m1, 12) \cap low)
    BY Zenon DEF bitCount
  <2>. HIDE DEF mask, low
  <2>2. n1 = nibbles
    BY <1>1, Zenon
  <2>. HIDE DEF nibbles, n1
  <2>. QED BY <2>1, <2>2, Zenon
<1>. HIDE DEF mask, low
<1>4. nibbles \in Word /\ Value(nibbles) = Quad(x, 0) + (256 * 256) * Quad(x, 16)
  BY NibblesCounted
<1>. HIDE DEF nibbles
<1>5. PICK lower \in Nat : lower = Quad(x, 0) /\ lower <= 4 * 4369
  BY QuadRange
<1>6. PICK upper \in Nat : upper = Quad(x, 16) /\ upper <= 4 * 4369
  BY QuadRange
<1>7. Value(nibbles) = lower + (256 * 256) * upper
  BY <1>4, <1>5, <1>6
<1>8. Shr(nibbles, 16) \in Word /\ Value(Shr(nibbles, 16)) = upper
  <2>1. 31 \notin nibbles
    <3>1. lower + (256 * 256) * upper < 128 * 256 * 256 * 256
      BY ONLY lower \in Nat, upper \in Nat, <1>5, <1>6
    <3>2. lower + (256 * 256) * upper \in Nat
      BY ONLY lower \in Nat, upper \in Nat
    <3>3. ~ Value(nibbles) >= Power2[31]
      BY <1>7, <3>1, <3>2, LargeWeights
    <3>. QED BY <1>4, <3>3, ValueTop
  <2>2. Shr(nibbles, 16) = ShrUnsigned(nibbles, 16)
    BY <2>1 DEF Shr, W
  <2>3. upper \in Nat /\ 16 \in {4, 8, 12, 16} /\ Halved(nibbles, 16, lower, upper)
    BY <1>5, <1>7, LargeWeights DEF Halved
  <2>4. ShrUnsigned(nibbles, 16) \in Word /\ Value(ShrUnsigned(nibbles, 16)) = upper
    BY <1>4, <2>3, PartsAre
  <2>. QED BY <2>2, <2>4
<1>9. sum1 \in Word /\ Value(sum1) = (lower + (256 * 256) * upper) + upper
  <2>1. (lower + (256 * 256) * upper) + upper < 256 * 256 * 256 * 256
    BY ONLY lower \in Nat, upper \in Nat, <1>5, <1>6
  <2>2. Value(nibbles) + Value(Shr(nibbles, 16)) = (lower + (256 * 256) * upper) + upper
    BY <1>7, <1>8
  <2>3. Value(nibbles) + Value(Shr(nibbles, 16)) < Power2[32]
    BY <2>1, <2>2, Modulus
  <2>. QED BY <1>4, <1>8, <2>2, <2>3, SmallSum
<1>. HIDE DEF sum1
<1>10. /\ Nibble(x, 0) \in 0 .. 4 /\ Nibble(x, 4) \in 0 .. 4
       /\ Nibble(x, 8) \in 0 .. 4 /\ Nibble(x, 12) \in 0 .. 4
       /\ Nibble(x, 16) \in 0 .. 4 /\ Nibble(x, 20) \in 0 .. 4
       /\ Nibble(x, 24) \in 0 .. 4 /\ Nibble(x, 28) \in 0 .. 4
  BY NibbleRange
<1>. PICK n0 \in 0 .. 4 : n0 = Nibble(x, 0)
  BY <1>10
<1>. PICK n1 \in 0 .. 4 : n1 = Nibble(x, 4)
  BY <1>10
<1>. PICK n2 \in 0 .. 4 : n2 = Nibble(x, 8)
  BY <1>10
<1>. PICK n3 \in 0 .. 4 : n3 = Nibble(x, 12)
  BY <1>10
<1>. PICK n4 \in 0 .. 4 : n4 = Nibble(x, 16)
  BY <1>10
<1>. PICK n5 \in 0 .. 4 : n5 = Nibble(x, 20)
  BY <1>10
<1>. PICK n6 \in 0 .. 4 : n6 = Nibble(x, 24)
  BY <1>10
<1>. PICK n7 \in 0 .. 4 : n7 = Nibble(x, 28)
  BY <1>10
<1>11. PICK d0 \in 0 .. 8 : d0 = Nibble(x, 0) + Nibble(x, 16)
  BY <1>10
<1>12. PICK d1 \in 0 .. 8 : d1 = Nibble(x, 4) + Nibble(x, 20)
  BY <1>10
<1>13. PICK d2 \in 0 .. 8 : d2 = Nibble(x, 8) + Nibble(x, 24)
  BY <1>10
<1>14. PICK d3 \in 0 .. 8 : d3 = Nibble(x, 12) + Nibble(x, 28)
  BY <1>10
<1>15. lower + upper = d0 + 16 * d1 + 256 * d2 + (16 * 256) * d3
  <2>1. Quad(x, 0) = Nibble(x, 0) + 16 * Nibble(x, 4) + 256 * Nibble(x, 8) + (16 * 256) * Nibble(x, 12)
    BY DEF Quad
  <2>2. Quad(x, 16) = Nibble(x, 16) + 16 * Nibble(x, 20) + 256 * Nibble(x, 24)
                        + (16 * 256) * Nibble(x, 28)
    BY DEF Quad
  <2>3. lower = n0 + 16 * n1 + 256 * n2 + (16 * 256) * n3
    BY <1>5, <2>1
  <2>4. upper = n4 + 16 * n5 + 256 * n6 + (16 * 256) * n7
    BY <1>6, <2>2
  <2>5. d0 = n0 + n4 /\ d1 = n1 + n5 /\ d2 = n2 + n6 /\ d3 = n3 + n7
    BY <1>14, <1>11, <1>12, <1>13
  <2>6. (n0 + 16 * n1 + 256 * n2 + (16 * 256) * n3) + (n4 + 16 * n5 + 256 * n6 + (16 * 256) * n7)
          = (n0 + n4) + 16 * (n1 + n5) + 256 * (n2 + n6) + (16 * 256) * (n3 + n7)
    OBVIOUS
  <2>. QED BY <2>3, <2>4, <2>5, <2>6
<1>16. Hexadecimal(sum1, d0, d1, d2, d3, upper)
  BY <1>9, <1>15 DEF Hexadecimal
<1>17. Cardinality(x) = ((d0 + d1) + d2) + d3
  <2>1. Cardinality(x) = Nibble(x, 0) + Nibble(x, 4) + Nibble(x, 8) + Nibble(x, 12)
                         + Nibble(x, 16) + Nibble(x, 20) + Nibble(x, 24) + Nibble(x, 28)
    BY CountNibbles
  <2>2. Nibble(x, 0) + Nibble(x, 4) + Nibble(x, 8) + Nibble(x, 12)
          + Nibble(x, 16) + Nibble(x, 20) + Nibble(x, 24) + Nibble(x, 28)
          = n0 + n1 + n2 + n3 + n4 + n5 + n6 + n7
    OBVIOUS
  <2>3. d0 = n0 + n4 /\ d1 = n1 + n5 /\ d2 = n2 + n6 /\ d3 = n3 + n7
    BY <1>11, <1>12, <1>13, <1>14
  <2>4. n0 + n1 + n2 + n3 + n4 + n5 + n6 + n7
          = (((n0 + n4) + (n1 + n5)) + (n2 + n6)) + (n3 + n7)
    OBVIOUS
  <2>. QED BY <2>1, <2>2, <2>3, <2>4
<1>18. LastNibbles(sum1, low, d0, d1, d2, d3)
  <2>1. d0 \in 0 .. 15 /\ d1 \in 0 .. 15 /\ d2 \in 0 .. 15 /\ d3 \in 0 .. 15 /\ upper \in Nat
    OBVIOUS
  <2>2. sum1 \in Word
    BY <1>9
  <2>. QED BY <1>2, <1>16, <2>1, <2>2, Digits
<1>19. ((d0 + d1) + d2) + d3 < Power2[32]
  <2>1. ((d0 + d1) + d2) + d3 < 256 * 256 * 256 * 256
    BY ONLY d0 \in 0 .. 8, d1 \in 0 .. 8, d2 \in 0 .. 8, d3 \in 0 .. 8
  <2>. QED BY <2>1, Modulus
<1>. QED BY <1>3, <1>17, <1>18, <1>19, FourSums DEF LastNibbles

-----------------------------------------------------------------------------
(* The conversion to a float. *)

\* A word whose value is small has no bit above it.
LEMMA BitsBelow ==
  ASSUME NEW x \in Word, NEW k \in {8, 23}, Value(x) < Power2[k]
  PROVE  \A b \in x : b < k
<1>1. k \in Bit
  BY DEF Bit, W
<1>2. ShrUnsigned(x, k) \in Word /\ Value(x) = Value(Low(x, k)) + Power2[k] * Value(ShrUnsigned(x, k))
  BY <1>1, ValueSplit
<1>3. PICK high \in Nat : high = Value(ShrUnsigned(x, k))
  BY <1>2, ValueRange
<1>4. PICK low \in Nat : low = Value(Low(x, k))
  <2>1. k \in 0 .. W
    BY DEF W
  <2>. QED BY <2>1, LowRange
<1>5. low + Power2[k] * high < Power2[k]
  BY <1>2, <1>3, <1>4
<1>6. high = 0
  <2>1. CASE k = 8
    <3>1. low + 256 * high < 256
      BY <1>5, <2>1, SmallWeights
    <3>. QED BY ONLY low \in Nat, high \in Nat, <3>1
  <2>2. CASE k = 23
    <3>1. low + (128 * 256 * 256) * high < 128 * 256 * 256
      BY <1>5, <2>2, LargeWeights
    <3>. QED BY ONLY low \in Nat, high \in Nat, <3>1
  <2>. QED BY <2>1, <2>2
<1>7. ShrUnsigned(x, k) = {}
  BY <1>2, <1>3, <1>6, ValueZero, SameValue
<1>8. SUFFICES ASSUME NEW b \in x, b >= k PROVE FALSE
  BY BitsAre DEF Word
<1>9. b \in Nat /\ b < 32
  BY BitsAre DEF Word
<1>10. b - k \in Bit
  BY <1>8, <1>9, BitsAre
<1>11. b - k \in ShrUnsigned(x, k)
  BY <1>8, <1>10 DEF ShrUnsigned
<1>. QED BY <1>7, <1>11

\* The word of zero, and that of the sign.
LEMMA SignIs ==
  ASSUME NEW x \in Word
  PROVE  /\ x \cap {31} \in Word
         /\ x \cap {31} = IF 31 \in x THEN {31} ELSE {}
         /\ Value(x \cap {31}) = IF 31 \in x THEN Power2[31] ELSE 0
<1>1. x \cap {31} = IF 31 \in x THEN {31} ELSE {}
  OBVIOUS
<1>2. x \cap {31} \in Word
  BY DEF Word
<1>3. Value({31}) = Power2[31]
  <2>1. 31 \in Bit /\ \A b \in One : b + 31 < 32
    BY DEF Bit, W, One
  <2>2. Value(Shl(One, 31)) = Power2[31] * Value(One)
    BY <2>1, ValueOne, ValueShl
  <2>3. Shl(One, 31) = {31}
    BY TminRight DEF tmin
  <2>4. Power2[31] \in Nat
    BY Weights
  <2>5. Value(One) = 1
    BY ValueOne
  <2>. QED BY <2>2, <2>3, <2>4, <2>5
<1>. QED BY <1>1, <1>2, <1>3, ValueZero

\* The exponent is in bits 23 to 30.
LEMMA ExponentIs ==
  ASSUME NEW e \in 0 .. 159
  PROVE  /\ Shl(WordOf(e), 23) \in Word
         /\ Value(Shl(WordOf(e), 23)) = Power2[23] * e
         /\ \A b \in Shl(WordOf(e), 23) : 23 <= b /\ b <= 30
<1>1. e \in Nat /\ e < Power2[31]
  BY LargeWeights
<1>2. WordOf(e) \in Word /\ Value(WordOf(e)) = e
  BY <1>1, ValueWordOf
<1>3. Value(WordOf(e)) < Power2[8] /\ 8 \in {8, 23}
  BY <1>2, SmallWeights
<1>4. \A b \in WordOf(e) : b < 8
  BY <1>2, <1>3, BitsBelow
<1>5. \A b \in WordOf(e) : b \in Nat
  BY <1>2, BitsAre DEF Word
<1>6. \A b \in WordOf(e) : b + 23 < 32
  BY <1>4, <1>5
<1>7. 23 \in Bit
  BY DEF Bit, W
<1>8. Shl(WordOf(e), 23) \in Word /\ Value(Shl(WordOf(e), 23)) = Power2[23] * Value(WordOf(e))
  BY <1>2, <1>6, <1>7, ValueShl
<1>9. \A b \in Shl(WordOf(e), 23) : 23 <= b /\ b <= 30
  BY <1>4, <1>5 DEF Shl
<1>. QED BY <1>2, <1>8, <1>9

IsSign(sg) == sg = {} \/ sg = {31}
Fraction(g) == g \in Nat /\ g < Power2[23]

\* Sign, exponent and fraction in one word.
Packed(sg, e, g) == sg \cup Shl(WordOf(e), 23) \cup WordOf(g)

LEMMA PackedIs ==
  ASSUME NEW sg, IsSign(sg), NEW e \in 0 .. 159, NEW g, Fraction(g)
  PROVE  /\ Packed(sg, e, g) \in Word
         /\ Value(Packed(sg, e, g)) = (Value(sg) + Power2[23] * e) + g
<1>. USE DEF IsSign, Fraction
<1>1. g < Power2[31]
  BY LargeWeights
<1>2. WordOf(g) \in Word /\ Value(WordOf(g)) = g
  BY <1>1, ValueWordOf
<1>3. \A b \in WordOf(g) : b < 23
  BY <1>2, BitsBelow
<1>4. PICK E : E = Shl(WordOf(e), 23)
  OBVIOUS
<1>5. E \in Word /\ Value(E) = Power2[23] * e /\ \A b \in E : 23 <= b /\ b <= 30
  BY <1>4, ExponentIs
<1>6. PICK G : G = WordOf(g)
  OBVIOUS
<1>7. G \in Word /\ Value(G) = g /\ \A b \in G : b < 23
  BY <1>2, <1>3, <1>6
<1>8. sg \in Word
  BY BitsAre DEF Word
<1>9. \A b \in E : b \in Nat
  BY <1>5, BitsAre DEF Word
<1>10. \A b \in G : b \in Nat
  BY <1>7, BitsAre DEF Word
<1>11. sg \cap E = {}
  BY <1>5, <1>9
<1>12. (sg \cup E) \cap G = {}
  BY <1>5, <1>7, <1>9, <1>10
<1>13. sg \cup E \in Word /\ Value(sg \cup E) = Value(sg) + Value(E)
  BY <1>5, <1>8, <1>11, ValueUnion
<1>14. (sg \cup E) \cup G \in Word /\ Value((sg \cup E) \cup G) = Value(sg \cup E) + Value(G)
  BY <1>7, <1>12, <1>13, ValueUnion
<1>15. Packed(sg, e, g) = (sg \cup E) \cup G
  BY <1>4, <1>6 DEF Packed
<1>. QED BY <1>5, <1>7, <1>13, <1>14, <1>15

\* The same as a sum, with one added for rounding.
Summed(sg, f, e, p) == Add(Add(Add(sg, f), Shl(WordOf(e), 23)), Flag(p))

LEMMA PackedSum ==
  ASSUME NEW sg, IsSign(sg), NEW e \in 0 .. 158, NEW f \in Word, Fraction(Value(f)), NEW p \in BOOLEAN
  PROVE  /\ Summed(sg, f, e, p) \in Word
         /\ Value(Summed(sg, f, e, p))
              = ((Value(sg) + Power2[23] * e) + Value(f)) + (IF p THEN 1 ELSE 0)
<1>1. sg \in Word
  BY BitsAre DEF Word, IsSign
<1>2. Value(sg) \in Nat /\ Value(sg) <= Power2[31]
  <2>1. CASE sg = {}
    BY <2>1, ValueZero, LargeWeights
  <2>2. CASE sg = {31}
    <3>1. sg \cap {31} = sg /\ 31 \in sg
      BY <2>2
    <3>2. Value(sg) = Power2[31]
      BY <1>1, <3>1, SignIs
    <3>. QED BY <3>2, LargeWeights
  <2>. QED BY <2>1, <2>2 DEF IsSign
<1>3. Flag(p) \in Word /\ Value(Flag(p)) = IF p THEN 1 ELSE 0
  BY ValueOne, ValueZero DEF Flag, One
<1>4. PICK E : E = Shl(WordOf(e), 23)
  OBVIOUS
<1>5. E \in Word /\ Value(E) = Power2[23] * e
  <2>1. e \in 0 .. 159
    OBVIOUS
  <2>. QED BY <1>4, <2>1, ExponentIs
<1>6. Value(f) \in Nat
  BY ValueRange
<1>7. PICK s \in Nat : s = Value(sg)
  BY <1>2
<1>8. PICK F \in Nat : F = Value(f)
  BY <1>6
<1>9. PICK u \in 0 .. 1 : u = IF p THEN 1 ELSE 0
  OBVIOUS
<1>10. s <= 128 * 256 * 256 * 256 /\ F < 128 * 256 * 256 /\ Power2[23] = 128 * 256 * 256
  BY <1>2, <1>7, <1>8, LargeWeights DEF Fraction
<1>11. /\ s + F < 256 * 256 * 256 * 256
       /\ (s + F) + (128 * 256 * 256) * e < 256 * 256 * 256 * 256
       /\ ((s + F) + (128 * 256 * 256) * e) + u < 256 * 256 * 256 * 256
  BY ONLY s \in Nat, F \in Nat, u \in 0 .. 1, e \in 0 .. 158, <1>10
<1>12. Add(sg, f) \in Word /\ Value(Add(sg, f)) = s + F
  <2>1. Value(sg) + Value(f) < Power2[32]
    BY <1>7, <1>8, <1>11, Modulus
  <2>. QED BY <1>1, <1>7, <1>8, <2>1, SmallSum
<1>13. /\ Add(Add(sg, f), E) \in Word
       /\ Value(Add(Add(sg, f), E)) = (s + F) + (128 * 256 * 256) * e
  <2>1. Value(Add(sg, f)) + Value(E) = (s + F) + (128 * 256 * 256) * e
    BY <1>5, <1>10, <1>12
  <2>2. Value(Add(sg, f)) + Value(E) < Power2[32]
    BY <1>11, <2>1, Modulus
  <2>. QED BY <1>5, <1>12, <2>1, <2>2, SmallSum
<1>14. /\ Add(Add(Add(sg, f), E), Flag(p)) \in Word
       /\ Value(Add(Add(Add(sg, f), E), Flag(p))) = ((s + F) + (128 * 256 * 256) * e) + u
  <2>1. Value(Add(Add(sg, f), E)) + Value(Flag(p)) = ((s + F) + (128 * 256 * 256) * e) + u
    BY <1>3, <1>9, <1>13
  <2>2. Value(Add(Add(sg, f), E)) + Value(Flag(p)) < Power2[32]
    BY <1>11, <2>1, Modulus
  <2>. QED BY <1>3, <1>13, <2>1, <2>2, SmallSum
<1>15. ((s + F) + (128 * 256 * 256) * e) + u = ((s + (128 * 256 * 256) * e) + F) + u
  BY ONLY s \in Nat, F \in Nat, u \in 0 .. 1, e \in 0 .. 158
<1>16. Summed(sg, f, e, p) = Add(Add(Add(sg, f), E), Flag(p))
  BY <1>4 DEF Summed
<1>17. ((Value(sg) + Power2[23] * e) + Value(f)) + (IF p THEN 1 ELSE 0)
         = ((s + (128 * 256 * 256) * e) + F) + u
  BY <1>7, <1>8, <1>9, <1>10
<1>. QED BY <1>14, <1>15, <1>16, <1>17

\* The bits of a word from its first one bit, h, on.
Kept(m, h) == {b - (h - 23) : b \in m} \cap (0 .. 23)

\* It is beyond a half of the last bit kept, or at a half and that bit is one.
RoundUp(m, h) == h - 24 \in m /\ (h - 23 \in m \/ \E b \in m : b < h - 24)

\* When the first one bit has been shifted out, the 23 bits that follow it are
\* the fraction and the nine others say how it is rounded.
LEMMA Mantissa ==
  ASSUME NEW m \in Word, NEW h \in m, \A b \in m : b <= h, NEW xx, xx = Shl(m, 32 - h)
  PROVE  /\ xx \in Word /\ ShrUnsigned(xx, 9) \in Word
         /\ \A k \in ShrUnsigned(xx, 9) : k < 23
         /\ Kept(m, h) = ShrUnsigned(xx, 9) \cup {23}
         /\ adjust(xx) = Flag(RoundUp(m, h))
<1>1. m \subseteq Bit /\ h \in Nat /\ h < 32
  BY BitsAre DEF Word
<1>2. \A b \in m : b \in Nat /\ b < 32
  BY <1>1, BitsAre
<1>3. \A k \in Bit : k \in xx <=> (k - 32) + h \in m
  <2>. SUFFICES ASSUME NEW k \in Bit PROVE k \in xx <=> (k - 32) + h \in m
    OBVIOUS
  <2>1. k \in Nat
    BY BitsAre
  <2>2. k \in xx <=> \E b \in m : k = b + (32 - h)
    BY DEF Shl
  <2>3. \A b \in m : k = b + (32 - h) <=> b = (k - 32) + h
    BY <1>1, <1>2, <2>1
  <2>. QED BY <2>2, <2>3
<1>4. xx \subseteq Bit
  BY DEF Shl
<1>5. \A k : k \in ShrUnsigned(xx, 9) <=> k \in 0 .. 22 /\ (k - 23) + h \in m
  <2>. SUFFICES ASSUME NEW k PROVE k \in ShrUnsigned(xx, 9) <=> k \in 0 .. 22 /\ (k - 23) + h \in m
    OBVIOUS
  <2>1. \A b \in xx : b \in Nat /\ b < 32
    BY <1>4, BitsAre
  <2>2. k \in ShrUnsigned(xx, 9) <=> k \in Bit /\ \E b \in xx : k = b - 9
    BY DEF ShrUnsigned
  <2>3. CASE k \in 0 .. 22
    <3>1. k \in Bit /\ k + 9 \in Bit
      BY <2>3, BitsAre
    <3>2. \A b \in xx : k = b - 9 <=> b = k + 9
      BY <2>1, <2>3
    <3>3. k \in ShrUnsigned(xx, 9) <=> k + 9 \in xx
      BY <2>2, <3>1, <3>2
    <3>4. ((k + 9) - 32) + h = (k - 23) + h
      BY <1>1, <2>3
    <3>5. k + 9 \in xx <=> ((k + 9) - 32) + h \in m
      BY <1>3, <3>1
    <3>. QED BY <2>3, <3>3, <3>4, <3>5
  <2>4. CASE k \notin 0 .. 22
    <3>1. ASSUME k \in Bit, NEW b \in xx, k = b - 9 PROVE FALSE
      BY <2>1, <2>4, <3>1, BitsAre
    <3>. QED BY <2>2, <2>4, <3>1
  <2>. QED BY <2>3, <2>4
<1>6. ShrUnsigned(xx, 9) \in Word /\ \A k \in ShrUnsigned(xx, 9) : k < 23
  <2>1. ShrUnsigned(xx, 9) \in Word
    BY DEF ShrUnsigned, Word
  <2>. QED BY <1>5, <2>1
<1>7. Kept(m, h) = ShrUnsigned(xx, 9) \cup {23}
  <2>. SUFFICES ASSUME NEW k PROVE k \in Kept(m, h) <=> k \in ShrUnsigned(xx, 9) \/ k = 23
    OBVIOUS
  <2>1. k \in Kept(m, h) <=> k \in 0 .. 23 /\ \E b \in m : k = b - (h - 23)
    BY DEF Kept
  <2>2. CASE k \in 0 .. 23
    <3>1. \A b \in m : k = b - (h - 23) <=> b = (k - 23) + h
      BY <1>1, <1>2, <2>2
    <3>2. k \in Kept(m, h) <=> (k - 23) + h \in m
      BY <2>1, <2>2, <3>1
    <3>3. CASE k = 23
      <4>1. (k - 23) + h = h
        BY <1>1, <3>3
      <4>. QED BY <3>2, <3>3, <4>1
    <3>4. CASE k # 23
      <4>1. k \in 0 .. 22
        BY <2>2, <3>4
      <4>. QED BY <1>5, <3>2, <3>4, <4>1
    <3>. QED BY <3>3, <3>4
  <2>3. CASE k \notin 0 .. 23
    <3>1. k # 23 /\ k \notin 0 .. 22
      BY <2>3
    <3>. QED BY <1>5, <2>1, <2>3, <3>1
  <2>. QED BY <2>2, <2>3
<1>8. 8 \in xx <=> h - 24 \in m
  <2>1. 8 \in Bit /\ (8 - 32) + h = h - 24
    BY <1>1, BitsAre
  <2>2. 8 \in xx <=> (8 - 32) + h \in m
    BY <1>3, <2>1
  <2>. QED BY <2>1, <2>2
<1>9. 9 \in xx <=> h - 23 \in m
  <2>1. 9 \in Bit /\ (9 - 32) + h = h - 23
    BY <1>1, BitsAre
  <2>2. 9 \in xx <=> (9 - 32) + h \in m
    BY <1>3, <2>1
  <2>. QED BY <2>1, <2>2
<1>10. (\E k \in 0 .. 7 : k \in xx) <=> \E b \in m : b < h - 24
  <2>1. ASSUME NEW k \in 0 .. 7, k \in xx PROVE \E b \in m : b < h - 24
    <3>1. k \in Bit
      BY BitsAre
    <3>2. (k - 32) + h \in m
      BY <1>3, <2>1, <3>1
    <3>3. (k - 32) + h < h - 24
      BY <1>1
    <3>. QED BY <3>2, <3>3
  <2>2. ASSUME NEW b \in m, b < h - 24 PROVE \E k \in 0 .. 7 : k \in xx
    <3>1. (b + 32) - h \in 0 .. 7
      BY <1>1, <1>2, <2>2
    <3>2. (b + 32) - h \in Bit
      BY <3>1, BitsAre
    <3>3. (((b + 32) - h) - 32) + h = b
      BY <1>1, <1>2
    <3>4. (b + 32) - h \in xx <=> (((b + 32) - h) - 32) + h \in m
      BY <1>3, <3>2
    <3>. QED BY <3>1, <3>3, <3>4
  <2>. QED BY <2>1, <2>2
<1>11. (8 \in xx \cap (0 .. 8) /\ xx \cap (0 .. 8) # {8}) <=> 8 \in xx /\ \E k \in 0 .. 7 : k \in xx
  <2>1. \A k : k \in 0 .. 8 <=> k \in 0 .. 7 \/ k = 8
    OBVIOUS
  <2>2. 8 \notin 0 .. 7
    OBVIOUS
  <2>. QED BY <2>1, <2>2
<1>12. xx \cap (0 .. 9) = {8, 9} <=> 8 \in xx /\ 9 \in xx /\ ~ \E k \in 0 .. 7 : k \in xx
  <2>1. \A k : k \in 0 .. 9 <=> k \in 0 .. 7 \/ k = 8 \/ k = 9
    OBVIOUS
  <2>2. 8 \notin 0 .. 7 /\ 9 \notin 0 .. 7
    OBVIOUS
  <2>. QED BY <2>1, <2>2
<1>13. adjust(xx) = Flag((8 \in xx \cap (0 .. 8) /\ xx \cap (0 .. 8) # {8}) \/ xx \cap (0 .. 9) = {8, 9})
  BY Zenon DEF adjust
<1>14. ((8 \in xx \cap (0 .. 8) /\ xx \cap (0 .. 8) # {8}) \/ xx \cap (0 .. 9) = {8, 9}) <=> RoundUp(m, h)
  BY <1>8, <1>9, <1>10, <1>11, <1>12 DEF RoundUp
<1>15. adjust(xx) = Flag(RoundUp(m, h))
  BY <1>13, <1>14 DEF Flag
<1>16. xx \in Word
  BY <1>4 DEF Word
<1>. QED BY <1>6, <1>7, <1>15, <1>16

\* The number that is converted, without its sign.
LEMMA MagnitudeIs ==
  ASSUME NEW x \in Word, x # {}
  PROVE  negate(x) \in Word /\ negate(x) # {} /\ Minus(x) = negate(x)
<1>1. Minus(x) = negate(x)
  BY DEF Minus, negate
<1>2. negate(x) \in Word
  BY <1>1, ValueMinus
<1>3. ASSUME negate(x) = {} PROVE FALSE
  <2>1. Add(x, {}) = {}
    BY <1>3, NegateRight
  <2>2. Value(x) + Value({}) < Power2[32] /\ Value(x) + Value({}) = Value(x)
    BY ValueZero, ValueRange
  <2>3. Value(Add(x, {})) = Value(x)
    BY <2>2, SmallSum, ValueZero
  <2>4. Value(x) = Value({})
    BY <2>1, <2>3
  <2>. QED BY <2>4, SameValue, ValueZero
<1>. QED BY <1>1, <1>2, <1>3

\* The float for the 24 bits n, kept and rounded, of a number whose first one bit
\* is h: a carry out of them goes to the exponent.
FloatOf(sg, h, n) ==
  sg \cup Shl(WordOf(127 + h + (IF n = Power2[24] THEN 1 ELSE 0)), 23)
     \cup (IF n = Power2[24] THEN {} ELSE WordOf(n - Power2[23]))

\* n has the fraction F, is rounded by u.
Rounded(n, F, u) == F < Power2[23] /\ n = (F + Power2[23]) + u

\* It has the number that the sum has.
LEMMA NearestIs ==
  ASSUME NEW sg, IsSign(sg), NEW h \in Bit, NEW F \in Nat, NEW u \in 0 .. 1,
         NEW n, Rounded(n, F, u)
  PROVE  /\ FloatOf(sg, h, n) \in Word
         /\ Value(FloatOf(sg, h, n)) = ((Value(sg) + Power2[23] * (127 + h)) + F) + u
<1>. DEFINE whole == n = Power2[24]
<1>. DEFINE R == sg \cup Shl(WordOf(127 + h + (IF whole THEN 1 ELSE 0)), 23)
                   \cup (IF whole THEN {} ELSE WordOf(n - Power2[23]))
<1>. USE DEF Rounded
<1>1. h \in Nat /\ h < 32
  BY BitsAre
<1>2. Power2[23] = 128 * 256 * 256 /\ Power2[24] = 256 * 256 * 256
  BY LargeWeights
<1>3. Value(sg) \in Int
  <2>1. sg \in Word
    BY BitsAre DEF Word, IsSign
  <2>. QED BY <2>1, ValueRange
<1>4. ASSUME whole
      PROVE  R \in Word /\ Value(R) = ((Value(sg) + Power2[23] * (127 + h)) + F) + u
  <2>1. (127 + h) + 1 \in 0 .. 159 /\ Fraction(0)
    BY <1>1, <1>2 DEF Fraction
  <2>2. PICK e \in 0 .. 159 : e = (127 + h) + 1
    BY <2>1
  <2>3. WordOf(0) = {}
    <3>1. WordOf(0) \in Word /\ Value(WordOf(0)) = 0
      BY LargeWeights, ValueWordOf
    <3>. QED BY <3>1, SameValue, ValueZero
  <2>4. R = Packed(sg, e, 0)
    BY <1>4, <2>2, <2>3 DEF Packed
  <2>5. R \in Word /\ Value(R) = (Value(sg) + Power2[23] * e) + 0
    <3>. HIDE DEF R
    <3>1. Packed(sg, e, 0) \in Word /\ Value(Packed(sg, e, 0)) = (Value(sg) + Power2[23] * e) + 0
      BY <2>1, PackedIs
    <3>. QED BY <2>4, <3>1
  <2>6. F + u = 128 * 256 * 256
    BY <1>2, <1>4
  <2>7. (Value(sg) + (128 * 256 * 256) * e) + 0 = ((Value(sg) + (128 * 256 * 256) * (127 + h)) + F) + u
    BY <1>1, <1>3, <2>2, <2>6
  <2>. QED BY <1>2, <2>5, <2>7
<1>5. ASSUME ~ whole
      PROVE  R \in Word /\ Value(R) = ((Value(sg) + Power2[23] * (127 + h)) + F) + u
  <2>1. 127 + h \in 0 .. 159
    BY <1>1
  <2>2. PICK e \in 0 .. 159 : e = 127 + h
    BY <2>1
  <2>3. PICK g \in Nat : g = F + u
    OBVIOUS
  <2>4. g = n - Power2[23] /\ g < Power2[23]
    BY <1>2, <1>5, <2>3
  <2>5. 127 + h + 0 = e
    BY <1>1, <2>2
  <2>6. R = Packed(sg, e, g)
    BY <1>5, <2>4, <2>5 DEF Packed
  <2>7. R \in Word /\ Value(R) = (Value(sg) + Power2[23] * e) + g
    <3>. HIDE DEF R
    <3>1. Fraction(g)
      BY <2>4 DEF Fraction
    <3>2. Packed(sg, e, g) \in Word /\ Value(Packed(sg, e, g)) = (Value(sg) + Power2[23] * e) + g
      BY <3>1, PackedIs
    <3>. QED BY <2>6, <3>2
  <2>8. (Value(sg) + (128 * 256 * 256) * e) + g = ((Value(sg) + (128 * 256 * 256) * (127 + h)) + F) + u
    BY <1>1, <1>3, <2>2, <2>3
  <2>. QED BY <1>2, <2>7, <2>8
<1>6. FloatOf(sg, h, n) = R
  BY Zenon DEF FloatOf
<1>. HIDE DEF R
<1>. QED BY <1>4, <1>5, <1>6

\* The converted number is the nearest float.
LEMMA FloatRight ==
  ASSUME NEW x \in Word, x # {}
  PROVE  float_i2f(x) = NearestFloat(x)
<1>. DEFINE m == IF 31 \in x THEN Minus(x) ELSE x
<1>. DEFINE h == Max(m)
<1>. DEFINE xx == Shl(m, 32 - h)
<1>. DEFINE frac == ShrUnsigned(xx, 9)
<1>. DEFINE n == Value(Kept(m, h)) + (IF RoundUp(m, h) THEN 1 ELSE 0)
<1>. DEFINE sg == x \cap {31}
<1>. DEFINE left == Add(Add(Add(sg, frac), Shl(WordOf(127 + h), 23)), adjust(xx))
<1>. DEFINE right == FloatOf(sg, h, n)
<1>1. m \in Word /\ m # {} /\ m = IF Negative(x) THEN negate(x) ELSE x
  BY MagnitudeIs DEF Negative
<1>2. h \in m /\ h \in Bit /\ \A b \in m : b <= h
  BY <1>1, MaxIs
<1>3. h \in Nat /\ h < 32
  BY <1>2, BitsAre
<1>4. float_i2f(x) = left
  <2>1. 127 + 32 - (W - h) = 127 + h /\ W - h = 32 - h
    BY <1>3 DEF W
  <2>2. float_i2f(x) = Add(Add(Add(sg, ShrUnsigned(Shl(m, W - h), 9)), Shl(WordOf(127 + 32 - (W - h)), 23)),
                           adjust(Shl(m, W - h)))
    BY Zenon DEF float_i2f, Turns
  <2>. HIDE DEF m, h, sg
  <2>. QED BY <2>1, <2>2, Zenon
<1>5. NearestFloat(x) = right
  <2>. DEFINE m1 == IF Negative(x) THEN negate(x) ELSE x
  <2>. DEFINE h1 == Max(m1)
  <2>. DEFINE n1 == Value(Kept(m1, h1)) + (IF RoundUp(m1, h1) THEN 1 ELSE 0)
  <2>1. NearestFloat(x) = FloatOf(sg, h1, n1)
    BY Zenon DEF NearestFloat, Kept, RoundUp, FloatOf
  <2>2. m1 = m
    BY <1>1
  <2>3. h1 = h
    BY <2>2, Zenon
  <2>4. n1 = n
    <3>. HIDE DEF m1, m, h1, h
    <3>. QED BY <2>2, <2>3, Zenon
  <2>. HIDE DEF n1, n, h1, h, sg
  <2>. QED BY <2>1, <2>3, <2>4, Zenon
<1>. HIDE DEF m, h
<1>6. /\ frac \in Word /\ \A k \in frac : k < 23
      /\ Kept(m, h) = frac \cup {23} /\ adjust(xx) = Flag(RoundUp(m, h))
  BY <1>1, <1>2, Mantissa
<1>. HIDE DEF xx, frac
<1>7. Value(frac) \in Nat /\ Value(frac) < Power2[23]
  <2>1. 23 \in 0 .. W
    BY DEF W
  <2>. QED BY <1>6, <2>1, ValueLess
<1>8. Value(Kept(m, h)) = Value(frac) + Power2[23]
  <2>1. {23} \in Word
    BY BitsAre DEF Word
  <2>2. Value({23}) = Power2[23]
    <3>1. 23 \in Bit /\ \A b \in One : b + 23 < 32
      BY DEF Bit, W, One
    <3>2. Value(Shl(One, 23)) = Power2[23] * Value(One)
      BY <3>1, ValueOne, ValueShl
    <3>3. Shl(One, 23) = {23}
      BY DEF Shl, One, Bit, W
    <3>4. Power2[23] \in Nat /\ Value(One) = 1
      BY Weights, ValueOne
    <3>. QED BY <3>2, <3>3, <3>4
  <2>3. 23 \notin frac
    BY <1>6
  <2>4. frac \cap {23} = {}
    BY <2>3
  <2>. QED BY <1>6, <2>1, <2>2, <2>4, ValueUnion
<1>9. PICK F \in Nat : F = Value(frac)
  BY <1>7
<1>10. PICK u \in 0 .. 1 : u = IF RoundUp(m, h) THEN 1 ELSE 0
  OBVIOUS
<1>11. F < Power2[23] /\ n = (F + Power2[23]) + u
  BY <1>7, <1>8, <1>9, <1>10
<1>12. IsSign(sg) /\ sg \in Word
  BY SignIs DEF IsSign
<1>. HIDE DEF sg, n
<1>13. right \in Word /\ Value(right) = ((Value(sg) + Power2[23] * (127 + h)) + F) + u
  <2>1. PICK num : num = n
    OBVIOUS
  <2>2. PICK s : s = sg /\ IsSign(s)
    BY <1>12
  <2>3. PICK j \in Bit : j = h
    BY <1>2
  <2>4. Rounded(num, F, u)
    BY <1>11, <2>1 DEF Rounded
  <2>5. /\ FloatOf(s, j, num) \in Word
        /\ Value(FloatOf(s, j, num)) = ((Value(s) + Power2[23] * (127 + j)) + F) + u
    BY <2>2, <2>4, NearestIs
  <2>. QED BY <2>1, <2>2, <2>3, <2>5
<1>14. left \in Word /\ Value(left) = ((Value(sg) + Power2[23] * (127 + h)) + F) + u
  <2>1. 127 + h \in 0 .. 158 /\ RoundUp(m, h) \in BOOLEAN
    BY <1>3 DEF RoundUp
  <2>2. PICK e \in 0 .. 158 : e = 127 + h
    BY <2>1
  <2>3. PICK p \in BOOLEAN : p = RoundUp(m, h)
    BY <2>1
  <2>4. left = Summed(sg, frac, e, p)
    BY <1>6, <2>2, <2>3 DEF Summed
  <2>. HIDE DEF left
  <2>5. /\ Summed(sg, frac, e, p) \in Word
        /\ Value(Summed(sg, frac, e, p))
             = ((Value(sg) + Power2[23] * e) + Value(frac)) + (IF p THEN 1 ELSE 0)
    <3>1. Fraction(Value(frac))
      BY <1>7 DEF Fraction
    <3>. QED BY <1>6, <1>12, <3>1, PackedSum
  <2>. QED BY <1>9, <1>10, <2>2, <2>3, <2>4, <2>5
<1>. HIDE DEF left, right
<1>. QED BY <1>4, <1>5, <1>13, <1>14, SameValue

-----------------------------------------------------------------------------
(* The theorems about the puzzles. *)

\* The puzzles with one argument, for every word.
LEMMA UnaryAreRight ==
  ASSUME NEW x \in Word
  PROVE  UnaryRight(x)
BY TminRight, NegateRight, EvenBitsRight, BitCountRight, IsNegativeRight, IsPower2Right,
   GreatestBitPosRight, FloatAbsRight DEF UnaryRight

LEMMA BinaryAreRight ==
  ASSUME NEW x \in Word, NEW y \in Word
  PROVE  BinaryRight(x, y)
<1>1. Not(y) \in Word
  BY DEF Not, Word
<1>. QED BY <1>1, BitAndRight, IsGreaterRight, ConditionalRight DEF BinaryRight

LEMMA CountsAreRight ==
  ASSUME NEW x \in Word, NEW n \in Bit
  PROVE  CountsRight(x, n)
BY LogicalShiftRight, FitsBitsRight DEF CountsRight

\* The arguments are words, and a number of bits.
WordsAndCount == word \in Word /\ another \in Word /\ count \in Bit

LEMMA ArgumentsAreWords == PuzzleSpec => []WordsAndCount
<1>1. PuzzleInit => WordsAndCount
  BY BitsConstantsOK, BitsAre DEF PuzzleInit, WordsAndCount, Word
<1>2. WordsAndCount /\ [PuzzleNext]_puzzleVars => WordsAndCount'
  BY BitsConstantsOK DEF WordsAndCount, PuzzleNext, AnotherWord, ANumber, puzzleVars
<1>. QED BY <1>1, <1>2, PTL DEF PuzzleSpec

\* Every puzzle returns what its comment promises, for every word, every two
\* words and every number of bits.
THEOREM PuzzlesSolved == PuzzleSpec => []PuzzlesRight
<1>1. WordsAndCount => PuzzlesRight
  BY UnaryAreRight, BinaryAreRight, CountsAreRight DEF WordsAndCount, PuzzlesRight
<1>. QED BY <1>1, ArgumentsAreWords, PTL

\* An int becomes the nearest float, and of two the even one, the carry into
\* the exponent included.
THEOREM FloatsRounded == PuzzleSpec => []RoundsToNearestEven
<1>1. float_i2f({}) = {}
  BY Zenon DEF float_i2f
<1>2. WordsAndCount => RoundsToNearestEven
  BY <1>1, FloatRight DEF WordsAndCount, RoundsToNearestEven
<1>. QED BY <1>2, ArgumentsAreWords, PTL
=============================================================================
