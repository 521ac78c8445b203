----------------------------- MODULE ParseLine -----------------------------
(***************************************************************************)
(* parseline of the tiny shell, and what eval makes of its result.         *)
(*                                                                         *)
(* A command line is the sequence of its lexemes: a redirection character  *)
(* where a token could start, or a token up to the next white-space or the *)
(* closing quote.  A token is known by its place in the line; all that     *)
(* matters of its text is whether it is the operator &, another token that *)
(* starts with & ("'&'": a quoted one, or &foo), the name of a built-in    *)
(* command, or a quote that is never closed.                               *)
(***************************************************************************)
EXTENDS Integers, Sequences, FiniteSets

CONSTANTS
  MAXARGS,     \* the places of argv
  Lexeme,      \* what lines are made of (a bound)
  LEXEMES      \* the longest line (a bound)

Builtin == {"quit", "jobs", "bg", "fg"}
Operators == {"&", "'&'"}      \* what the code takes for the operator &
Token == {"word"} \cup Operators \cup Builtin

ASSUME ParseConstantsOK ==
  /\ MAXARGS \in Nat \ {0, 1} /\ LEXEMES \in Nat
  /\ Lexeme \subseteq {"<", ">", "unclosed"} \cup Token

VARIABLES
  line,
  buf,              \* the lexeme to look at next
  parsing_state,    \* ST_INFILE, ST_OUTFILE: the bits that are set
  argv,             \* the arguments so far
  infile, outfile,  \* 0 for NULL
  builtins,
  result            \* parsing, or what parseline returns: error (-1),
                    \* foreground (0), background (1)

parseVars == <<line, buf, parsing_state, argv, infile, outfile, builtins, result>>

ParseInit ==
  /\ line \in UNION {[1 .. n -> Lexeme] : n \in 0 .. LEXEMES}
  /\ buf = 1 /\ parsing_state = {} /\ argv = << >>
  /\ infile = 0 /\ outfile = 0
  /\ builtins = "UNSET" /\ result = "parsing"

Error == result' = "error" /\ UNCHANGED <<line, buf, parsing_state, argv, infile, outfile, builtins>>

\* if (tok->argc >= MAXARGS-1) break
Full == Len(argv) >= MAXARGS - 1

\* Mutant: the loop ends one argument later.
Reading_Over == result = "parsing" /\ buf <= Len(line) /\ Len(argv) < MAXARGS

\* The loop goes on.
Reading == result = "parsing" /\ buf <= Len(line) /\ ~ Full

\* < or >: the next token is a file.  A second file is refused here already,
\* a second character only if it is of the other kind.
Redirection ==
  /\ Reading
  /\ line[buf] \in {"<", ">"}
  /\ IF (line[buf] = "<" /\ infile # 0) \/ (line[buf] = ">" /\ outfile # 0) THEN Error
     ELSE /\ parsing_state' = parsing_state \cup {line[buf]}
          /\ buf' = buf + 1
          /\ UNCHANGED <<line, argv, infile, outfile, builtins, result>>

\* A token is an argument or a file.
Record ==
  /\ Reading
  /\ line[buf] \in Token
  /\ IF parsing_state = {"<", ">"} THEN Error
     ELSE /\ argv' = IF parsing_state = {} THEN Append(argv, buf) ELSE argv
          /\ infile' = IF parsing_state = {"<"} THEN buf ELSE infile
          /\ outfile' = IF parsing_state = {">"} THEN buf ELSE outfile
          /\ parsing_state' = {}
          /\ buf' = buf + 1
          /\ UNCHANGED <<line, builtins, result>>

Unmatched == Reading /\ line[buf] = "unclosed" /\ Error

\* After the loop: the file name is missing, the line is blank, or the
\* built-in command is looked up and a last argument that starts with & taken off:
\* the quotes are gone by now.
Finish ==
  /\ result = "parsing" /\ ~ Reading
  /\ IF parsing_state # {} THEN Error
     ELSE IF argv = << >> THEN result' = "background" /\ UNCHANGED <<argv, builtins>>
     ELSE LET background == line[argv[Len(argv)]] \in Operators IN
          /\ builtins' = IF line[argv[1]] \in Builtin THEN line[argv[1]] ELSE "none"
          /\ argv' = IF background THEN SubSeq(argv, 1, Len(argv) - 1) ELSE argv
          /\ result' = IF background THEN "background" ELSE "foreground"
  /\ UNCHANGED <<line, buf, parsing_state, infile, outfile>>

ParseNext == Redirection \/ Record \/ Unmatched \/ Finish

ParseSpec == ParseInit /\ [][ParseNext]_parseVars

\* What eval does with the line: nothing, a built-in command, or a child.
Evaluated ==
  CASE result = "error" \/ argv = << >> -> "nothing"
    [] argv # << >> /\ builtins \in Builtin -> builtins
    [] OTHER -> "fork"

-----------------------------------------------------------------------------
(* Properties. *)

TokensOf(l) == {k \in 1 .. Len(l) : l[k] \in Token}
FilesOf(l, redirection) == {k \in TokensOf(l) : k > 1 /\ l[k - 1] = redirection}

\* The places of the arguments in line l, and those places in order.
ArgumentsOf(l) == TokensOf(l) \ (FilesOf(l, "<") \cup FilesOf(l, ">"))

InOrder(places) ==
  [k \in 1 .. Cardinality(places) |->
     CHOOSE p \in places : Cardinality({q \in places : q < p}) = k - 1]

WordsOf(l) == InOrder(ArgumentsOf(l))

\* The part of the line up to the argument that fills argv.
Seen ==
  LET words == WordsOf(line) IN
  IF Len(words) < MAXARGS - 1 THEN line ELSE SubSeq(line, 1, words[MAXARGS - 1])

\* Every quote is closed, every redirection has a file, no two have the same kind.
WellFormed(l) ==
  /\ \A k \in 1 .. Len(l) :
       /\ l[k] # "unclosed"
       /\ l[k] \in {"<", ">"} => k < Len(l) /\ l[k + 1] \in Token
  /\ Cardinality(FilesOf(l, "<")) <= 1 /\ Cardinality(FilesOf(l, ">")) <= 1

\* "command [arguments...] [< infile] [> oufile] [&]", in any order: a line of
\* that form, up to what fits in argv, is taken apart as it is written, with what
\* is quoted as an argument, and "if cmdline is incorrectly formatted" it is
\* refused; eval runs the first word, and nothing if there is none.
AsDocumented ==
  result # "parsing" =>
    LET words == WordsOf(Seen)
        background == words # << >> /\ line[words[Len(words)]] = "&"
        arguments == IF background THEN SubSeq(words, 1, Len(words) - 1) ELSE words
    IN /\ result = "error" <=> ~ WellFormed(Seen)
       /\ result # "error" =>
            /\ argv = arguments
            /\ FilesOf(Seen, "<") = {infile} \ {0}
            /\ FilesOf(Seen, ">") = {outfile} \ {0}
            /\ words # << >> => (result = "background" <=> background)
            /\ Evaluated = IF arguments = << >> THEN "nothing"
                           ELSE IF line[arguments[1]] \in Builtin THEN line[arguments[1]]
                           ELSE "fork"

\* The code departs from that in two ways: it reads a repeated < or > as one, and
\* takes a last argument for the operator if only it starts with &.
Plain(l) ==
  /\ \A k \in 1 .. Len(l) - 1 : l[k] \in {"<", ">"} => l[k + 1] # l[k]
  /\ LET words == WordsOf(l) IN words # << >> => l[words[Len(words)]] # "'&'"

\* All other lines are taken apart, or refused, as they are written; and argv has
\* room for its final NULL.
ParsedAsWritten ==
  /\ Len(argv) < MAXARGS
  /\ Plain(Seen) => AsDocumented
=============================================================================
