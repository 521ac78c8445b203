----------------------------- MODULE RioStream -----------------------------
(***************************************************************************)
(* What the Rio functions of csapp.c promise their caller: the bytes of a  *)
(* stream in order, each once, cut into the pieces that the calls ask for, *)
(* however the kernel cuts them.  Bytes are known by their places.         *)
(***************************************************************************)
EXTENDS Integers, FiniteSetsExt

VARIABLES
  length, newlines,   \* the stream: how many bytes, which of them end a line
  state,              \* idle, asked, answered, failed
  call,               \* the function called and its n or maxlen
  taken,              \* the bytes handed over so far
  result              \* the bytes of the last answer

vars == <<length, newlines, state, call, taken, result>>

\* A line ends with its newline, with the stream, or when the buffer is full
\* but for its final zero; rio_readn and rio_readnb only look at the count.
End ==
  IF call.fn = "rio_readlineb"
  THEN Min({taken + call.n - 1, length} \cup {p \in newlines : p > taken})
  ELSE Min({taken + call.n, length})

Init ==
  /\ length \in Nat /\ newlines \subseteq 1 .. length
  /\ state = "idle" /\ taken = 0 /\ result = << >>

Ask ==
  /\ state = "idle" /\ state' = "asked"
  /\ UNCHANGED <<length, newlines, taken, result>>

Answer ==
  /\ state = "asked" /\ state' = "answered"
  /\ result' = [i \in 1 .. (End - taken) |-> taken + i]
  /\ taken' = End
  /\ UNCHANGED <<length, newlines, call>>

\* The result is used; at the end of the stream nothing follows.
Use ==
  /\ state = "answered" /\ result # << >> /\ state' = "idle"
  /\ result' = << >>
  /\ UNCHANGED <<length, newlines, call, taken>>

Fail ==
  /\ state = "asked" /\ state' = "failed"
  /\ UNCHANGED <<length, newlines, call, taken, result>>

Next == Ask \/ Answer \/ Use \/ Fail

Spec == Init /\ [][Next]_vars
=============================================================================
