-------------------------------- MODULE Rio --------------------------------
(***************************************************************************)
(* The Rio package of csapp.c under a program that, like the loop of       *)
(* thread_pro, writes to one descriptor what it reads from another until   *)
(* the end of file.  The kernel may cut a read or a write short, interrupt *)
(* it or fail.                                                             *)
(*                                                                         *)
(* A byte is the place it has in the stream; all that is known of it is    *)
(* whether it is a newline.                                                *)
(***************************************************************************)
EXTENDS Integers, Sequences, FiniteSetsExt

CONSTANTS
  LENGTH,        \* the longest stream (a bound)
  RIO_BUFSIZE,
  Call           \* the calls the program makes: [fn, n]

Fn == {"rio_readn", "rio_readnb", "rio_readlineb"}

\* A call with room for no byte at all would look like the end of file.
ASSUME RioConstantsOK ==
  /\ LENGTH \in Nat
  /\ RIO_BUFSIZE \in Nat \ {0}
  /\ Call \subseteq [fn : Fn, n : Nat \ {0}]
  /\ \A c \in Call : c.fn = "rio_readlineb" => c.n > 1

VARIABLES
  length, newlines,   \* the stream
  buffered,           \* whether the program uses the buffered functions
  pos,                \* the bytes the kernel has handed out
  rio_buf, rio_bufptr, rio_cnt,
  pc,                 \* the function the program is in, or idle, end, error
  call,
  usrbuf,             \* the bytes the current call has stored
  nwritten,           \* of them, those rio_writen has written
  out,                \* the bytes that came out at the other end
  broken              \* whether a write has failed

stream == <<length, newlines, buffered>>
rio == <<rio_buf, rio_bufptr, rio_cnt>>
vars == <<stream, pos, rio, pc, call, usrbuf, nwritten, out, broken>>

\* rio_readinitb
Init ==
  /\ length \in 0 .. LENGTH /\ newlines \in SUBSET (1 .. length)
  /\ buffered \in BOOLEAN
  /\ pos = 0
  /\ rio_buf = [i \in 0 .. RIO_BUFSIZE - 1 |-> 0] /\ rio_bufptr = 0 /\ rio_cnt = 0
  /\ pc = "idle" /\ call \in Call /\ usrbuf = << >>
  /\ nwritten = 0 /\ out = << >> /\ broken = FALSE

\* No program mixes the buffered functions with the unbuffered one.
Start ==
  /\ pc = "idle"
  /\ \E c \in Call :
       /\ c.fn # "rio_readn" <=> buffered
       /\ call' = c /\ pc' = c.fn
  /\ usrbuf' = << >> /\ nwritten' = 0
  /\ UNCHANGED <<stream, pos, rio, out, broken>>

-----------------------------------------------------------------------------
(* Reading. *)

\* Mutant: the loop of rio_readlineb runs up to maxlen.
Wanted_Maxlen ==
  IF pc = "rio_readlineb"
  THEN /\ Len(usrbuf) < call.n
       /\ usrbuf # << >> => usrbuf[Len(usrbuf)] \notin newlines
  ELSE pc \in Fn /\ Len(usrbuf) < call.n

\* The loops of the three functions go on: for n < maxlen and no newline yet,
\* or while nleft > 0.
Wanted ==
  IF pc = "rio_readlineb"
  THEN /\ Len(usrbuf) + 1 < call.n
       /\ usrbuf # << >> => usrbuf[Len(usrbuf)] \notin newlines
  ELSE pc \in Fn /\ Len(usrbuf) < call.n

\* Nothing read at all is the end of file to the program, which stops.
Returns == pc' = IF usrbuf = << >> THEN "end" ELSE "rio_writen"

Return ==
  /\ pc \in Fn /\ ~ Wanted
  /\ Returns
  /\ UNCHANGED <<stream, pos, rio, call, usrbuf, nwritten, out, broken>>

\* rio_read has to call read: the internal buffer is empty.
Reads == buffered /\ Wanted /\ rio_cnt <= 0

\* read stores k bytes in the internal buffer.
ReadData(k) ==
  /\ pos' = pos + k
  /\ rio_buf' = [i \in DOMAIN rio_buf |-> IF i < k THEN pos + i + 1 ELSE rio_buf[i]]
  /\ rio_cnt' = k
  /\ rio_bufptr' = 0

Refill ==
  /\ Reads
  /\ \E k \in 1 .. Min({RIO_BUFSIZE, length - pos}) : ReadData(k)
  /\ UNCHANGED <<stream, pc, call, usrbuf, nwritten, out, broken>>

\* EINTR leaves rio_cnt negative, which the loop takes for an empty buffer.
RefillInterrupted ==
  /\ Reads
  /\ rio_cnt' = -1
  /\ UNCHANGED <<stream, pos, rio_buf, rio_bufptr, pc, call, usrbuf, nwritten, out, broken>>

\* Any other error ends the program, in the wrapper.
RefillFails ==
  /\ Reads
  /\ rio_cnt' = -1 /\ pc' = "error"
  /\ UNCHANGED <<stream, pos, rio_buf, rio_bufptr, call, usrbuf, nwritten, out, broken>>

\* Mutant: the end of file is tried again like an interrupted read.
EndOfFile_Retries ==
  /\ Wanted /\ pos = length
  /\ ~ buffered \/ rio_cnt <= 0
  /\ rio_cnt' = 0
  /\ IF usrbuf = << >> THEN Returns ELSE UNCHANGED pc
  /\ UNCHANGED <<stream, pos, rio_buf, rio_bufptr, call, usrbuf, nwritten, out, broken>>

\* The end of file: what has been read so far is the answer.
EndOfFile ==
  /\ Wanted /\ pos = length
  /\ ~ buffered \/ rio_cnt <= 0
  /\ rio_cnt' = 0
  /\ Returns
  /\ UNCHANGED <<stream, pos, rio_buf, rio_bufptr, call, usrbuf, nwritten, out, broken>>

\* rio_read copies: one byte for rio_readlineb, all it has and can use for
\* rio_readnb.
Copy ==
  /\ buffered /\ Wanted /\ rio_cnt > 0
  /\ LET cnt == IF pc = "rio_readlineb" THEN 1 ELSE Min({rio_cnt, call.n - Len(usrbuf)}) IN
       /\ usrbuf' = usrbuf \o [i \in 1 .. cnt |-> rio_buf[rio_bufptr + i - 1]]
       /\ rio_bufptr' = rio_bufptr + cnt
       /\ rio_cnt' = rio_cnt - cnt
  /\ UNCHANGED <<stream, pos, rio_buf, pc, call, nwritten, out, broken>>

\* rio_readn reads into the caller's buffer; an interrupted read counts zero.
Readn ==
  /\ pc = "rio_readn" /\ Wanted
  /\ \/ \E k \in 1 .. Min({call.n - Len(usrbuf), length - pos}) :
          /\ usrbuf' = usrbuf \o [i \in 1 .. k |-> pos + i]
          /\ pos' = pos + k
          /\ UNCHANGED pc
     \/ pc' = "error" /\ UNCHANGED <<usrbuf, pos>>
  /\ UNCHANGED <<stream, rio, call, nwritten, out, broken>>

-----------------------------------------------------------------------------
(* Writing. *)

\* Mutant: the rest is written from the start of the buffer.
Written_Restarts(k) == SubSeq(usrbuf, 1, k)

\* The next k bytes at bufp.
Written(k) == SubSeq(usrbuf, nwritten + 1, nwritten + k)

\* write takes k bytes; an interrupted write, like one of no bytes, changes nothing.
Write ==
  /\ pc = "rio_writen" /\ ~ broken
  /\ \E k \in 1 .. Len(usrbuf) - nwritten :
       /\ out' = out \o Written(k)
       /\ nwritten' = nwritten + k
  /\ UNCHANGED <<stream, pos, rio, pc, call, usrbuf, broken>>

\* The program goes on after a write that fails, as thread_pro does.
WriteFails ==
  /\ pc = "rio_writen" /\ nwritten < Len(usrbuf)
  /\ broken' = TRUE /\ pc' = "idle"
  /\ UNCHANGED <<stream, pos, rio, call, usrbuf, nwritten, out>>

WriteReturns ==
  /\ pc = "rio_writen" /\ nwritten = Len(usrbuf)
  /\ pc' = "idle"
  /\ UNCHANGED <<stream, pos, rio, call, usrbuf, nwritten, out, broken>>

Progress ==
  \/ Start \/ Return \/ Refill \/ EndOfFile \/ Copy \/ Readn
  \/ Write \/ WriteFails \/ WriteReturns

Next == Progress \/ RefillInterrupted \/ RefillFails

Spec == Init /\ [][Next]_vars

\* The peer sends or closes, and no signal interrupts a call for ever.
FairSpec == Spec /\ WF_vars(Progress)

-----------------------------------------------------------------------------
(* Properties. *)

\* What the internal buffer still holds.
Unread == IF rio_cnt > 0 THEN rio_cnt ELSE 0

TypeOK ==
  /\ length \in 0 .. LENGTH /\ newlines \subseteq 1 .. length /\ buffered \in BOOLEAN
  /\ pos \in 0 .. length
  /\ rio_buf \in [0 .. RIO_BUFSIZE - 1 -> 0 .. length]
  /\ rio_bufptr \in 0 .. RIO_BUFSIZE /\ rio_cnt \in -1 .. RIO_BUFSIZE - rio_bufptr
  /\ pc \in Fn \cup {"idle", "rio_writen", "end", "error"}
  /\ call \in Call
  /\ usrbuf \in Seq(1 .. length) /\ Len(usrbuf) <= call.n
  /\ nwritten \in 0 .. Len(usrbuf)
  /\ out \in Seq(1 .. length) /\ broken \in BOOLEAN

\* The program passes on the stream, no byte lost, twice or out of its turn,
\* whatever the kernel does to the calls; when it stops all of it is out,
\* unless a write failed.
PassedOn ==
  /\ \A i \in 1 .. Len(out) : out[i] = i
  /\ pc = "end" /\ ~ broken => Len(out) = length

\* Every call returns, however it is interrupted.
CallsReturn == pc \in Fn ~> pc \notin Fn

\* What the caller sees of a call: where it is, what it has been handed, and
\* what the last call returned.
CallState ==
  IF pc \in Fn THEN "asked"
  ELSE IF pc \in {"rio_writen", "end"} THEN "answered"
  ELSE IF pc = "error" THEN "failed" ELSE "idle"

Taken == pos - Unread - (IF pc \in Fn \cup {"error"} THEN Len(usrbuf) ELSE 0)

Result == IF pc = "rio_writen" THEN usrbuf ELSE << >>

\* Refills, short counts and interruptions do not show in what the calls return.
Stream ==
  INSTANCE RioStream WITH state <- CallState, taken <- Taken, result <- Result

ImplementsStream == Stream!Spec
=============================================================================
