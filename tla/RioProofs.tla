----------------------------- MODULE RioProofs -----------------------------
(***************************************************************************)
(* Proofs about Rio, for streams, buffers and calls of any size: types,    *)
(* that the bytes pass through both buffers and come out in order, and     *)
(* that every call returns what RioStream says.                            *)
(*                                                                         *)
(* What is passed on so far says nothing of the next byte: the invariant   *)
(* has to say which bytes wait where.  The internal buffer holds the last  *)
(* ones the kernel handed out, the caller's those before them, and of      *)
(* these rio_writen has written the first.                                 *)
(***************************************************************************)
EXTENDS Rio, SequenceTheorems, TLAPS

\* The least of two.
LEMMA MinOfTwo ==
  ASSUME NEW a \in Int, NEW b \in Int
  PROVE  Min({a, b}) \in {a, b} /\ Min({a, b}) <= a /\ Min({a, b}) <= b
<1>1. \E x \in {a, b} : \A y \in {a, b} : x <= y
  <2>1. CASE a <= b
    BY <2>1
  <2>2. CASE ~ a <= b
    BY <2>2
  <2> QED
    BY <2>1, <2>2
<1> QED
  BY <1>1 DEF Min

\* A piece of a stream is a sequence.
LEMMA Piece ==
  ASSUME NEW T, NEW n \in Nat, NEW f \in [1 .. n -> T]
  PROVE  f \in Seq(T) /\ Len(f) = n
OBVIOUS

\* What a read adds to a buffer.
LEMMA Joined ==
  ASSUME NEW T, NEW u \in Seq(T), NEW f \in Seq(T)
  PROVE  /\ u \o f \in Seq(T)
         /\ Len(u \o f) = Len(u) + Len(f)
         /\ \A i \in 1 .. Len(u) : (u \o f)[i] = u[i]
         /\ \A i \in 1 .. Len(f) : (u \o f)[Len(u) + i] = f[i]
<1>1. Len(u) \in Nat /\ Len(f) \in Nat
  BY LenProperties
<1>2. /\ u \o f \in Seq(T) /\ Len(u \o f) = Len(u) + Len(f)
      /\ \A i \in 1 .. Len(u) + Len(f) :
           (u \o f)[i] = IF i <= Len(u) THEN u[i] ELSE f[i - Len(u)]
  BY ConcatProperties
<1> QED
  BY <1>1, <1>2

-----------------------------------------------------------------------------
(* The invariant. *)

\* Where the stream goes on after the bytes in the caller's buffer.
Handed == pos - Unread

\* Where it went on when the call began.
Given == Handed - Len(usrbuf)

\* The internal buffer holds the last bytes of those handed out.
BufferHolds ==
  /\ Unread <= pos
  /\ \A i \in 0 .. Unread - 1 : rio_buf[rio_bufptr + i] = Handed + 1 + i

\* The caller's buffer holds those before them, unless it was used already.
CallerHolds ==
  pc # "idle" =>
    /\ Len(usrbuf) <= Handed
    /\ \A i \in 1 .. Len(usrbuf) : usrbuf[i] = Handed - Len(usrbuf) + i

\* And everything before them is out.
OutHolds ==
  /\ \A i \in 1 .. Len(out) : out[i] = i
  /\ ~ broken =>
       Len(out) = IF pc = "idle" THEN Handed ELSE Handed - Len(usrbuf) + nwritten

\* The two kinds of functions do not meet; the program stops at the end.
Phases ==
  /\ ~ buffered => rio_cnt = 0
  /\ pc \in Fn => (pc # "rio_readn" <=> buffered) /\ pc = call.fn
  /\ pc \in Fn => nwritten = 0
  /\ pc = "end" => usrbuf = << >> /\ Handed = length

IInv == TypeOK /\ BufferHolds /\ CallerHolds /\ OutHolds /\ Phases

\* The numbers among the variables.
LEMMA Numbers ==
  ASSUME TypeOK
  PROVE  /\ length \in Nat /\ pos \in Nat /\ pos <= length
         /\ RIO_BUFSIZE \in Nat \ {0} /\ rio_bufptr \in Nat /\ rio_cnt \in Int
         /\ rio_bufptr + rio_cnt <= RIO_BUFSIZE /\ rio_bufptr <= RIO_BUFSIZE
         /\ call.fn \in Fn /\ call.n \in Nat \ {0} /\ (call.fn = "rio_readlineb" => call.n > 1)
         /\ Len(usrbuf) \in Nat /\ nwritten \in Nat /\ nwritten <= Len(usrbuf) /\ Len(out) \in Nat
         /\ Unread \in Nat /\ (rio_cnt > 0 => Unread = rio_cnt) /\ (rio_cnt <= 0 => Unread = 0)
<1>1. /\ length \in Nat /\ pos \in Nat /\ pos <= length
      /\ RIO_BUFSIZE \in Nat \ {0} /\ rio_bufptr \in Nat /\ rio_bufptr <= RIO_BUFSIZE
  BY RioConstantsOK DEF TypeOK
<1>2. rio_cnt \in Int /\ rio_bufptr + rio_cnt <= RIO_BUFSIZE
  <2>1. rio_cnt \in -1 .. RIO_BUFSIZE - rio_bufptr
    BY DEF TypeOK
  <2> QED
    BY <1>1, <2>1
<1>3. call.fn \in Fn /\ call.n \in Nat \ {0} /\ (call.fn = "rio_readlineb" => call.n > 1)
  BY RioConstantsOK DEF TypeOK
<1>4. Len(usrbuf) \in Nat /\ Len(out) \in Nat
  BY LenProperties DEF TypeOK
<1>5. nwritten \in Nat /\ nwritten <= Len(usrbuf)
  BY <1>4 DEF TypeOK
<1> QED
  BY <1>1, <1>2, <1>3, <1>4, <1>5 DEF Unread

LEMMA Initially == Init => IInv
<1> SUFFICES ASSUME Init PROVE IInv
  OBVIOUS
<1>1. TypeOK
  <2>1. /\ length \in 0 .. LENGTH /\ newlines \subseteq 1 .. length /\ buffered \in BOOLEAN
        /\ pos \in 0 .. length /\ pc \in {"idle"} /\ call \in Call /\ broken \in BOOLEAN
    BY RioConstantsOK DEF Init
  <2>2. rio_buf \in [0 .. RIO_BUFSIZE - 1 -> 0 .. length]
    <3>1. 0 \in 0 .. length
      BY RioConstantsOK DEF Init
    <3> QED
      BY <3>1 DEF Init
  <2>3. rio_bufptr \in 0 .. RIO_BUFSIZE /\ rio_cnt \in -1 .. RIO_BUFSIZE - rio_bufptr
    BY RioConstantsOK DEF Init
  <2>4. /\ usrbuf \in Seq(1 .. length) /\ out \in Seq(1 .. length)
        /\ Len(usrbuf) <= call.n /\ nwritten \in 0 .. Len(usrbuf)
    BY RioConstantsOK DEF Init
  <2> QED
    BY <2>1, <2>2, <2>3, <2>4 DEF TypeOK
<1>2. BufferHolds /\ CallerHolds /\ OutHolds /\ Phases
  BY DEF Init, BufferHolds, CallerHolds, OutHolds, Phases, Handed, Unread, Fn
<1> QED
  BY <1>1, <1>2 DEF IInv

\* A call empties the caller's buffer, whose bytes are out by now.
LEMMA StartKeeps == IInv /\ Start => IInv'
<1> SUFFICES ASSUME IInv, Start PROVE IInv'
  OBVIOUS
<1> USE DEF IInv, Start, stream, rio
<1>1. TypeOK'
  BY RioConstantsOK DEF TypeOK, Fn
<1>2. Unread' = Unread /\ Handed' = Handed /\ Handed \in Nat
  BY Numbers DEF BufferHolds, Handed, Unread
<1>3. BufferHolds' /\ OutHolds'
  BY <1>2 DEF BufferHolds, OutHolds, Fn
<1>4. usrbuf' = << >> /\ Len(usrbuf') = 0
  OBVIOUS
<1>5. CallerHolds'
  <2>1. Len(usrbuf') <= Handed' /\ 1 .. Len(usrbuf') = {}
    BY <1>2, <1>4
  <2> QED
    BY <2>1 DEF CallerHolds
<1>6. Phases'
  <2>1. PICK c \in Call : (c.fn # "rio_readn" <=> buffered) /\ call' = c /\ pc' = c.fn
    OBVIOUS
  <2>2. c.fn \in Fn
    BY RioConstantsOK
  <2> QED
    BY <2>1, <2>2 DEF Phases, Fn
<1> QED
  BY <1>1, <1>3, <1>5, <1>6

\* No call returns without a byte unless the stream has ended.
LEMMA ReturnsBytes == IInv /\ Return => usrbuf # << >>
<1> SUFFICES ASSUME IInv, Return, usrbuf = << >> PROVE FALSE
  OBVIOUS
<1>1. (pc = "rio_readlineb" => call.n > 1) /\ call.n > 0 /\ pc \in Fn /\ ~ Wanted
  BY Numbers DEF IInv, Phases, Return
<1>2. Len(usrbuf) = 0 /\ call.n \in Nat
  BY Numbers DEF IInv
<1> QED
  BY <1>1, <1>2 DEF Wanted

LEMMA ReturnKeeps == IInv /\ Return => IInv'
<1> SUFFICES ASSUME IInv, Return PROVE IInv'
  OBVIOUS
<1>1. usrbuf # << >>
  BY ReturnsBytes
<1> USE DEF IInv, Return, Returns, stream, rio
<1>2. TypeOK'
  BY <1>1 DEF TypeOK
<1>3. BufferHolds' /\ CallerHolds' /\ OutHolds' /\ Phases'
  BY <1>1 DEF BufferHolds, CallerHolds, OutHolds, Phases, Handed, Unread, Fn
<1> QED
  BY <1>2, <1>3

\* A refill hands out the next bytes, which the internal buffer keeps back.
LEMMA RefillKeeps == IInv /\ Refill => IInv' /\ Handed' = Handed
<1> SUFFICES ASSUME IInv, Refill PROVE IInv' /\ Handed' = Handed
  OBVIOUS
<1>1. PICK k \in 1 .. Min({RIO_BUFSIZE, length - pos}) : ReadData(k)
  BY DEF Refill
<1>2. k \in Nat \ {0} /\ k <= RIO_BUFSIZE /\ k <= length - pos
  <2>1. RIO_BUFSIZE \in Int /\ length - pos \in Int
    BY Numbers DEF IInv
  <2>2. /\ Min({RIO_BUFSIZE, length - pos}) \in Int
        /\ Min({RIO_BUFSIZE, length - pos}) <= RIO_BUFSIZE
        /\ Min({RIO_BUFSIZE, length - pos}) <= length - pos
    BY <2>1, MinOfTwo
  <2> QED
    BY <2>1, <2>2
<1>3. pos \in Nat /\ length \in Nat /\ Unread = 0 /\ Unread' = k /\ Handed' = Handed /\ Handed = pos
  BY <1>1, <1>2, Numbers DEF IInv, Refill, Reads, ReadData, Unread, Handed
<1>4. rio_buf' \in [0 .. RIO_BUFSIZE - 1 -> 0 .. length]
  BY <1>1, <1>2 DEF IInv, TypeOK, ReadData
<1>5. TypeOK'
  <2>1. pos' \in 0 .. length /\ rio_bufptr' = 0 /\ rio_cnt' \in -1 .. RIO_BUFSIZE
    BY SMTT(20), <1>1, <1>2, Numbers DEF IInv, ReadData
  <2>2. UNCHANGED <<length, newlines, buffered, pc, call, usrbuf, nwritten, out, broken>>
    BY DEF Refill, stream
  <2>3. TypeOK /\ RIO_BUFSIZE - 0 = RIO_BUFSIZE /\ 0 \in 0 .. RIO_BUFSIZE
    BY Numbers, RioConstantsOK DEF IInv
  <2> HIDE DEF Refill
  <2> QED
    BY <1>4, <2>1, <2>2, <2>3 DEF TypeOK
<1>6. BufferHolds'
  BY <1>1, <1>2, <1>3, RioConstantsOK DEF IInv, TypeOK, BufferHolds, ReadData
<1>7. CallerHolds' /\ OutHolds'
  BY <1>3 DEF IInv, CallerHolds, OutHolds, Refill
<1>8. Phases'
  BY <1>3 DEF IInv, Phases, Refill, Reads, Wanted, stream, Fn
<1> QED
  BY <1>3, <1>5, <1>6, <1>7, <1>8 DEF IInv

\* A read that returns nothing leaves everything as it is.
LEMMA NothingReadKeeps ==
  ASSUME IInv, rio_cnt <= 0, rio_cnt' \in {-1, 0}, ~ buffered => rio_cnt' = 0,
         \/ pc' = pc
         \/ pc' = "error" /\ pc \in Fn
         \/ pc' = "rio_writen" /\ pc \in Fn
         \/ pc' = "end" /\ pc \in Fn /\ usrbuf = << >> /\ pos = length,
         UNCHANGED <<stream, pos, rio_buf, rio_bufptr, call, usrbuf, nwritten, out, broken>>
  PROVE  IInv'
<1> USE DEF IInv, stream
<1>1. Unread = 0 /\ Unread' = 0 /\ Handed' = Handed /\ Handed = pos
  BY Numbers DEF Unread, Handed
<1>2. TypeOK'
  <2>1. rio_cnt' \in -1 .. RIO_BUFSIZE - rio_bufptr
    BY Numbers
  <2> QED
    BY <2>1 DEF TypeOK
<1>3. BufferHolds' /\ CallerHolds' /\ OutHolds'
  BY <1>1 DEF TypeOK, BufferHolds, CallerHolds, OutHolds, Fn
<1>4. Phases'
  BY <1>1 DEF Phases, Fn
<1> QED
  BY <1>2, <1>3, <1>4

LEMMA EndOfFileKeeps == IInv /\ EndOfFile => IInv'
<1> SUFFICES ASSUME IInv, EndOfFile PROVE IInv'
  OBVIOUS
<1>1. rio_cnt <= 0 /\ pc \in Fn
  BY DEF IInv, TypeOK, Phases, EndOfFile, Wanted, Fn
<1> QED
  BY <1>1, NothingReadKeeps DEF EndOfFile, Returns

\* The bytes copied are the next ones, and fit in the caller's buffer.
LEMMA CopyKeeps == IInv /\ Copy => IInv' /\ Given' = Given
<1> SUFFICES ASSUME IInv, Copy PROVE IInv' /\ Given' = Given
  OBVIOUS
<1> DEFINE cnt == IF pc = "rio_readlineb" THEN 1 ELSE Min({rio_cnt, call.n - Len(usrbuf)})
           f == [i \in 1 .. cnt |-> rio_buf[rio_bufptr + i - 1]]
<1>1. Len(usrbuf) \in Nat /\ call.n \in Nat /\ pc \in Fn /\ rio_cnt > 0 /\ rio_cnt \in Nat
  BY Numbers DEF IInv, Copy, Wanted, Fn
<1>2. cnt \in Nat \ {0} /\ cnt <= rio_cnt /\ Len(usrbuf) + cnt <= call.n
  <2>1. CASE pc = "rio_readlineb"
    BY <1>1, <2>1 DEF Copy, Wanted
  <2>2. CASE pc # "rio_readlineb"
    <3>1. Len(usrbuf) < call.n
      BY <2>2 DEF Copy, Wanted
    <3>2. cnt = Min({rio_cnt, call.n - Len(usrbuf)})
      BY <2>2
    <3> HIDE DEF cnt
    <3>3. rio_cnt \in Int /\ call.n - Len(usrbuf) \in Int
      BY <1>1
    <3>4. cnt \in {rio_cnt, call.n - Len(usrbuf)} /\ cnt <= rio_cnt /\ cnt <= call.n - Len(usrbuf)
      BY <3>2, <3>3, MinOfTwo
    <3> QED
      BY <1>1, <3>1, <3>4
  <2> QED
    BY <2>1, <2>2
<1>3. usrbuf' = usrbuf \o f /\ rio_bufptr' = rio_bufptr + cnt /\ rio_cnt' = rio_cnt - cnt
  BY DEF Copy
<1> HIDE DEF cnt
<1>4. /\ pos \in Nat /\ length \in Nat /\ pos <= length /\ Unread = rio_cnt /\ Unread <= pos
      /\ rio_bufptr \in Nat /\ rio_bufptr + rio_cnt <= RIO_BUFSIZE
  BY <1>1, Numbers DEF IInv, BufferHolds
<1>5. Unread' = Unread - cnt /\ Handed' = Handed + cnt /\ Handed = pos - rio_cnt
  BY <1>1, <1>2, <1>3, <1>4, Numbers DEF Copy, Unread, Handed
<1>6. \A i \in 1 .. cnt : f[i] = Handed + i
  <2>1. ASSUME NEW i \in 1 .. cnt PROVE f[i] = Handed + i
    <3>1. i - 1 \in 0 .. Unread - 1 /\ rio_bufptr + i - 1 = rio_bufptr + (i - 1)
      BY <1>1, <1>2, <1>4
    <3>2. rio_buf[rio_bufptr + (i - 1)] = Handed + 1 + (i - 1)
      BY <3>1 DEF IInv, BufferHolds
    <3>3. Handed \in Int /\ i \in Int /\ f[i] = rio_buf[rio_bufptr + i - 1]
      BY <1>1, <1>2, <1>4, <1>5
    <3> QED
      BY <3>1, <3>2, <3>3
  <2> QED
    BY <2>1
<1>7. f \in [1 .. cnt -> 1 .. length]
  <2>1. ASSUME NEW i \in 1 .. cnt PROVE f[i] \in 1 .. length
    <3>1. f[i] = Handed + i
      BY <1>6
    <3>2. Handed + i \in 1 .. length
      BY <1>1, <1>2, <1>4, <1>5
    <3> QED
      BY <3>1, <3>2
  <2> QED
    BY <2>1
<1> HIDE DEF f
<1>8. /\ usrbuf' \in Seq(1 .. length) /\ Len(usrbuf') = Len(usrbuf) + cnt
      /\ \A i \in 1 .. Len(usrbuf) : usrbuf'[i] = usrbuf[i]
      /\ \A i \in 1 .. cnt : usrbuf'[Len(usrbuf) + i] = f[i]
  <2>a. usrbuf \in Seq(1 .. length) /\ f \in Seq(1 .. length)
    BY <1>2, <1>7, Piece DEF IInv, TypeOK
  <2>b. usrbuf \o f \in Seq(1 .. length)
    BY <2>a, Joined
  <2>c. Len(usrbuf \o f) = Len(usrbuf) + Len(f)
    BY <2>a, Joined
  <2>d. \A i \in 1 .. Len(usrbuf) : (usrbuf \o f)[i] = usrbuf[i]
    BY <2>a, Joined
  <2>e. \A i \in 1 .. Len(f) : (usrbuf \o f)[Len(usrbuf) + i] = f[i]
    BY <2>a, Joined
  <2>f. Len(f) = cnt
    BY <1>2, <1>7, Piece
  <2> QED
    BY <1>3, <2>b, <2>c, <2>d, <2>e, <2>f
<1>9. TypeOK'
  <2>1. rio_bufptr' \in 0 .. RIO_BUFSIZE /\ rio_cnt' \in -1 .. RIO_BUFSIZE - rio_bufptr'
    BY <1>1, <1>2, <1>3, <1>4, Numbers DEF IInv
  <2>2. Len(usrbuf') <= call.n /\ nwritten \in 0 .. Len(usrbuf')
    BY <1>1, <1>2, <1>8, Numbers DEF IInv
  <2> QED
    BY <1>8, <2>1, <2>2 DEF IInv, TypeOK, Copy, stream
<1>10. BufferHolds'
  <2>1. ASSUME NEW i \in 0 .. Unread' - 1
        PROVE  rio_buf'[rio_bufptr' + i] = Handed' + 1 + i
    <3>1. cnt + i \in 0 .. Unread - 1 /\ rio_bufptr' + i = rio_bufptr + (cnt + i)
      BY <1>1, <1>2, <1>3, <1>4, <1>5
    <3>2. rio_buf[rio_bufptr + (cnt + i)] = Handed + 1 + (cnt + i)
      BY <3>1 DEF IInv, BufferHolds
    <3>3. Handed + 1 + (cnt + i) = Handed' + 1 + i /\ rio_buf' = rio_buf
      BY <1>1, <1>2, <1>4, <1>5 DEF Copy
    <3> QED
      BY <3>1, <3>2, <3>3
  <2>2. Unread' <= pos'
    BY <1>1, <1>2, <1>4, <1>5 DEF Copy
  <2> QED
    BY <2>1, <2>2 DEF BufferHolds
<1>11. CallerHolds'
  <2>1. /\ Len(usrbuf) <= Handed
        /\ \A i \in 1 .. Len(usrbuf) : usrbuf[i] = Handed - Len(usrbuf) + i
    BY <1>1 DEF IInv, CallerHolds, Fn
  <2>2. Handed' - Len(usrbuf') = Handed - Len(usrbuf) /\ Handed \in Nat
    BY <1>1, <1>2, <1>4, <1>5, <1>8
  <2>3. ASSUME NEW i \in 1 .. Len(usrbuf') PROVE usrbuf'[i] = Handed' - Len(usrbuf') + i
    <3>1. CASE i <= Len(usrbuf)
      BY <1>1, <1>8, <2>1, <2>2, <3>1
    <3>2. CASE i > Len(usrbuf)
      <4>1. i - Len(usrbuf) \in 1 .. cnt /\ i = Len(usrbuf) + (i - Len(usrbuf))
        BY <1>1, <1>2, <1>8, <3>2
      <4> QED
        BY <1>1, <1>6, <1>8, <2>2, <4>1
    <3> QED
      BY <1>1, <1>2, <1>8, <3>1, <3>2
  <2> QED
    BY <1>1, <1>2, <1>5, <1>8, <2>1, <2>2, <2>3 DEF CallerHolds
<1>12. OutHolds'
  <2>1. Handed' - Len(usrbuf') + nwritten' = Handed - Len(usrbuf) + nwritten
    <3>1. nwritten' = nwritten /\ nwritten \in Nat /\ Handed \in Int
      BY <1>1, <1>4, <1>5, Numbers DEF IInv, Copy
    <3> QED
      BY <1>1, <1>2, <1>5, <1>8, <3>1
  <2>2. UNCHANGED <<out, broken, pc>> /\ pc # "idle"
    BY <1>1 DEF Copy, Fn
  <2> QED
    BY <2>1, <2>2 DEF IInv, OutHolds
<1>13. Phases'
  BY <1>1, Numbers DEF IInv, Phases, Copy, stream, Fn
<1>14. Given' = Given
  <2>1. Handed \in Int
    BY <1>1, <1>4, <1>5
  <2> QED
    BY <1>1, <1>2, <1>5, <1>8, <2>1 DEF Given
<1> QED
  BY <1>9, <1>10, <1>11, <1>12, <1>13, <1>14 DEF IInv

\* Without the internal buffer the kernel's next bytes are the caller's.
LEMMA ReadnKeeps == IInv /\ Readn => IInv' /\ Given' = Given
<1> SUFFICES ASSUME IInv, Readn PROVE IInv' /\ Given' = Given
  OBVIOUS
<1>1. /\ Len(usrbuf) \in Nat /\ call.n \in Nat /\ pos \in Nat /\ length \in Nat /\ pos <= length
      /\ rio_cnt = 0 /\ Unread = 0 /\ Handed = pos /\ pc = "rio_readn" /\ pc \in Fn
  BY Numbers DEF IInv, Phases, Readn, Handed, Fn
<1>2. CASE pc' = "error" /\ UNCHANGED <<usrbuf, pos>>
  <2>1. IInv'
    BY <1>1, <1>2, NothingReadKeeps DEF Readn, rio
  <2>2. Given' = Given
    BY <1>2 DEF Readn, rio, Given, Handed, Unread
  <2> QED
    BY <2>1, <2>2
<1>3. ASSUME NEW k, k \in 1 .. Min({call.n - Len(usrbuf), length - pos}),
             usrbuf' = usrbuf \o [i \in 1 .. k |-> pos + i], pos' = pos + k, pc' = pc
      PROVE  IInv' /\ Given' = Given
  <2>1. k \in Nat \ {0} /\ k <= call.n - Len(usrbuf) /\ k <= length - pos
    <3>1. call.n - Len(usrbuf) \in Int /\ length - pos \in Int
      BY <1>1
    <3>2. /\ Min({call.n - Len(usrbuf), length - pos}) \in Int
          /\ Min({call.n - Len(usrbuf), length - pos}) <= call.n - Len(usrbuf)
          /\ Min({call.n - Len(usrbuf), length - pos}) <= length - pos
      BY <3>1, MinOfTwo
    <3> QED
      BY <1>3, <3>1, <3>2
  <2> DEFINE f == [i \in 1 .. k |-> pos + i]
  <2>2. f \in [1 .. k -> 1 .. length]
    BY <1>1, <2>1
  <2>3. /\ usrbuf' \in Seq(1 .. length) /\ Len(usrbuf') = Len(usrbuf) + k
        /\ \A i \in 1 .. Len(usrbuf) : usrbuf'[i] = usrbuf[i]
        /\ \A i \in 1 .. k : usrbuf'[Len(usrbuf) + i] = f[i]
    <3>1. usrbuf' = usrbuf \o f
      BY <1>3
    <3> HIDE DEF f
    <3>a. usrbuf \in Seq(1 .. length) /\ f \in Seq(1 .. length)
      BY <2>1, <2>2, Piece DEF IInv, TypeOK
    <3>b. usrbuf \o f \in Seq(1 .. length)
      BY <3>a, Joined
    <3>c. Len(usrbuf \o f) = Len(usrbuf) + Len(f)
      BY <3>a, Joined
    <3>d. \A i \in 1 .. Len(usrbuf) : (usrbuf \o f)[i] = usrbuf[i]
      BY <3>a, Joined
    <3>e. \A i \in 1 .. Len(f) : (usrbuf \o f)[Len(usrbuf) + i] = f[i]
      BY <3>a, Joined
    <3>f. Len(f) = k
      BY <2>1, <2>2, Piece
    <3> QED
      BY <3>1, <3>b, <3>c, <3>d, <3>e, <3>f
  <2>4. Unread' = 0 /\ Handed' = pos + k
    BY <1>1, <1>3 DEF Readn, rio, Unread, Handed
  <2>5. TypeOK'
    BY <1>1, <1>3, <2>1, <2>3 DEF IInv, TypeOK, Readn, rio, stream
  <2>6. BufferHolds'
    BY <1>1, <1>3, <2>1, <2>4 DEF BufferHolds
  <2>7. CallerHolds'
    <3>1. /\ Len(usrbuf) <= pos
          /\ \A i \in 1 .. Len(usrbuf) : usrbuf[i] = pos - Len(usrbuf) + i
      BY <1>1 DEF IInv, CallerHolds
    <3>2. Handed' - Len(usrbuf') = pos - Len(usrbuf)
      BY <1>1, <2>1, <2>3, <2>4
    <3>3. ASSUME NEW i \in 1 .. Len(usrbuf') PROVE usrbuf'[i] = Handed' - Len(usrbuf') + i
      <4>1. CASE i <= Len(usrbuf)
        BY <1>1, <2>3, <3>1, <3>2, <4>1
      <4>2. CASE i > Len(usrbuf)
        <5>1. i - Len(usrbuf) \in 1 .. k /\ i = Len(usrbuf) + (i - Len(usrbuf))
          BY <1>1, <2>1, <2>3, <4>2
        <5>2. usrbuf'[i] = pos + (i - Len(usrbuf))
          BY <2>3, <5>1
        <5> QED
          BY <1>1, <3>2, <5>1, <5>2
      <4> QED
        BY <1>1, <2>1, <2>3, <4>1, <4>2
    <3> QED
      BY <1>1, <2>1, <2>3, <2>4, <3>1, <3>2, <3>3 DEF CallerHolds
  <2>8. OutHolds'
    BY <1>1, <1>3, <2>1, <2>3, <2>4, Numbers DEF IInv, OutHolds, Readn
  <2>9. Phases'
    BY <1>1, <1>3 DEF IInv, Phases, Readn, rio, stream, Fn
  <2>10. Given' = Given
    BY <1>1, <2>1, <2>3, <2>4 DEF Given
  <2> QED
    BY <2>5, <2>6, <2>7, <2>8, <2>9, <2>10 DEF IInv
<1> QED
  BY <1>2, <1>3 DEF Readn

\* What write takes is what follows the bytes that are out.
LEMMA WriteKeeps == IInv /\ Write => IInv'
<1> SUFFICES ASSUME IInv, Write PROVE IInv'
  OBVIOUS
<1>1. PICK k :
        /\ k \in 1 .. Len(usrbuf) - nwritten
        /\ out' = out \o Written(k) /\ nwritten' = nwritten + k
  BY DEF Write
<1>2. /\ Len(usrbuf) \in Nat /\ nwritten \in Nat /\ k \in Nat \ {0} /\ nwritten + k <= Len(usrbuf)
      /\ usrbuf \in Seq(1 .. length) /\ Len(out) \in Nat /\ pc = "rio_writen" /\ ~ broken
  BY <1>1, LenProperties DEF IInv, TypeOK, Write
<1>3. /\ Written(k) \in [1 .. k -> 1 .. length]
      /\ \A i \in 1 .. k : Written(k)[i] = usrbuf[nwritten + i]
  <2>1. /\ Written(k) = [i \in 1 .. (nwritten + k) - (nwritten + 1) + 1 |-> usrbuf[i + (nwritten + 1) - 1]]
    BY <1>2 DEF Written
  <2>2. (nwritten + k) - (nwritten + 1) + 1 = k
    BY <1>2
  <2>3. \A i \in 1 .. k : i + (nwritten + 1) - 1 = nwritten + i /\ nwritten + i \in 1 .. Len(usrbuf)
    BY <1>2
  <2>4. \A i \in 1 .. Len(usrbuf) : usrbuf[i] \in 1 .. length
    BY <1>2, ElementOfSeq
  <2> QED
    BY <2>1, <2>2, <2>3, <2>4
<1>4. /\ out' \in Seq(1 .. length) /\ Len(out') = Len(out) + k
      /\ \A i \in 1 .. Len(out) : out'[i] = out[i]
      /\ \A i \in 1 .. k : out'[Len(out) + i] = usrbuf[nwritten + i]
  <2>1. out \in Seq(1 .. length) /\ k \in Nat
    BY <1>2 DEF IInv, TypeOK
  <2>2. /\ out' \in Seq(1 .. length) /\ Len(out') = Len(out) + k
        /\ \A i \in 1 .. Len(out) : out'[i] = out[i]
        /\ \A i \in 1 .. k : out'[Len(out) + i] = Written(k)[i]
    <3> DEFINE w == Written(k)
    <3>1. w \in [1 .. k -> 1 .. length] /\ out' = out \o w
      BY <1>1, <1>3
    <3> HIDE DEF w
    <3>a. out \in Seq(1 .. length) /\ w \in Seq(1 .. length)
      BY <2>1, <3>1, Piece DEF IInv, TypeOK
    <3>b. out \o w \in Seq(1 .. length)
      BY <3>a, Joined
    <3>c. Len(out \o w) = Len(out) + Len(w)
      BY <3>a, Joined
    <3>d. \A i \in 1 .. Len(out) : (out \o w)[i] = out[i]
      BY <3>a, Joined
    <3>e. \A i \in 1 .. Len(w) : (out \o w)[Len(out) + i] = w[i]
      BY <3>a, Joined
    <3>f. Len(w) = k
      BY <2>1, <3>1, Piece
    <3> QED
      BY <3>1, <3>b, <3>c, <3>d, <3>e, <3>f DEF w
  <2> QED
    BY <1>3, <2>2
<1>5. Handed \in Int /\ Handed' = Handed /\ Unread' = Unread
  BY DEF IInv, TypeOK, Write, rio, Unread, Handed
<1>6. TypeOK'
  <2>1. nwritten' \in 0 .. Len(usrbuf)
    BY <1>1, <1>2
  <2> QED
    BY <1>4, <2>1 DEF IInv, TypeOK, Write, rio, stream
<1>7. BufferHolds' /\ CallerHolds' /\ Phases'
  BY <1>2, <1>5 DEF IInv, BufferHolds, CallerHolds, Phases, Write, rio, stream, Fn
<1>8. OutHolds'
  <2>1. /\ \A i \in 1 .. Len(out) : out[i] = i
        /\ Len(out) = Handed - Len(usrbuf) + nwritten
        /\ \A i \in 1 .. Len(usrbuf) : usrbuf[i] = Handed - Len(usrbuf) + i
    BY <1>2 DEF IInv, OutHolds, CallerHolds
  <2>2. ASSUME NEW i \in 1 .. Len(out') PROVE out'[i] = i
    <3>1. CASE i <= Len(out)
      BY <1>2, <1>4, <2>1, <3>1
    <3>2. CASE i > Len(out)
      <4> DEFINE j == i - Len(out)
      <4>1. j \in 1 .. k /\ i = Len(out) + j /\ nwritten + j \in 1 .. Len(usrbuf)
        BY <1>2, <1>4, <3>2
      <4>2. out'[i] = usrbuf[nwritten + j]
        BY <1>4, <4>1
      <4>3. usrbuf[nwritten + j] = Handed - Len(usrbuf) + (nwritten + j)
        BY <2>1, <4>1
      <4> QED
        BY <1>2, <1>5, <2>1, <4>1, <4>2, <4>3
    <3> QED
      BY <1>2, <1>4, <3>1, <3>2
  <2>3. Len(out') = Handed' - Len(usrbuf') + nwritten'
    <3>1. Len(out) + k = (Handed - Len(usrbuf) + nwritten) + k
      BY <2>1
    <3>2. (Handed - Len(usrbuf) + nwritten) + k = Handed - Len(usrbuf) + (nwritten + k)
      BY <1>2, <1>5
    <3> QED
      BY <1>1, <1>4, <1>5, <3>1, <3>2 DEF Write
  <2> QED
    BY <1>2, <2>2, <2>3 DEF OutHolds, Write
<1> QED
  BY <1>6, <1>7, <1>8 DEF IInv

\* rio_writen returns, with all or with an error.
LEMMA WriteEndsKeeps == IInv /\ (WriteFails \/ WriteReturns) => IInv'
<1> SUFFICES ASSUME IInv, WriteFails \/ WriteReturns PROVE IInv'
  OBVIOUS
<1> USE DEF IInv, WriteFails, WriteReturns, stream, rio
<1>1. TypeOK'
  BY DEF TypeOK
<1>2. Unread' = Unread /\ Handed' = Handed /\ Handed \in Int /\ Len(usrbuf) \in Nat
  BY LenProperties DEF TypeOK, Unread, Handed
<1>3. BufferHolds' /\ CallerHolds' /\ OutHolds' /\ Phases'
  BY <1>2 DEF BufferHolds, CallerHolds, OutHolds, Phases, Fn
<1> QED
  BY <1>1, <1>3

-----------------------------------------------------------------------------
\* Every step keeps the invariant.
LEMMA IInvKept == IInv /\ [Next]_vars => IInv'
<1> SUFFICES ASSUME IInv, [Next]_vars PROVE IInv'
  OBVIOUS
<1>1. CASE Progress
  BY <1>1, StartKeeps, ReturnKeeps, RefillKeeps, EndOfFileKeeps, CopyKeeps, ReadnKeeps,
     WriteKeeps, WriteEndsKeeps DEF Progress
<1>2. CASE RefillInterrupted \/ RefillFails
  BY <1>2, NothingReadKeeps DEF RefillInterrupted, RefillFails, Reads, Wanted, Fn
<1>3. CASE UNCHANGED vars
  BY <1>3 DEF IInv, TypeOK, BufferHolds, CallerHolds, OutHolds, Phases, Handed, Unread,
              vars, stream, rio
<1> QED
  BY <1>1, <1>2, <1>3 DEF Next

\* The bytes wait where IInv says, whatever the kernel does to the calls.
THEOREM Invariance == Spec => []IInv
BY Initially, IInvKept, PTL DEF Spec

\* Types of the buffers and counts of the Rio functions.
THEOREM TypeCorrect == Spec => []TypeOK
<1>1. IInv => TypeOK
  BY DEF IInv
<1> QED
  BY <1>1, Invariance, PTL

\* The program passes on the stream, no byte lost, twice or out of its turn,
\* for any cut of it into reads, calls and writes; at the end all of it is out.
THEOREM StreamPassedOn == Spec => []PassedOn
<1>1. IInv => PassedOn
  <2> SUFFICES ASSUME IInv, pc = "end", ~ broken PROVE Len(out) = length
    BY DEF IInv, OutHolds, PassedOn
  <2>1. Len(usrbuf) = 0 /\ nwritten = 0 /\ Handed = length /\ length \in Nat
    BY DEF IInv, TypeOK, Phases
  <2> QED
    BY <2>1 DEF IInv, OutHolds
<1> QED
  BY <1>1, Invariance, PTL

-----------------------------------------------------------------------------
(* The refinement of RioStream.  The invariant so far says which bytes the *)
(* caller's buffer holds; what is missing is where a call stops.  A line   *)
(* has no newline before its last byte, so the byte that ends the loop is  *)
(* the first to do so.                                                     *)


\* The least element of a set is its Min.
LEMMA LeastIsMin ==
  ASSUME NEW A \in SUBSET Int, NEW m \in A, \A y \in A : m <= y
  PROVE  Min(A) = m /\ Stream!Min(A) = m
<1>1. Min(A) \in A /\ \A y \in A : Min(A) <= y
  BY DEF Min
<1>2. m \in Int /\ Min(A) \in Int /\ m <= Min(A) /\ Min(A) <= m
  BY <1>1
<1>3. Stream!Min(A) = Min(A)
  BY DEF Min, Stream!Min
<1> QED
  BY <1>2, <1>3

-----------------------------------------------------------------------------
(* The invariant. *)

\* A line that is still read has no newline but perhaps its last byte.
LineGoesOn ==
  pc = "rio_readlineb" =>
    /\ Len(usrbuf) + 1 <= call.n
    /\ \A i \in 1 .. Len(usrbuf) - 1 : usrbuf[i] \notin newlines

\* Only what was read is written.
SomethingToWrite == pc = "rio_writen" => usrbuf # << >>

RInv == IInv /\ LineGoesOn /\ SomethingToWrite

LEMMA RInvInitially == Init => RInv
<1> SUFFICES ASSUME Init PROVE RInv
  OBVIOUS
<1>1. IInv
  BY Initially
<1>2. LineGoesOn /\ SomethingToWrite
  BY DEF Init, LineGoesOn, SomethingToWrite
<1> QED
  BY <1>1, <1>2 DEF RInv

\* The loop of rio_readlineb goes on for one byte that ends no line.
LEMMA CopyLineGoesOn == RInv /\ Copy => LineGoesOn'
<1> SUFFICES ASSUME RInv, Copy, pc = "rio_readlineb" PROVE LineGoesOn'
  BY DEF LineGoesOn, Copy
<1>1. /\ Len(usrbuf) \in Nat /\ call.n \in Nat /\ Len(usrbuf) + 1 < call.n
      /\ usrbuf # << >> => usrbuf[Len(usrbuf)] \notin newlines
  BY Numbers DEF RInv, IInv, Copy, Wanted
<1> DEFINE f == [i \in 1 .. 1 |-> rio_buf[rio_bufptr + i - 1]]
           T == {f[1]} \cup (1 .. length)
<1>2. usrbuf' = usrbuf \o f /\ pc' = pc /\ call' = call /\ newlines' = newlines
  BY DEF Copy, stream
<1>3. f \in [1 .. 1 -> T] /\ usrbuf \in Seq(T)
  <2>1. usrbuf \in Seq(1 .. length) /\ 1 .. length \subseteq T
    BY DEF RInv, IInv, TypeOK
  <2>2. f = [i \in 1 .. 1 |-> f[1]] /\ f[1] \in T
    OBVIOUS
  <2> HIDE DEF f, T
  <2>3. usrbuf \in Seq(T)
    BY <2>1, SeqMonotonic
  <2> QED
    BY <2>2, <2>3
<1> HIDE DEF f, T
<1>4. /\ Len(usrbuf \o f) = Len(usrbuf) + 1
      /\ \A i \in 1 .. Len(usrbuf) : (usrbuf \o f)[i] = usrbuf[i]
  <2>1. f \in Seq(T) /\ Len(f) = 1
    BY <1>3, Piece
  <2>2. /\ Len(usrbuf \o f) = Len(usrbuf) + Len(f)
        /\ \A i \in 1 .. Len(usrbuf) + Len(f) :
             (usrbuf \o f)[i] = IF i <= Len(usrbuf) THEN usrbuf[i] ELSE f[i - Len(usrbuf)]
    BY <1>3, <2>1, ConcatProperties
  <2> QED
    BY <1>1, <2>1, <2>2
<1>5. \A i \in 1 .. Len(usrbuf) : usrbuf[i] \notin newlines
  <2>1. \A i \in 1 .. Len(usrbuf) - 1 : usrbuf[i] \notin newlines
    BY DEF RInv, LineGoesOn
  <2>2. Len(usrbuf) # 0 => usrbuf # << >>
    OBVIOUS
  <2> QED
    BY <1>1, <2>1, <2>2
<1>6. Len(usrbuf') + 1 <= call.n
  BY <1>1, <1>2, <1>4
<1>7. \A i \in 1 .. Len(usrbuf') - 1 : usrbuf'[i] \notin newlines
  BY <1>1, <1>2, <1>4, <1>5
<1> QED
  BY <1>2, <1>6, <1>7 DEF LineGoesOn

\* Every other step starts a line, leaves it alone or ends it.
LEMMA RInvKept == RInv /\ [Next]_vars => RInv'
<1> SUFFICES ASSUME RInv, [Next]_vars PROVE RInv'
  OBVIOUS
<1>1. IInv'
  BY IInvKept DEF RInv
<1>2. CASE Start
  <2>1. usrbuf' = << >> /\ call' \in Call /\ pc' = call'.fn /\ pc' \in Fn
    BY <1>2, RioConstantsOK DEF Start
  <2>2. pc' = "rio_readlineb" => call'.n > 1 /\ call'.n \in Nat
    BY <2>1, RioConstantsOK
  <2>3. Len(usrbuf') = 0 /\ pc' # "rio_writen"
    BY <2>1 DEF Fn
  <2> QED
    BY <1>1, <2>1, <2>2, <2>3 DEF RInv, LineGoesOn, SomethingToWrite
<1>3. CASE Copy
  BY <1>1, <1>3, CopyLineGoesOn DEF RInv, SomethingToWrite, Copy, Wanted, Fn
<1>4. CASE Readn
  BY <1>1, <1>4 DEF RInv, LineGoesOn, SomethingToWrite, Readn
<1>5. CASE Return
  BY <1>1, <1>5, ReturnsBytes DEF RInv, LineGoesOn, SomethingToWrite, Return, Returns
<1>6. CASE EndOfFile
  BY <1>1, <1>6 DEF RInv, LineGoesOn, SomethingToWrite, EndOfFile, Returns
<1>7. CASE Refill \/ RefillInterrupted \/ RefillFails
  BY <1>1, <1>7 DEF RInv, LineGoesOn, SomethingToWrite, Refill, RefillInterrupted, RefillFails,
                    stream
<1>8. CASE Write \/ WriteFails \/ WriteReturns
  BY <1>1, <1>8 DEF RInv, LineGoesOn, SomethingToWrite, Write, WriteFails, WriteReturns
<1>9. CASE UNCHANGED vars
  BY <1>1, <1>9 DEF RInv, LineGoesOn, SomethingToWrite, vars, stream
<1> QED
  BY <1>2, <1>3, <1>4, <1>5, <1>6, <1>7, <1>8, <1>9 DEF Next, Progress

-----------------------------------------------------------------------------
(* The refinement. *)

\* The numbers among the variables of RioStream.
LEMMA StreamNumbers ==
  ASSUME RInv
  PROVE  /\ Handed \in Int /\ Handed <= length /\ length \in Nat /\ Len(usrbuf) \in Nat
         /\ call.n \in Nat /\ call.fn \in Fn /\ newlines \subseteq Nat
         /\ pc \in Fn => pc = call.fn /\ Taken = Handed - Len(usrbuf)
         /\ pc \notin Fn \cup {"error"} => Taken = Handed
<1>1. /\ pos \in Nat /\ length \in Nat /\ pos <= length /\ Len(usrbuf) \in Nat
      /\ call.n \in Nat /\ call.fn \in Fn /\ Unread \in Nat
  BY Numbers DEF RInv, IInv, Unread
<1>2. newlines \subseteq Nat /\ (pc \in Fn => pc = call.fn)
  BY <1>1 DEF RInv, IInv, TypeOK, Phases
<1>3. pc \notin Fn \cup {"error"} => Taken = Handed
  BY <1>1 DEF Taken, Handed
<1>4. pc \in Fn => Taken = Handed - Len(usrbuf)
  BY <1>1 DEF Taken, Handed
<1> QED
  BY <1>1, <1>2, <1>3, <1>4 DEF Handed

\* A call stops where RioStream says: with its count, at the end of the stream,
\* or, if it reads a line, at the first newline.
LEMMA StopsAtEnd ==
  ASSUME RInv, pc \in Fn, ~ Wanted \/ Handed = length
  PROVE  Stream!End = Handed
<1> DEFINE len == Len(usrbuf)
<1>1. /\ Handed \in Int /\ Handed <= length /\ length \in Nat /\ len \in Nat
      /\ call.n \in Nat /\ newlines \subseteq Nat /\ pc = call.fn
      /\ Taken \in Int /\ Taken = Handed - len
  BY StreamNumbers
<1>2. \A i \in 1 .. len : usrbuf[i] = Taken + i
  <2>1. \A i \in 1 .. len : usrbuf[i] = Handed - len + i
    BY DEF RInv, IInv, CallerHolds, Fn
  <2> QED
    BY <1>1, <2>1
<1>3. CASE pc = "rio_readlineb"
  <2> DEFINE A == {Taken + call.n - 1, length} \cup {p \in newlines : p > Taken}
  <2>1. len + 1 <= call.n /\ \A i \in 1 .. len - 1 : usrbuf[i] \notin newlines
    BY <1>3 DEF RInv, LineGoesOn
  <2>2. ASSUME NEW p \in newlines, p > Taken PROVE Handed <= p
    <3>1. SUFFICES ASSUME p < Handed PROVE FALSE
      BY <1>1, <2>2
    <3>2. p \in Nat /\ p - Taken \in 1 .. len - 1
      BY <1>1, <2>2, <3>1
    <3>3. usrbuf[p - Taken] = Taken + (p - Taken)
      BY <1>1, <1>2, <3>2
    <3> QED
      BY <1>1, <2>1, <3>2, <3>3
  <2>3. A \subseteq Int /\ \A p \in A : Handed <= p
    <3>1. Taken + call.n - 1 \in Int /\ Handed <= Taken + call.n - 1
      BY <1>1, <2>1
    <3>2. ASSUME NEW p \in A PROVE p \in Int /\ Handed <= p
      <4>1. CASE p = length
        BY <1>1, <4>1
      <4>2. CASE p \in newlines /\ p > Taken
        BY <1>1, <2>2, <4>2
      <4> QED
        BY <3>1, <3>2, <4>1, <4>2
    <3> QED
      BY <3>2
  <2>4. Handed \in A
    <3>1. CASE Handed = length
      BY <3>1
    <3>2. CASE ~ len + 1 < call.n
      <4>1. Taken + call.n - 1 = Handed
        BY <1>1, <2>1, <3>2
      <4> QED
        BY <4>1
    <3>3. CASE usrbuf # << >> /\ usrbuf[len] \in newlines
      <4>1. len > 0
        BY <1>1, <3>3, EmptySeq DEF RInv, IInv, TypeOK
      <4>2. usrbuf[len] = Taken + len /\ Taken + len = Handed /\ Handed > Taken
        BY <1>1, <1>2, <4>1
      <4> QED
        BY <3>3, <4>2
    <3> QED
      BY <1>3, <3>1, <3>2, <3>3 DEF Wanted
  <2> HIDE DEF A
  <2>5. Stream!Min(A) = Handed
    BY <2>3, <2>4, LeastIsMin
  <2> QED
    BY <1>1, <1>3, <2>5 DEF A, Stream!End
<1>4. CASE pc # "rio_readlineb"
  <2> DEFINE A == {Taken + call.n, length}
  <2>1. len <= call.n
    BY DEF RInv, IInv, TypeOK
  <2>2. A \subseteq Int /\ \A p \in A : Handed <= p
    BY <1>1, <2>1
  <2>3. ~ len < call.n \/ Handed = length
    BY <1>4 DEF Wanted
  <2>4. Handed \in A
    BY <1>1, <2>1, <2>3
  <2> HIDE DEF A
  <2>5. Stream!Min(A) = Handed
    BY <2>2, <2>4, LeastIsMin
  <2> QED
    BY <1>1, <1>4, <2>5 DEF A, Stream!End
<1> QED
  BY <1>3, <1>4

\* So its answer is the caller's buffer.
LEMMA AnswerIsBuffer ==
  ASSUME RInv, pc \in Fn, ~ Wanted \/ Handed = length
  PROVE  [i \in 1 .. (Stream!End - Taken) |-> Taken + i] = usrbuf
<1>1. Stream!End - Taken = Len(usrbuf)
  BY StopsAtEnd, StreamNumbers
<1>2. usrbuf = [i \in 1 .. Len(usrbuf) |-> usrbuf[i]]
  BY DEF RInv, IInv, TypeOK
<1>3. \A i \in 1 .. Len(usrbuf) : usrbuf[i] = Taken + i
  <2>1. \A i \in 1 .. Len(usrbuf) : usrbuf[i] = Handed - Len(usrbuf) + i
    BY DEF RInv, IInv, CallerHolds, Fn
  <2> QED
    BY <2>1, StreamNumbers
<1> QED
  BY <1>1, <1>2, <1>3

\* The step that returns is the answer.
LEMMA Answers ==
  ASSUME RInv, pc \in Fn, ~ Wanted \/ Handed = length, Returns,
         UNCHANGED <<length, newlines, call, usrbuf>>, Handed' = Handed
  PROVE  Stream!Answer
<1>1. CallState = "asked" /\ CallState' = "answered"
  BY DEF CallState, Returns, Fn
<1>2. Result' = usrbuf
  BY DEF Result, Returns
<1>3. Taken' = Handed
  <2>1. pc' \notin Fn \cup {"error"}
    BY DEF Returns, Fn
  <2>2. Handed' \in Int /\ Taken' = Handed' - 0
    BY <2>1, StreamNumbers DEF Taken, Handed
  <2> QED
    BY <2>2, StreamNumbers
<1> QED
  BY <1>1, <1>2, <1>3, StopsAtEnd, AnswerIsBuffer DEF Stream!Answer

\* Inside of a call nothing is seen of it, as long as it takes from the stream
\* what it adds to its buffer.
LEMMA Hidden ==
  ASSUME RInv, pc \in Fn, pc' = pc, UNCHANGED <<length, newlines, call>>, Given' = Given,
         RInv'
  PROVE  UNCHANGED Stream!vars
<1>1. Taken = Given /\ Taken' = Given'
  <2>1. Taken = Handed - Len(usrbuf)
    BY StreamNumbers
  <2>2. Taken' = Handed' - Len(usrbuf')
    <3>1. pos' \in Int /\ Unread' \in Int /\ Len(usrbuf') \in Int
      BY LenProperties DEF RInv, IInv, TypeOK, Unread
    <3> QED
      BY <3>1 DEF Taken, Handed
  <2> QED
    BY <2>1, <2>2 DEF Given
<1> QED
  BY <1>1 DEF Stream!vars, CallState, Result, Fn

\* A read that fails ends the call without an answer.
LEMMA FailsSo ==
  ASSUME RInv, pc \in Fn, pc' = "error", UNCHANGED <<length, newlines, call, usrbuf>>,
         Handed' = Handed
  PROVE  Stream!Fail
<1>1. CallState = "asked" /\ CallState' = "failed" /\ Result = << >> /\ Result' = << >>
  BY DEF CallState, Result, Fn
<1>2. Taken' = Taken
  BY DEF Taken, Handed, Fn
<1> QED
  BY <1>1, <1>2 DEF Stream!Fail

\* Every step of Rio is a step of RioStream or leaves it alone.
LEMMA StepSimulates ==
  ASSUME RInv, RInv', [Next]_vars
  PROVE  [Stream!Next]_(Stream!vars)
<1> USE DEF Stream!Next
<1>1. CASE Start
  <2>1. CallState = "idle" /\ CallState' = "asked" /\ Result = << >> /\ Result' = << >>
    BY <1>1, RioConstantsOK DEF Start, CallState, Result, Fn
  <2>2. Taken' = Taken
    <3>1. Taken = Handed /\ Handed \in Int
      BY <1>1, StreamNumbers DEF Start, Fn
    <3>2. pc' \in Fn /\ Len(usrbuf') = 0 /\ Handed' = Handed
      BY <1>1, RioConstantsOK DEF Start, rio, Handed, Unread
    <3>3. Taken' = Handed' - Len(usrbuf')
      BY <3>1, <3>2 DEF Taken, Handed
    <3> QED
      BY <3>1, <3>2, <3>3
  <2> QED
    BY <1>1, <2>1, <2>2 DEF Start, stream, Stream!Ask
<1>2. CASE Return
  <2>1. pc \in Fn /\ ~ Wanted /\ Returns /\ UNCHANGED <<length, newlines, call, usrbuf>>
        /\ Handed' = Handed
    BY <1>2 DEF Return, stream, rio, Handed, Unread
  <2> QED
    BY <2>1, Answers
<1>3. CASE EndOfFile
  <2>1. pc \in Fn /\ Returns /\ UNCHANGED <<length, newlines, call, usrbuf>>
    BY <1>3 DEF EndOfFile, Wanted, stream, Fn
  <2>2. Handed = length /\ Handed' = Handed
    <3>1. rio_cnt <= 0 /\ rio_cnt' = 0 /\ pos = length /\ pos' = pos /\ pos \in Int
      BY <1>3, Numbers DEF RInv, IInv, Phases, EndOfFile
    <3>2. rio_cnt \in Int
      BY Numbers DEF RInv, IInv
    <3> QED
      BY <3>1, <3>2 DEF Handed, Unread
  <2> QED
    BY <2>1, <2>2, Answers
<1>4. CASE Copy
  <2>1. pc \in Fn /\ pc' = pc /\ UNCHANGED <<length, newlines, call>>
    BY <1>4 DEF Copy, Wanted, stream, Fn
  <2>2. Given' = Given
    BY <1>4, CopyKeeps DEF RInv
  <2> QED
    BY <2>1, <2>2, Hidden
<1>5. CASE Readn
  <2>1. pc \in Fn /\ UNCHANGED <<length, newlines, call>> /\ Given' = Given
    BY <1>5, ReadnKeeps DEF RInv, Readn, stream, Fn
  <2>2. CASE pc' = pc
    BY <2>1, <2>2, Hidden
  <2>3. CASE pc' = "error" /\ UNCHANGED <<usrbuf, pos>>
    <3>1. Handed' = Handed
      BY <1>5, <2>3 DEF Readn, rio, Handed, Unread
    <3> QED
      BY <2>1, <2>3, <3>1, FailsSo
  <2> QED
    BY <1>5, <2>2, <2>3 DEF Readn
<1>6. CASE Refill \/ RefillInterrupted
  <2>1. pc \in Fn /\ pc' = pc /\ UNCHANGED <<length, newlines, call, usrbuf>>
    BY <1>6 DEF Refill, RefillInterrupted, Reads, Wanted, stream, Fn
  <2>2. Handed' = Handed
    BY <1>6, RefillKeeps, Numbers DEF RInv, IInv, RefillInterrupted, Reads, Handed, Unread
  <2> QED
    BY <2>1, <2>2, Hidden DEF Given
<1>7. CASE RefillFails
  <2>1. pc \in Fn /\ pc' = "error" /\ UNCHANGED <<length, newlines, call, usrbuf>>
    BY <1>7 DEF RefillFails, Reads, Wanted, stream, Fn
  <2>2. Handed' = Handed
    BY <1>7, Numbers DEF RInv, IInv, RefillFails, Reads, Handed, Unread
  <2> QED
    BY <2>1, <2>2, FailsSo
<1>8. CASE Write
  <2>1. UNCHANGED <<length, newlines, pc, call, usrbuf, pos, rio_cnt>>
    BY <1>8 DEF Write, stream, rio
  <2> QED
    BY <2>1 DEF Stream!vars, CallState, Taken, Result, Unread
<1>9. CASE WriteFails \/ WriteReturns
  <2>1. /\ pc = "rio_writen" /\ pc' = "idle"
        /\ UNCHANGED <<length, newlines, call, usrbuf, pos, rio_cnt>>
    BY <1>9 DEF WriteFails, WriteReturns, stream, rio
  <2>2. Result = usrbuf /\ Result # << >> /\ Result' = << >>
    BY <2>1 DEF Result, RInv, SomethingToWrite
  <2>3. CallState = "answered" /\ CallState' = "idle" /\ Taken' = Taken
    BY <2>1 DEF CallState, Taken, Unread, Fn
  <2> QED
    BY <2>1, <2>2, <2>3 DEF Stream!Use
<1>10. CASE UNCHANGED vars
  BY <1>10 DEF vars, stream, rio, Stream!vars, CallState, Taken, Result, Unread
<1> QED
  BY <1>1, <1>2, <1>3, <1>4, <1>5, <1>6, <1>7, <1>8, <1>9, <1>10 DEF Next, Progress

\* The functions of the Rio package keep the promise of RioStream, for streams,
\* buffers and calls of any size: what calls return are the bytes of the stream
\* in order, cut where the caller asked, however the kernel cuts them.
THEOREM RioImplementsStream == Spec => ImplementsStream
<1>1. Init => Stream!Init
  <2> SUFFICES ASSUME Init PROVE Stream!Init
    OBVIOUS
  <2>1. CallState = "idle" /\ Result = << >> /\ Taken = 0
    <3>1. pc = "idle" /\ pc \notin Fn \cup {"error"} /\ pos = 0 /\ rio_cnt = 0
      BY DEF Init, Fn
    <3>2. CallState = "idle"
      BY <3>1 DEF CallState
    <3>3. Result = << >>
      BY <3>1 DEF Result
    <3>4. Unread = 0
      BY <3>1 DEF Unread
    <3>5. Taken = 0
      BY <3>1, <3>4, RInvInitially, StreamNumbers DEF Handed
    <3> QED
      BY <3>2, <3>3, <3>5
  <2>2. length \in Nat
    BY RioConstantsOK DEF Init
  <2>3. newlines \subseteq 1 .. length
    BY DEF Init
  <2> QED
    BY <2>1, <2>2, <2>3 DEF Stream!Init
<1>2. Spec => []RInv
  BY RInvInitially, RInvKept, PTL DEF Spec
<1>3. RInv /\ RInv' /\ [Next]_vars => [Stream!Next]_(Stream!vars)
  BY StepSimulates
<1> QED
  BY <1>1, <1>2, <1>3, PTL DEF Spec, ImplementsStream, Stream!Spec
=============================================================================
