---------------------------- MODULE ShellProofs ----------------------------
(***************************************************************************)
(* Proofs about Shell, for any table, any children, any commands and keys. *)
(*                                                                         *)
(* Types come first.  Then what holds of the table whatever interrupts     *)
(* what (Table): every pid is listed at most once, because eval lists a    *)
(* pid that is fresh and that no handler has met, and a handler deletes    *)
(* only a pid that is reaped.  The properties of the table, the keys, the  *)
(* foreground job and the stopped children rest on that, each with an      *)
(* invariant of its own.                                                   *)
(***************************************************************************)
EXTENDS Shell, FiniteSetTheorems, SequenceTheorems,
        WellFoundedInduction, TLAPS

-----------------------------------------------------------------------------
(* The searches. *)

\* A set of naturals has a least element.
LEMMA Least ==
  ASSUME NEW S, S \subseteq Nat, S # {} PROVE \E i \in S : \A j \in S : i <= j
<1> DEFINE R == {p \in Nat \X Nat : p[1] < p[2]}
<1>1. IsWellFoundedOn(R, Nat)
  BY NatLessThanWellFounded DEF OpToRel
<1>2. \A g, f \in Nat : g < f => <<g, f>> \in R
  OBVIOUS
<1> HIDE DEF R
<1>3. PICK i \in S : \A j \in S : ~ (<<j, i>> \in R)
  BY <1>1, WFMin
<1>4. ASSUME NEW j \in S PROVE i <= j
  <2>1. i \in Nat /\ j \in Nat /\ ~ j < i
    BY <1>2, <1>3
  <2> QED
    BY <2>1
<1> QED
  BY <1>4

\* A search returns a slot that is looked for, or NULL.
LEMMA FirstIn ==
  ASSUME NEW S, S \subseteq Slot PROVE First(S) \in S \/ (S = {} /\ First(S) = 0)
<1>1. S \subseteq Nat
  BY DEF Slot
<1> QED
  BY <1>1, Least DEF First

\* pids are numbers from 1, slots too.
LEMMA Numbers == 0 \notin Pid /\ 0 \notin Slot /\ (\A p \in Pid : ~ p < 1 /\ p >= 1)
BY JobConstantsOK DEF Slot

\* getjobpid finds a slot of the pid, if there is one.
LEMMA Getjobpid ==
  ASSUME NEW p
  PROVE  /\ getjobpid(p) # 0 => getjobpid(p) \in Slot /\ job_list[getjobpid(p)].pid = p
         /\ p \in Pid /\ getjobpid(p) = 0 => \A i \in Slot : job_list[i].pid # p
<1>1. {i \in Slot : job_list[i].pid = p} \subseteq Slot
  OBVIOUS
<1> QED
  BY <1>1, FirstIn, Numbers DEF getjobpid

\* fgpid is the pid of a slot marked FG.
LEMMA Fgpid ==
  ASSUME fgpid # 0 PROVE \E i \in Slot : job_list[i].state = "FG" /\ job_list[i].pid = fgpid
<1>1. {j \in Slot : job_list[j].state = "FG"} \subseteq Slot
  OBVIOUS
<1> QED
  BY <1>1, FirstIn DEF fgpid

\* addjob uses a slot that is free.
LEMMA Freeslot ==
  /\ FreeSlot # 0 => FreeSlot \in Slot /\ job_list[FreeSlot].pid = 0
  /\ FreeSlot = 0 => \A i \in Slot : job_list[i].pid # 0
<1>1. {i \in Slot : job_list[i].pid = 0} \subseteq Slot
  OBVIOUS
<1> QED
  BY <1>1, FirstIn, Numbers DEF FreeSlot

\* The largest job id is one of them, or 0.
LEMMA Maxjid ==
  ASSUME NEW jobs, \A i \in Slot : jobs[i].jid \in Nat PROVE maxjid(jobs) \in Nat
<1> DEFINE Ids(k) == {0} \cup {jobs[i].jid : i \in 1 .. k}
           Has(k) == \E m \in Ids(k) : \A n \in Ids(k) : m >= n
           Bad == {k \in 0 .. MAXJOBS : ~ Has(k)}
<1>1. \A k \in 0 .. MAXJOBS : Ids(k) \subseteq Nat
  BY JobConstantsOK DEF Slot
<1>2. Has(0)
  <2>1. Ids(0) = {0}
    OBVIOUS
  <2> QED
    BY <2>1
<1>3. ASSUME NEW k \in 0 .. MAXJOBS, k # 0, Has(k - 1) PROVE Has(k)
  <2>1. Ids(k) = Ids(k - 1) \cup {jobs[k].jid}
    BY <1>3, JobConstantsOK
  <2>2. jobs[k].jid \in Nat
    BY <1>3, JobConstantsOK DEF Slot
  <2>3. Ids(k - 1) \subseteq Nat
    BY <1>1, <1>3, JobConstantsOK
  <2>4. PICK m \in Ids(k - 1) : \A n \in Ids(k - 1) : m >= n
    BY <1>3
  <2> HIDE DEF Ids
  <2>5. CASE m >= jobs[k].jid
    BY <2>1, <2>4, <2>5
  <2>6. CASE ~ m >= jobs[k].jid
    <3>1. \A n \in Ids(k - 1) : jobs[k].jid >= n
      BY <2>2, <2>3, <2>4, <2>6
    <3>2. jobs[k].jid \in Ids(k)
      BY <2>1
    <3>3. jobs[k].jid >= jobs[k].jid
      BY <2>2
    <3>4. \A n \in Ids(k) : jobs[k].jid >= n
      BY <2>1, <3>1, <3>3
    <3> QED
      BY <3>2, <3>4
  <2> QED
    BY <2>5, <2>6
<1> HIDE DEF Has
<1>4. Bad = {}
  <2>1. SUFFICES ASSUME Bad # {} PROVE FALSE
    OBVIOUS
  <2>0. Bad \subseteq Nat
    BY JobConstantsOK
  <2>2. PICK k \in Bad : \A j \in Bad : k <= j
    <3> HIDE DEF Bad
    <3> QED
      BY <2>0, <2>1, Least
  <2>3. k # 0 /\ k - 1 \in 0 .. MAXJOBS /\ k - 1 \notin Bad
    BY <1>2, <2>2, JobConstantsOK
  <2> QED
    BY <1>3, <2>3
<1>5. Has(MAXJOBS)
  BY <1>4, JobConstantsOK
<1>6. PICK m \in Ids(MAXJOBS) : \A n \in Ids(MAXJOBS) : m >= n
  BY <1>5 DEF Has
<1>7. maxjid(jobs) = Max(Ids(MAXJOBS))
  BY DEF maxjid, Slot
<1>8. MAXJOBS \in 0 .. MAXJOBS
  BY JobConstantsOK
<1> HIDE DEF Ids
<1> QED
  BY <1>1, <1>6, <1>7, <1>8 DEF Max

-----------------------------------------------------------------------------
(* The routines that change the table, and the frames. *)

\* addjob fills one slot that was empty.
LEMMA Added ==
  ASSUME JobTypeOK, NEW pid, pid \in Pid \cup {0}, NEW state \in State, addjob(pid, state)
  PROVE  /\ JobTypeOK' /\ pid \in Pid
         /\ \E i \in Slot :
              /\ job_list[i].pid = 0
              /\ job_list'[i].pid = pid /\ job_list'[i].state = state
              /\ \A j \in Slot : j # i => job_list'[j] = job_list[j]
<1>1. FreeSlot \in Slot /\ job_list[FreeSlot].pid = 0 /\ pid \in Pid
  BY Freeslot DEF addjob, CanAdd
<1>2. job_list' = [job_list EXCEPT ![FreeSlot] = [pid |-> pid, jid |-> nextjid, state |-> state]]
  BY DEF addjob
<1>3. JobTypeOK'
  BY <1>1, <1>2, JobConstantsOK DEF addjob, JobTypeOK
<1> QED
  BY <1>1, <1>2, <1>3 DEF JobTypeOK

\* deletejob empties the slot of the pid, if there is one.
LEMMA Deleted ==
  ASSUME JobTypeOK, NEW pid, deletejob(pid)
  PROVE  /\ JobTypeOK'
         /\ \/ job_list' = job_list /\ getjobpid(pid) = 0
            \/ \E i \in Slot :
                 /\ job_list[i].pid = pid /\ job_list'[i] = Cleared
                 /\ \A j \in Slot : j # i => job_list'[j] = job_list[j]
<1> DEFINE i == getjobpid(pid)
<1>1. CASE i = 0
  BY <1>1 DEF deletejob, jobVars, JobTypeOK
<1>2. CASE i # 0
  <2>1. i \in Slot /\ job_list[i].pid = pid
    BY <1>2, Getjobpid
  <2>2. job_list' = [job_list EXCEPT ![i] = Cleared] /\ nextjid' = maxjid(job_list') + 1
    BY <1>2 DEF deletejob
  <2> HIDE DEF i
  <2>3. job_list' \in [Slot -> [pid : Pid \cup {0}, jid : Nat, state : State]]
    BY <2>1, <2>2 DEF JobTypeOK, Cleared, State
  <2>4. maxjid(job_list') \in Nat
    BY <2>3, Maxjid
  <2> QED
    BY <2>1, <2>2, <2>3, <2>4 DEF JobTypeOK
<1> QED
  BY <1>1, <1>2

\* A job is marked: the state of at most one slot changes, and no pid.
LEMMA Marked ==
  ASSUME JobTypeOK, NEW i, NEW s \in State, setstate(i, s)
  PROVE  /\ JobTypeOK'
         /\ \A j \in Slot : job_list'[j].pid = job_list[j].pid
         /\ \A j \in Slot : job_list'[j].state = IF j = i THEN s ELSE job_list[j].state
BY DEF JobTypeOK, setstate

Frames == stack \in Seq(Frame)

\* The running handler goes on.
LEMMA Goes ==
  ASSUME Frames, stack # << >>, NEW l, l \in {"waitpid", "delete", "stop", "fgpid", "kill"},
         NEW p, p \in Pid \cup {0}, Handler(l, p)
  PROVE  /\ Frames' /\ Len(stack) \in Nat \ {0} /\ Len(stack') = Len(stack)
         /\ \A k \in 1 .. Len(stack) : k # Len(stack) => stack'[k] = stack[k]
         /\ \A k \in 1 .. Len(stack) : stack'[k].sig = stack[k].sig
         /\ stack'[Len(stack)].pc = l /\ stack'[Len(stack)].pid = p
<1> DEFINE n == Len(stack)
<1>1. n \in Nat \ {0} /\ n \in 1 .. n /\ stack \in [1 .. n -> Frame]
  BY DEF Frames
<1>2. stack[n] \in Frame
  BY <1>1
<1> DEFINE f == [[stack[n] EXCEPT !.pc = l] EXCEPT !.pid = p]
<1>3. f \in Frame /\ f.sig = stack[n].sig /\ f.pc = l /\ f.pid = p
  BY <1>2 DEF Frame
<1>4. stack' = [stack EXCEPT ![n] = f]
  BY <1>1 DEF Handler
<1> HIDE DEF f
<1>5. stack' \in Seq(Frame) /\ Len(stack') = n
  BY <1>1, <1>3, <1>4 DEF Frames
<1> QED
  BY <1>1, <1>3, <1>4, <1>5 DEF Frames

\* The running handler returns.
LEMMA Returned ==
  ASSUME Frames, stack # << >>, Return
  PROVE  /\ Frames' /\ Len(stack) \in Nat \ {0} /\ Len(stack') = Len(stack) - 1
         /\ \A k \in 1 .. Len(stack') : stack'[k] = stack[k] /\ k \in 1 .. Len(stack)
                                       /\ k # Len(stack)
         /\ mask' = stack[Len(stack)].restore
<1>1. Len(stack) \in Nat \ {0}
  BY DEF Frames
<1>2. stack' = SubSeq(stack, 1, Len(stack) - 1)
  BY DEF Return
<1> DEFINE n == Len(stack) - 1
<1>a. n \in Int /\ 1 \in Int /\ \A i \in 1 .. n : stack[i] \in Frame
  BY <1>1 DEF Frames
<1>c. n = Len(stack) - 1
  OBVIOUS
<1> HIDE DEF n
<1>b. /\ SubSeq(stack, 1, n) \in Seq(Frame)
      /\ Len(SubSeq(stack, 1, n)) = IF 1 <= n THEN n - 1 + 1 ELSE 0
      /\ \A i \in 1 .. n - 1 + 1 : SubSeq(stack, 1, n)[i] = stack[1 + i - 1]
  BY <1>a, SubSeqProperties
<1>3. stack' \in Seq(Frame)
  BY <1>2, <1>b, <1>c
<1>4. Len(stack') = Len(stack) - 1
  BY <1>1, <1>2, <1>b, <1>c
<1>5. \A k \in 1 .. Len(stack') : stack'[k] = stack[k]
  <2>1. \A k \in 1 .. n : stack'[k] = stack[1 + k - 1]
    BY <1>1, <1>2, <1>b, <1>c
  <2>2. \A k \in 1 .. n : 1 + k - 1 = k
    OBVIOUS
  <2> QED
    BY <1>4, <1>c, <2>1, <2>2
<1>6. mask' = stack[Len(stack)].restore
  BY DEF Return, Top
<1>7. \A k \in 1 .. Len(stack') : k \in 1 .. Len(stack) /\ k # Len(stack)
  BY <1>1, <1>4
<1> QED
  BY <1>1, <1>3, <1>4, <1>5, <1>6, <1>7 DEF Frames

\* A handler starts on top of the others.
LEMMA Started ==
  ASSUME Frames, mask \in BOOLEAN, NEW sig \in {"CHLD", "INT", "TSTP"}, StartHandler(sig)
  PROVE  /\ Frames' /\ Len(stack) \in Nat /\ Len(stack') = Len(stack) + 1
         /\ \A k \in 1 .. Len(stack) : stack'[k] = stack[k]
         /\ stack'[Len(stack')].sig = sig
         /\ stack'[Len(stack')].pid = 0
         /\ stack'[Len(stack')].pc = IF sig = "CHLD" THEN "waitpid" ELSE "fgpid"
<1> DEFINE f == [sig |-> sig, pid |-> 0, restore |-> mask,
                 pc |-> IF sig = "CHLD" THEN "waitpid" ELSE "fgpid"]
<1>1. f \in Frame
  BY DEF Frame
<1>2. stack' = Append(stack, f)
  BY DEF StartHandler
<1>3. f.sig = sig /\ f.pid = 0 /\ f.pc = IF sig = "CHLD" THEN "waitpid" ELSE "fgpid"
  OBVIOUS
<1> HIDE DEF f
<1>4. stack' \in Seq(Frame) /\ Len(stack) \in Nat /\ Len(stack') = Len(stack) + 1
  BY <1>1, <1>2 DEF Frames
<1>5. \A k \in 1 .. Len(stack) : stack'[k] = stack[k]
  BY <1>1, <1>2, <1>4 DEF Frames
<1>6. stack'[Len(stack')] = f
  BY <1>1, <1>2, <1>4 DEF Frames
<1> QED
  BY <1>3, <1>4, <1>5, <1>6 DEF Frames

-----------------------------------------------------------------------------
(* Types. *)

Place == {"prompt", "add", "unblock", "report", "fgpid", "state", "sigsuspend",
          "asleep", "setBG", "fg_fgpid", "fg_state", "fg_sigsuspend", "fg_asleep",
          "setFG", "cont"}

\* A signal has at most one frame.
Distinct ==
  \A i, j \in 1 .. Len(stack) : stack[i].sig = stack[j].sig => i = j

\* A handler that is about to act on a child has one.
Aimed ==
  \A k \in 1 .. Len(stack) : stack[k].pc \in {"delete", "stop", "kill"} => stack[k].pid \in Pid

Typed == TypeOK /\ Distinct /\ Aimed

\* The children, the keys and the driver change no frame and no job.
LEMMA WorldTyped == ASSUME Typed, World PROVE Typed'
<1> USE DEF Typed, TypeOK, JobTypeOK, Distinct, Aimed, ProcState, Become, jobVars, main, limits, kernel
<1>1. CASE \E p \in Pid : ChildSetsGroup(p)
  BY <1>1 DEF ChildSetsGroup
<1>2. CASE \E p \in Pid : ChildEnds(p)
  BY <1>2 DEF ChildEnds
<1>3. CASE \E p \in Pid : ChildStops(p)
  BY <1>3 DEF ChildStops
<1>4. CASE \E sig \in {"INT", "TSTP"} : Key(sig)
  BY <1>4, ShellConstantsOK DEF Key
<1>5. CASE Sigquit
  BY <1>5 DEF Sigquit
<1> QED
  BY <1>1, <1>2, <1>3, <1>4, <1>5 DEF World

StackOK == Frames /\ Len(stack) <= 3 /\ Distinct /\ Aimed

\* The frames while a handler goes on, or returns.
LEMMA GoesTyped ==
  ASSUME StackOK, stack # << >>, NEW l, l \in {"waitpid", "delete", "stop", "kill"},
         NEW p, p \in Pid \/ (l = "waitpid" /\ p = 0), Handler(l, p)
  PROVE  StackOK'
<1>1. /\ Frames' /\ Len(stack) \in Nat \ {0} /\ Len(stack') = Len(stack)
      /\ \A k \in 1 .. Len(stack) : k # Len(stack) => stack'[k] = stack[k]
      /\ \A k \in 1 .. Len(stack) : stack'[k].sig = stack[k].sig
      /\ stack'[Len(stack)].pc = l /\ stack'[Len(stack)].pid = p
  BY Goes DEF StackOK
<1>2. Distinct'
  BY <1>1 DEF StackOK, Distinct
<1>3. Aimed'
  BY <1>1 DEF StackOK, Aimed
<1> QED
  BY <1>1, <1>2, <1>3 DEF StackOK

LEMMA ReturnedTyped ==
  ASSUME StackOK, stack # << >>, Return
  PROVE  StackOK' /\ mask' \in BOOLEAN
<1>1. stack[Len(stack)] \in Frame
  BY DEF StackOK, Frames
<1>2. mask' \in BOOLEAN
  BY <1>1, Returned DEF StackOK, Frame
<1> QED
  BY <1>2, Returned DEF StackOK, Distinct, Aimed

\* There are three signals, hence never more than three frames.
LEMMA StartTyped ==
  ASSUME Typed, NEW sig \in {"CHLD", "INT", "TSTP"}, StartHandler(sig)
  PROVE  Typed'
<1>1. Frames /\ mask \in BOOLEAN
  BY DEF Typed, TypeOK, Frames
<1>2. /\ Frames' /\ Len(stack) \in Nat /\ Len(stack') = Len(stack) + 1
      /\ \A k \in 1 .. Len(stack) : stack'[k] = stack[k]
      /\ stack'[Len(stack')].sig = sig
  BY <1>1, Started
<1>3. \A k \in 1 .. Len(stack) : stack[k].sig # sig
  BY DEF StartHandler, Handling
<1>4. Len(stack) # 3
  <2>1. SUFFICES ASSUME Len(stack) = 3 PROVE FALSE
    OBVIOUS
  <2>2. stack[1] \in Frame /\ stack[2] \in Frame /\ stack[3] \in Frame
    BY <1>1, <2>1 DEF Frames
  <2>3. 1 \in 1 .. Len(stack) /\ 2 \in 1 .. Len(stack) /\ 3 \in 1 .. Len(stack)
    BY <2>1
  <2>4. /\ stack[1].sig \in {"CHLD", "INT", "TSTP"} \ {sig}
        /\ stack[2].sig \in {"CHLD", "INT", "TSTP"} \ {sig}
        /\ stack[3].sig \in {"CHLD", "INT", "TSTP"} \ {sig}
    BY <1>3, <2>2, <2>3 DEF Frame
  <2>5. stack[1].sig # stack[2].sig /\ stack[1].sig # stack[3].sig /\ stack[2].sig # stack[3].sig
    BY <2>3 DEF Typed, Distinct
  <2> QED
    BY <2>4, <2>5
<1>5. Len(stack') <= 3
  <2>1. Len(stack) <= 3
    BY Zenon DEF Typed, TypeOK
  <2>2. Len(stack) \in Nat /\ Len(stack') = Len(stack) + 1
    BY <1>2
  <2>3. \A n \in Nat : n <= 3 /\ n # 3 => n + 1 <= 3
    OBVIOUS
  <2> QED
    BY <1>4, <2>1, <2>2, <2>3, Zenon
<1>6. Distinct'
  <2>1. ASSUME NEW i \in 1 .. Len(stack'), NEW j \in 1 .. Len(stack'),
               stack'[i].sig = stack'[j].sig
        PROVE  i = j
    <3>1. i \in 1 .. Len(stack) \/ i = Len(stack')
      BY <1>2
    <3>2. j \in 1 .. Len(stack) \/ j = Len(stack')
      BY <1>2
    <3> QED
      BY <1>2, <1>3, <2>1, <3>1, <3>2 DEF Distinct, Typed
  <2> QED
    BY <2>1 DEF Distinct
<1>8. Aimed'
  <2>1. \A k \in 1 .. Len(stack') : k \in 1 .. Len(stack) \/ k = Len(stack')
    BY <1>2
  <2>2. stack'[Len(stack')].pc \notin {"delete", "stop", "kill"}
    BY <1>1, Started
  <2> QED
    BY <1>2, <2>1, <2>2 DEF Aimed, Typed
<1>7. /\ pc' \in Place /\ mask' \in BOOLEAN /\ pending' \subseteq {"CHLD", "INT", "TSTP"}
      /\ UNCHANGED <<job_list, nextjid, proc, news, doomed, cur, bg, job, commands, keys,
                     forkfails, status>>
  BY DEF StartHandler, Typed, TypeOK, Place, jobVars, kernel, limits
<1> QED
  BY <1>2, <1>5, <1>6, <1>7, <1>8 DEF Typed, TypeOK, JobTypeOK, Frames, Place

\* Of a step of a handler only the table, the kernel, the signals and the
\* frames have to be considered.
LEMMA HandlerTyped ==
  ASSUME TypeOK, JobTypeOK', StackOK',
         proc' \in [Pid -> ProcState], news' \subseteq Pid, doomed' \subseteq Pid,
         pending' \subseteq {"CHLD", "INT", "TSTP"}, mask' \in BOOLEAN,
         status' \in {status, "segfault", "kill_failed"},
         UNCHANGED <<main, limits>>
  PROVE  Typed'
BY DEF Typed, TypeOK, StackOK, Frames, main, limits

LEMMA HandlersTyped == ASSUME Typed, Handlers PROVE Typed'
<1> USE DEF ProcState, Become
<1>1. CASE \E sig \in {"CHLD", "INT", "TSTP"} : StartHandler(sig)
  BY <1>1, StartTyped
<1> SUFFICES ASSUME stack # << >>,
                    \/ \E p \in Pid : WaitpidReaps(p) \/ WaitpidStopped(p)
                    \/ WaitpidNone \/ HandlerDeletes \/ HandlerStops \/ HandlerLooks \/ HandlerKills
             PROVE  Typed'
  BY <1>1 DEF Handlers
<1>2. TypeOK /\ StackOK /\ JobTypeOK
  BY DEF Typed, TypeOK, StackOK, Frames
<1>3. Top \in Frame
  BY <1>2 DEF Top, StackOK, Frames
<1>a. Top.pc \in {"delete", "stop", "kill"} => Top.pid \in Pid
  <2>1. Len(stack) \in 1 .. Len(stack)
    BY <1>2 DEF StackOK, Frames
  <2> QED
    BY <1>2, <2>1 DEF Top, StackOK, Aimed
<1>4. CASE \E p \in Pid : WaitpidReaps(p)
  <2>1. PICK p \in Pid : WaitpidReaps(p)
    BY <1>4
  <2>2. StackOK'
    BY <1>2, <2>1, GoesTyped DEF WaitpidReaps
  <2>3. JobTypeOK' /\ UNCHANGED <<doomed, pending, mask, main, limits, status>>
    BY <1>2, <2>1 DEF WaitpidReaps, jobVars, JobTypeOK
  <2>4. proc' \in [Pid -> ProcState] /\ news' \subseteq Pid
    BY <1>2, <2>1 DEF WaitpidReaps, TypeOK
  <2> QED
    BY <1>2, <2>2, <2>3, <2>4, HandlerTyped DEF TypeOK
<1>5. CASE \E p \in Pid : WaitpidStopped(p)
  <2>1. PICK p \in Pid : WaitpidStopped(p)
    BY <1>5
  <2>2. StackOK'
    BY <1>2, <2>1, GoesTyped DEF WaitpidStopped
  <2>3. JobTypeOK' /\ UNCHANGED <<proc, doomed, pending, mask, main, limits, status>>
    BY <1>2, <2>1 DEF WaitpidStopped, jobVars, JobTypeOK
  <2>4. news' \subseteq Pid
    BY <1>2, <2>1 DEF WaitpidStopped, TypeOK
  <2> QED
    BY <1>2, <2>2, <2>3, <2>4, HandlerTyped DEF TypeOK
<1>6. CASE WaitpidNone
  <2>1. StackOK' /\ mask' \in BOOLEAN
    BY <1>2, <1>6, ReturnedTyped DEF WaitpidNone
  <2>2. JobTypeOK' /\ UNCHANGED <<proc, news, doomed, pending, main, limits, status>>
    BY <1>2, <1>6 DEF WaitpidNone, jobVars, kernel, JobTypeOK
  <2> QED
    BY <1>2, <2>1, <2>2, HandlerTyped DEF TypeOK
<1>7. CASE HandlerDeletes
  <2>1. StackOK'
    BY <1>2, <1>7, GoesTyped DEF HandlerDeletes
  <2>2. JobTypeOK' /\ UNCHANGED <<proc, news, doomed, pending, mask, main, limits, status>>
    BY <1>2, <1>7, Deleted DEF HandlerDeletes, kernel
  <2> QED
    BY <1>2, <2>1, <2>2, HandlerTyped DEF TypeOK
<1>8. CASE HandlerStops
  <2>1. StackOK'
    BY <1>2, <1>8, GoesTyped DEF HandlerStops
  <2>2. JobTypeOK'
    BY <1>2, <1>8, Marked DEF HandlerStops, jobVars, JobTypeOK, State
  <2>3. UNCHANGED <<proc, news, doomed, pending, mask, main, limits>> /\ status' \in {status, "segfault"}
    BY <1>8 DEF HandlerStops, kernel
  <2> QED
    BY <1>2, <2>1, <2>2, <2>3, HandlerTyped DEF TypeOK
<1>9. CASE HandlerLooks
  <2>1. StackOK' /\ mask' \in BOOLEAN
    <3>1. CASE fgpid = 0
      BY <1>2, <1>9, <3>1, ReturnedTyped DEF HandlerLooks
    <3>2. CASE fgpid # 0
      <4>1. fgpid \in Pid
        BY <1>2, <3>2, Fgpid DEF JobTypeOK
      <4> QED
        BY <1>2, <1>9, <3>2, <4>1, GoesTyped DEF HandlerLooks, TypeOK
    <3> QED
      BY <3>1, <3>2
  <2>2. JobTypeOK' /\ UNCHANGED <<proc, news, doomed, pending, main, limits, status>>
    BY <1>2, <1>9 DEF HandlerLooks, jobVars, kernel, JobTypeOK
  <2> QED
    BY <1>2, <2>1, <2>2, HandlerTyped DEF TypeOK
<1>10. CASE HandlerKills
  <2>1. StackOK' /\ mask' \in BOOLEAN
    BY <1>2, <1>10, ReturnedTyped DEF HandlerKills
  <2>2. JobTypeOK' /\ UNCHANGED <<main, limits>> /\ status' \in {status, "kill_failed"}
    BY <1>2, <1>10 DEF HandlerKills, jobVars, JobTypeOK
  <2>3. /\ proc' \in [Pid -> ProcState] /\ news' \subseteq Pid /\ doomed' \subseteq Pid
        /\ pending' \subseteq {"CHLD", "INT", "TSTP"}
    BY <1>2, <1>a, <1>10 DEF HandlerKills, Deliver, kernel, TypeOK, Frame
  <2> QED
    BY <1>2, <2>1, <2>2, <2>3, HandlerTyped
<1> QED
  BY <1>4, <1>5, <1>6, <1>7, <1>8, <1>9, <1>10

\* eval takes the lowest pid that is not in use.
LEMMA Forked ==
  ASSUME TypeOK, NEW b, Fork(b)
  PROVE  \/ proc' = proc /\ cur' = 0
         \/ /\ cur' \in Pid /\ proc[cur'] = "none"
            /\ proc' = [proc EXCEPT ![cur'] = "new"]
<1> DEFINE Unused == {p \in Pid : proc[p] = "none"}
<1>1. Unused \subseteq Nat /\ Unused # {}
  BY JobConstantsOK DEF Fork
<1>2. Min(Unused) \in Unused
  <2> HIDE DEF Unused
  <2> QED
    BY <1>1, Least DEF Min
<1> QED
  BY <1>2 DEF Fork, Become

\* Of a step of the main routine: the frames stay.
LEMMA MainTyped ==
  ASSUME Typed, JobTypeOK', proc' \in [Pid -> ProcState],
         news' \subseteq Pid, doomed' \subseteq Pid,
         pending' \subseteq {"CHLD", "INT", "TSTP"}, mask' \in BOOLEAN,
         pc' \in Place, cur' \in Pid \cup {0}, bg' \in BOOLEAN, job' \in 0 .. MAXJOBS,
         commands' \in 0 .. COMMANDS, forkfails' \in 0 .. FORKFAILS,
         status' \in {status, "segfault", "write_failed", "quit"},
         UNCHANGED <<stack, keys>>
  PROVE  Typed'
BY DEF Typed, TypeOK, Distinct, Aimed, Place

LEMMA UserTyped == ASSUME Typed, User PROVE Typed'
<1>0. TypeOK /\ JobTypeOK
  BY DEF Typed, TypeOK
<1>1. ASSUME NEW b \in BACKGROUND, Fork(b) PROVE Typed'
  <2>1. proc' \in [Pid -> ProcState] /\ cur' \in Pid \cup {0}
    BY <1>0, <1>1, Forked DEF TypeOK, ProcState
  <2>2. JobTypeOK' /\ UNCHANGED <<news, doomed, pending, stack, job, commands, keys, status>>
    BY <1>0, <1>1 DEF Fork, jobVars, JobTypeOK
  <2>3. pc' \in Place /\ mask' \in BOOLEAN /\ bg' \in BOOLEAN /\ forkfails' \in 0 .. FORKFAILS
    BY <1>0, <1>1, ShellConstantsOK DEF Fork, Place, TypeOK
  <2> QED
    BY <1>0, <2>1, <2>2, <2>3, MainTyped DEF TypeOK
<1>2. ASSUME NEW n, NEW i \in Named, NEW l \in Place, Command(n, i, l) PROVE Typed'
  <2>1. Named \subseteq 0 .. MAXJOBS
    <3>1. \A p : getjobpid(p) \in Slot \cup {0}
      BY Getjobpid
    <3>2. \A j : getjobjid(j) \in Slot \cup {0}
      <4>1. \A j : {k \in Slot : job_list[k].jid = j} \subseteq Slot
        OBVIOUS
      <4> QED
        BY <4>1, FirstIn DEF getjobjid
    <3>3. Slot \cup {0} \subseteq 0 .. MAXJOBS
      BY JobConstantsOK DEF Slot
    <3> QED
      BY <3>1, <3>2, <3>3 DEF Named
  <2>2. JobTypeOK' /\ UNCHANGED <<proc, news, doomed, pending, mask, stack, cur, bg, keys, forkfails>>
    BY <1>0, <1>2 DEF Command, jobVars, kernel, JobTypeOK
  <2>3. /\ pc' \in Place /\ job' \in 0 .. MAXJOBS /\ status' \in {status, "segfault"}
        /\ commands' \in 0 .. COMMANDS
    BY <1>0, <1>2, <2>1, ShellConstantsOK DEF Command, Place, TypeOK
  <2> QED
    BY <1>0, <2>2, <2>3, MainTyped DEF TypeOK
<1>3. CASE ListJobs
  BY <1>0, <1>3, MainTyped, ShellConstantsOK
     DEF ListJobs, ListFails, TypeOK, jobVars, kernel, main, JobTypeOK, Place
<1>4. CASE Quit
  BY <1>0, <1>4, MainTyped DEF Quit, TypeOK, jobVars, kernel, main, limits, JobTypeOK, Place
<1> QED
  BY <1>1, <1>2, <1>3, <1>4 DEF User, Place

LEMMA ActsTyped == ASSUME Typed, Main PROVE Typed'
<1>0. TypeOK /\ JobTypeOK
  BY DEF Typed, TypeOK
<1> USE DEF Place
<1>a. ASSUME pc' \in Place, mask' \in BOOLEAN, status' \in {status, "segfault"},
             UNCHANGED <<jobVars, kernel, pending, stack, cur, bg, job, limits>>
      PROVE  Typed'
  BY <1>0, <1>a, MainTyped DEF TypeOK, jobVars, kernel, limits, JobTypeOK
<1>1. CASE AddJob
  <2>1. JobTypeOK'
    BY <1>0, <1>1, Added DEF AddJob, TypeOK, State
  <2> QED
    BY <1>0, <1>1, <2>1, MainTyped DEF AddJob, TypeOK, kernel, limits
<1>2. CASE AddJobFails
  BY <1>0, <1>2, <1>a DEF AddJobFails, TypeOK
<1>3. CASE Unblock
  BY <1>0, <1>3, <1>a DEF Unblock, TypeOK
<1>4. CASE Report
  BY <1>0, <1>4, <1>a DEF Report, TypeOK
<1>5. ASSUME NEW at, NEW next \in Place, NEW exit \in Place, TestFgpid(at, next, exit) PROVE Typed'
  BY <1>0, <1>5, <1>a DEF TestFgpid, TypeOK
<1>6. ASSUME NEW at, NEW p, NEW next \in Place, NEW exit \in Place, TestState(at, p, next, exit)
      PROVE  Typed'
  BY <1>0, <1>6, <1>a DEF TestState, TypeOK
<1>7. ASSUME NEW at, NEW asleep \in Place, Sleep(at, asleep) PROVE Typed'
  BY <1>0, <1>7, <1>a DEF Sleep, TypeOK
<1>8. ASSUME NEW at, NEW s \in State, SetState(at, s) PROVE Typed'
  <2>1. JobTypeOK'
    BY <1>0, <1>8, Marked DEF SetState
  <2> QED
    BY <1>0, <1>8, <2>1, MainTyped DEF SetState, TypeOK, kernel, limits
<1>9. CASE Cont
  <2>1. /\ proc' \in [Pid -> ProcState] /\ news' \subseteq Pid /\ doomed' \subseteq Pid
        /\ pending' \subseteq {"CHLD", "INT", "TSTP"}
    BY <1>0, <1>9 DEF Cont, Continue, Become, kernel, TypeOK, ProcState
  <2> QED
    BY <1>0, <1>9, <2>1, MainTyped DEF Cont, TypeOK, limits, jobVars, JobTypeOK
<1>10. {"BG", "FG"} \subseteq State
  BY DEF State
<1> QED
  BY <1>1, <1>2, <1>3, <1>4, <1>5, <1>6, <1>7, <1>8, <1>9, <1>10 DEF Main

LEMMA TypedInit == Init => Typed
<1> SUFFICES ASSUME Init PROVE Typed
  OBVIOUS
<1>1. JobTypeOK
  BY DEF Init, InitJobs, JobTypeOK, Cleared, State
<1>2. stack = << >> /\ stack \in Seq(Frame) /\ Len(stack) = 0
  BY DEF Init
<1>3. Distinct /\ Aimed
  BY <1>2 DEF Distinct, Aimed
<1>4. 0 \in 0 .. MAXJOBS
  BY JobConstantsOK
<1>5. commands \in 0 .. COMMANDS /\ keys \in 0 .. KEYS /\ forkfails \in 0 .. FORKFAILS
  BY ShellConstantsOK DEF Init
<1>6. proc \in [Pid -> ProcState] /\ Len(stack) <= 3
  BY <1>2 DEF Init, ProcState
<1> QED
  BY <1>1, <1>2, <1>3, <1>4, <1>5, <1>6 DEF Init, Typed, TypeOK

LEMMA TypedNext == Typed /\ [Next]_vars => Typed'
<1>1. ASSUME Typed, UNCHANGED vars PROVE Typed'
  BY <1>1 DEF Typed, TypeOK, JobTypeOK, Distinct, Aimed, vars, kernel, main, limits
<1> QED
  BY <1>1, WorldTyped, HandlersTyped, UserTyped, ActsTyped DEF Next

\* Every variable keeps its type, however signals interrupt the shell and each
\* other: there are never more than three handler frames, one per signal.
THEOREM TypeCorrect == Spec => []TypeOK
<1>1. Typed => TypeOK
  BY DEF Typed
<1> QED
  BY <1>1, TypedInit, TypedNext, PTL DEF Spec

-----------------------------------------------------------------------------
(* The table. *)

Listed(p) == \E i \in Slot : job_list[i].pid = p

\* Every pid is listed at most once.
Once ==
  \A i, j \in Slot : job_list[i].pid # 0 /\ job_list[i].pid = job_list[j].pid => i = j

\* What is listed was forked.
Known == \A i \in Slot : job_list[i].pid # 0 => proc[job_list[i].pid] # "none"

\* Between fork and addjob no handler runs, so the child is neither reaped
\* nor listed.
InEval ==
  pc = "add" =>
    /\ mask /\ stack = << >>
    /\ cur # 0 => proc[cur] \notin {"none", "reaped"} /\ ~ Listed(cur)

\* sigchld_handler deletes what it reaped.
Deleting ==
  \A k \in 1 .. Len(stack) : stack[k].pc = "delete" => proc[stack[k].pid] = "reaped"

Table == Once /\ Known /\ InEval /\ Deleting /\ NoStaleJob

SamePids == \A i \in Slot : job_list'[i].pid = job_list[i].pid

\* The same frames are about to delete.
SameDeletes ==
  /\ \A k \in 1 .. Len(stack) :
       stack[k].pc = "delete" => k \in 1 .. Len(stack') /\ stack'[k] = stack[k]
  /\ \A k \in 1 .. Len(stack') :
       stack'[k].pc = "delete" => k \in 1 .. Len(stack) /\ stack'[k] = stack[k]

\* No child is born or reaped.
SameChildren ==
  \A p \in Pid : proc'[p] = proc[p] \/ {proc[p], proc'[p]} \cap {"none", "reaped"} = {}

\* What all steps but fork, addjob and deletejob, and a zombie's reaping, leave.
LEMMA TableStays ==
  ASSUME Typed, Table, SamePids, SameDeletes, SameChildren,
         pc' # "add" \/ UNCHANGED <<pc, cur, mask, stack>>
  PROVE  Table'
<1>1. \A i \in Slot : job_list[i].pid \in Pid \cup {0}
  BY DEF Typed, TypeOK, JobTypeOK
<1>2. Once'
  BY DEF Table, Once, SamePids
<1>3. Known'
  BY <1>1 DEF Table, Known, SamePids, SameChildren
<1>4. InEval'
  BY DEF Table, InEval, Listed, SamePids, SameChildren, Typed, TypeOK
<1>5. Deleting'
  <2>1. \A k \in 1 .. Len(stack) : stack[k].pc = "delete" => stack[k].pid \in Pid
    BY DEF Typed, Aimed
  <2> QED
    BY <2>1 DEF Table, Deleting, SameDeletes, SameChildren
<1>6. NoStaleJob'
  <2>1. ASSUME NEW i \in Slot, job_list'[i].pid # 0, proc'[job_list'[i].pid] = "reaped"
        PROVE  \E k \in 1 .. Len(stack') : stack'[k].pc = "delete" /\ stack'[k].pid = job_list'[i].pid
    <3>1. proc[job_list[i].pid] = "reaped" /\ job_list[i].pid = job_list'[i].pid
      BY <1>1, <2>1 DEF SamePids, SameChildren
    <3>2. PICK k \in 1 .. Len(stack) : stack[k].pc = "delete" /\ stack[k].pid = job_list[i].pid
      BY <2>1, <3>1 DEF Table, NoStaleJob
    <3> QED
      BY <3>1, <3>2 DEF SameDeletes
  <2> QED
    BY <2>1 DEF NoStaleJob
<1> QED
  BY <1>2, <1>3, <1>4, <1>5, <1>6 DEF Table

\* Handlers that neither are nor will be about to delete.
LEMMA OtherFrames ==
  ASSUME Frames, stack # << >>, Top.pc # "delete",
         \/ Return
         \/ \E l \in {"waitpid", "stop", "kill"}, p \in Pid \cup {0} : Handler(l, p)
  PROVE  SameDeletes
<1>1. Len(stack) \in Nat \ {0}
  BY DEF Frames
<1>2. CASE Return
  BY <1>2, Returned DEF SameDeletes, Top
<1>3. ASSUME NEW l \in {"waitpid", "stop", "kill"}, NEW p \in Pid \cup {0}, Handler(l, p)
      PROVE  SameDeletes
  BY <1>3, Goes DEF SameDeletes, Top
<1> QED
  BY <1>2, <1>3

LEMMA StartFrames ==
  ASSUME Typed, NEW sig \in {"CHLD", "INT", "TSTP"}, StartHandler(sig) PROVE SameDeletes
<1>1. Frames /\ mask \in BOOLEAN
  BY DEF Typed, TypeOK, Frames
<1>2. /\ Len(stack) \in Nat /\ Len(stack') = Len(stack) + 1
      /\ \A k \in 1 .. Len(stack) : stack'[k] = stack[k]
      /\ stack'[Len(stack')].pc # "delete"
  BY <1>1, Started
<1>3. \A k \in 1 .. Len(stack') : k \in 1 .. Len(stack) \/ k = Len(stack')
  BY <1>2
<1>4. \A k \in 1 .. Len(stack) : k \in 1 .. Len(stack')
  BY <1>2
<1> QED
  BY <1>2, <1>3, <1>4 DEF SameDeletes

\* A zombie is reaped: its handler is about to delete it.
LEMMA ReapsTable ==
  ASSUME Typed, Table, stack # << >>, NEW p \in Pid, WaitpidReaps(p) PROVE Table'
<1>0. Frames /\ \A i \in Slot : job_list[i].pid \in Pid \cup {0}
  BY DEF Typed, TypeOK, JobTypeOK, Frames
<1> DEFINE n == Len(stack)
<1>1. /\ n \in Nat \ {0} /\ Len(stack') = n
      /\ \A k \in 1 .. n : k # n => stack'[k] = stack[k]
      /\ stack'[n].pc = "delete" /\ stack'[n].pid = p
  BY <1>0, Goes DEF WaitpidReaps
<1>2. job_list' = job_list /\ pc' = pc /\ stack[n].pc = "waitpid"
  BY DEF WaitpidReaps, jobVars, main, Top
<1>3. /\ proc[p] = "zombie" /\ proc'[p] = "reaped"
      /\ \A q \in Pid : q # p => proc'[q] = proc[q]
  BY DEF WaitpidReaps, Become, Typed, TypeOK
<1>4. pc # "add"
  BY DEF Table, InEval
<1>5. n \in 1 .. n
  BY <1>1
<1> HIDE DEF n
<1>6. Once' /\ InEval'
  BY <1>2, <1>4 DEF Table, Once, InEval
<1>7. Known'
  BY <1>0, <1>2, <1>3 DEF Table, Known
<1>8. Deleting'
  <2>1. ASSUME NEW k \in 1 .. n, stack'[k].pc = "delete" PROVE proc'[stack'[k].pid] = "reaped"
    <3>1. CASE k = n
      BY <1>1, <1>3, <3>1
    <3>2. CASE k # n
      <4>1. stack[k].pid \in Pid /\ proc[stack[k].pid] = "reaped"
        BY <1>1, <2>1, <3>2 DEF Typed, Aimed, Table, Deleting, n
      <4> QED
        BY <1>1, <1>3, <3>2, <4>1
    <3> QED
      BY <3>1, <3>2
  <2> QED
    BY <1>1, <2>1 DEF Deleting
<1>9. NoStaleJob'
  <2>1. ASSUME NEW i \in Slot, job_list'[i].pid # 0, proc'[job_list'[i].pid] = "reaped"
        PROVE  \E k \in 1 .. n : stack'[k].pc = "delete" /\ stack'[k].pid = job_list'[i].pid
    <3>1. CASE job_list[i].pid = p
      BY <1>1, <1>2, <1>5, <3>1
    <3>2. CASE job_list[i].pid # p
      <4>1. proc[job_list[i].pid] = "reaped"
        BY <1>0, <1>2, <1>3, <2>1, <3>2
      <4>2. PICK k \in 1 .. n : stack[k].pc = "delete" /\ stack[k].pid = job_list[i].pid
        BY <1>2, <2>1, <4>1 DEF Table, NoStaleJob, n
      <4> QED
        BY <1>1, <1>2, <4>2
    <3> QED
      BY <3>1, <3>2
  <2> QED
    BY <1>1, <2>1 DEF NoStaleJob
<1> QED
  BY <1>6, <1>7, <1>8, <1>9 DEF Table

\* deletejob: no other slot holds the pid.
LEMMA DeletesOne ==
  ASSUME Typed, Table, stack # << >>, HandlerDeletes
  PROVE  /\ Top.pid \in Pid /\ proc[Top.pid] = "reaped"
         /\ \A i \in Slot : job_list[i].pid = Top.pid => job_list'[i] = Cleared
         /\ \A i \in Slot : job_list[i].pid # Top.pid => job_list'[i] = job_list[i]
<1>0. Frames /\ JobTypeOK
  BY DEF Typed, TypeOK, Frames
<1> DEFINE p == Top.pid
<1>1. Len(stack) \in 1 .. Len(stack)
  BY <1>0 DEF Frames
<1>2. p \in Pid /\ proc[p] = "reaped" /\ deletejob(p)
  BY <1>1 DEF HandlerDeletes, Top, Typed, Aimed, Table, Deleting
<1> HIDE DEF p
<1>3. CASE job_list' = job_list /\ getjobpid(p) = 0
  BY <1>2, <1>3, Getjobpid DEF p
<1>4. ASSUME NEW i \in Slot, job_list[i].pid = p, job_list'[i] = Cleared,
             \A j \in Slot : j # i => job_list'[j] = job_list[j]
      PROVE  /\ \A j \in Slot : job_list[j].pid = p => job_list'[j] = Cleared
             /\ \A j \in Slot : job_list[j].pid # p => job_list'[j] = job_list[j]
  <2>1. p # 0
    BY <1>2, Numbers
  <2>2. \A j \in Slot : job_list[j].pid = p => j = i
    BY <1>4, <2>1 DEF Table, Once
  <2> QED
    BY <1>4, <2>2
<1> QED
  BY <1>0, <1>2, <1>3, <1>4, Deleted DEF p

LEMMA DeletesTable ==
  ASSUME Typed, Table, stack # << >>, HandlerDeletes PROVE Table'
<1>0. Frames /\ JobTypeOK
  BY DEF Typed, TypeOK, Frames
<1> DEFINE n == Len(stack)
           p == stack[n].pid
<1>1. /\ n \in Nat \ {0} /\ Len(stack') = n
      /\ \A k \in 1 .. n : k # n => stack'[k] = stack[k]
      /\ stack'[n].pc = "waitpid"
  BY <1>0, Goes DEF HandlerDeletes
<1>2. UNCHANGED <<proc, mask, pc, cur>>
  BY DEF HandlerDeletes, kernel, main
<1>3. n \in 1 .. n
  BY <1>1
<1>4. pc # "add"
  BY DEF Table, InEval
<1>5. \A i \in Slot : job_list'[i].pid = IF job_list[i].pid = p THEN 0 ELSE job_list[i].pid
  BY DeletesOne DEF Top, Cleared
<1> HIDE DEF n, p
<1>6. Once' /\ Known' /\ InEval'
  BY <1>2, <1>4, <1>5 DEF Table, Once, Known, InEval
<1>7. Deleting'
  BY <1>1, <1>2 DEF Table, Deleting, n
<1>8. NoStaleJob'
  <2>1. ASSUME NEW i \in Slot, job_list'[i].pid # 0, proc'[job_list'[i].pid] = "reaped"
        PROVE  \E k \in 1 .. n : stack'[k].pc = "delete" /\ stack'[k].pid = job_list'[i].pid
    <3>1. job_list'[i].pid = job_list[i].pid /\ job_list[i].pid # p
      BY <1>5, <2>1
    <3>2. PICK k \in 1 .. n : stack[k].pc = "delete" /\ stack[k].pid = job_list[i].pid
      BY <1>2, <2>1, <3>1 DEF Table, NoStaleJob, n
    <3>3. k # n
      BY <3>1, <3>2 DEF p
    <3> QED
      BY <1>1, <3>1, <3>2, <3>3
  <2> QED
    BY <1>1, <2>1 DEF NoStaleJob
<1> QED
  BY <1>6, <1>7, <1>8 DEF Table

\* fork: the pid is fresh.
LEMMA ForkTable == ASSUME Typed, Table, stack = << >>, NEW b, Fork(b) PROVE Table'
<1>0. TypeOK /\ \A i \in Slot : job_list[i].pid \in Pid \cup {0}
  BY DEF Typed, TypeOK, JobTypeOK
<1>1. job_list' = job_list /\ stack' = << >> /\ Len(stack') = 0 /\ mask'
  BY DEF Fork, jobVars
<1>2. CASE proc' = proc /\ cur' = 0
  BY <1>1, <1>2 DEF Table, Once, Known, InEval, Deleting, NoStaleJob
<1>3. CASE /\ cur' \in Pid /\ proc[cur'] = "none"
           /\ proc' = [proc EXCEPT ![cur'] = "new"]
  <2>1. proc'[cur'] = "new" /\ \A q \in Pid : q # cur' => proc'[q] = proc[q]
    BY <1>0, <1>3 DEF TypeOK
  <2>2. \A i \in Slot : job_list[i].pid # 0 => job_list[i].pid \in Pid \ {cur'}
    BY <1>0, <1>3 DEF Table, Known
  <2>3. cur' # 0
    BY <1>3, Numbers
  <2>4. Once' /\ Known' /\ Deleting'
    BY <1>1, <2>1, <2>2 DEF Table, Once, Known, Deleting
  <2>5. InEval'
    BY <1>1, <2>1, <2>2, <2>3 DEF InEval, Listed
  <2>6. NoStaleJob'
    BY <1>1, <2>1, <2>2 DEF Table, NoStaleJob
  <2> QED
    BY <2>4, <2>5, <2>6 DEF Table
<1> QED
  BY <1>0, <1>2, <1>3, Forked

\* addjob: the pid is in no slot, and not reaped.
LEMMA AddTable == ASSUME Typed, Table, stack = << >>, AddJob PROVE Table'
<1>0. JobTypeOK /\ cur \in Pid \cup {0}
  BY DEF Typed, TypeOK
<1>1. /\ addjob(cur, IF bg THEN "BG" ELSE "FG") /\ (IF bg THEN "BG" ELSE "FG") \in State
      /\ pc = "add" /\ pc' # "add" /\ UNCHANGED <<proc, stack, cur>>
  BY DEF AddJob, State, kernel
<1>2. PICK i \in Slot : /\ job_list[i].pid = 0 /\ job_list'[i].pid = cur
                       /\ \A j \in Slot : j # i => job_list'[j] = job_list[j]
  BY <1>0, <1>1, Added
<1>3. cur \in Pid /\ cur # 0
  BY <1>0, <1>1, Added, Numbers
<1>4. proc[cur] \notin {"none", "reaped"} /\ \A j \in Slot : job_list[j].pid # cur
  BY <1>1, <1>3 DEF Table, InEval, Listed
<1>5. Once'
  BY <1>2, <1>3, <1>4 DEF Table, Once
<1>6. Known' /\ InEval' /\ Deleting'
  BY <1>1, <1>2, <1>4 DEF Table, Known, InEval, Deleting
<1>7. NoStaleJob'
  BY <1>1, <1>2, <1>4 DEF Table, NoStaleJob
<1> QED
  BY <1>5, <1>6, <1>7 DEF Table

LEMMA WorldSame ==
  ASSUME Typed, World
  PROVE  UNCHANGED <<job_list, stack, pc, cur, bg, job, mask>> /\ SameChildren
<1> USE DEF Typed, TypeOK, SameChildren, Become, jobVars, kernel, main
<1>1. CASE \E p \in Pid : ChildSetsGroup(p)
  BY <1>1 DEF ChildSetsGroup
<1>2. CASE \E p \in Pid : ChildEnds(p)
  BY <1>2 DEF ChildEnds
<1>3. CASE \E p \in Pid : ChildStops(p)
  BY <1>3 DEF ChildStops
<1>4. CASE Key("INT") \/ Key("TSTP")
  BY <1>4 DEF Key
<1>5. CASE Sigquit
  BY <1>5 DEF Sigquit
<1> QED
  BY <1>1, <1>2, <1>3, <1>4, <1>5 DEF World

\* The handlers that change no pid and make no frame about to delete.
LEMMA HandlersSame ==
  ASSUME Typed, stack # << >>,
         (\E p \in Pid : WaitpidStopped(p)) \/ WaitpidNone \/ HandlerStops \/ HandlerLooks \/ HandlerKills
  PROVE  SamePids /\ SameDeletes /\ SameChildren /\ pc' = pc
<1>0. Frames /\ JobTypeOK /\ proc \in [Pid -> ProcState]
  BY DEF Typed, TypeOK, Frames
<1> USE DEF SamePids, SameChildren, jobVars, kernel, main
<1>1. ASSUME NEW p \in Pid, WaitpidStopped(p)
      PROVE  SamePids /\ SameDeletes /\ SameChildren /\ pc' = pc
  <2>1. SameDeletes
    BY <1>0, <1>1, OtherFrames DEF WaitpidStopped
  <2> QED
    BY <1>1, <2>1 DEF WaitpidStopped
<1>2. CASE WaitpidNone
  <2>1. SameDeletes
    BY <1>0, <1>2, OtherFrames DEF WaitpidNone
  <2> QED
    BY <1>2, <2>1 DEF WaitpidNone
<1>3. CASE HandlerStops
  <2>1. SameDeletes
    BY <1>0, <1>3, OtherFrames DEF HandlerStops
  <2>2. SamePids
    BY <1>0, <1>3, Marked DEF HandlerStops, State
  <2> QED
    BY <1>3, <2>1, <2>2 DEF HandlerStops
<1>4. CASE HandlerLooks
  <2>1. SameDeletes
    <3>1. fgpid # 0 => fgpid \in Pid
      BY <1>0, Fgpid DEF JobTypeOK
    <3>2. Top.pc # "delete" /\ (Return \/ (fgpid \in Pid /\ Handler("kill", fgpid)))
      BY <1>4, <3>1 DEF HandlerLooks
    <3> QED
      BY <1>0, <3>2, OtherFrames
  <2> QED
    BY <1>4, <2>1 DEF HandlerLooks
<1>5. CASE HandlerKills
  <2>1. SameDeletes
    BY <1>0, <1>5, OtherFrames DEF HandlerKills
  <2>2. SameChildren
    BY <1>0, <1>5 DEF HandlerKills, Deliver, Become
  <2> QED
    BY <1>5, <2>1, <2>2 DEF HandlerKills
<1> QED
  BY <1>1, <1>2, <1>3, <1>4, <1>5

\* The steps of the main routine that change no pid.
LEMMA MainSame ==
  ASSUME Typed, User \/ Main, ~ (\E b \in BACKGROUND : Fork(b)), ~ AddJob
  PROVE  SamePids /\ stack' = stack /\ SameChildren /\ pc' # "add"
<1>0. JobTypeOK /\ proc \in [Pid -> ProcState] /\ pc \in Place
  BY DEF Typed, TypeOK, Place
<1> USE DEF SamePids, SameChildren, jobVars, kernel, main
<1>1. ASSUME NEW n, NEW i, NEW l \in {"setBG", "fg_fgpid"}, Command(n, i, l)
      PROVE  SamePids /\ stack' = stack /\ SameChildren /\ pc' # "add"
  BY <1>1 DEF Command
<1>2. CASE (ListJobs \/ Quit)
  BY <1>2 DEF ListJobs, Quit
<1>3. CASE AddJobFails \/ Unblock \/ Report
  BY <1>3 DEF AddJobFails, Unblock, Report
<1>4. ASSUME NEW at, NEW next, NEW exit, next # "add", exit # "add", TestFgpid(at, next, exit)
      PROVE  SamePids /\ stack' = stack /\ SameChildren /\ pc' # "add"
  BY <1>4 DEF TestFgpid
<1>5. ASSUME NEW at, NEW p, NEW next, NEW exit, at # "add", next # "add", exit # "add",
             TestState(at, p, next, exit)
      PROVE  SamePids /\ stack' = stack /\ SameChildren /\ pc' # "add"
  BY <1>5 DEF TestState
<1>6. ASSUME NEW at, NEW asleep, asleep # "add", Sleep(at, asleep)
      PROVE  SamePids /\ stack' = stack /\ SameChildren /\ pc' # "add"
  BY <1>6 DEF Sleep
<1>7. ASSUME NEW at, NEW s \in State, SetState(at, s)
      PROVE  SamePids /\ stack' = stack /\ SameChildren /\ pc' # "add"
  BY <1>0, <1>7, Marked DEF SetState
<1>8. CASE Cont
  BY <1>0, <1>8 DEF Cont, Continue, Become
<1>9. {"BG", "FG"} \subseteq State
  BY DEF State
<1> QED
  BY <1>1, <1>2, <1>3, <1>4, <1>5, <1>6, <1>7, <1>8, <1>9 DEF User, Main

LEMMA TableInit == Init => Table
BY DEF Init, InitJobs, Table, Once, Known, InEval, Deleting, NoStaleJob, Cleared

LEMMA TableNext == Typed /\ Table /\ [Next]_vars => Table'
<1> SUFFICES ASSUME Typed, Table, [Next]_vars PROVE Table'
  OBVIOUS
<1>1. CASE UNCHANGED vars
  <2>1. UNCHANGED <<job_list, proc, mask, stack, pc, cur>>
    BY <1>1 DEF vars, kernel, main
  <2> QED
    BY <2>1 DEF Table, Once, Known, InEval, Listed, Deleting, NoStaleJob
<1>2. CASE World
  BY <1>2, WorldSame, TableStays DEF SamePids, SameDeletes
<1>3. CASE Handlers
  <2>1. ASSUME NEW sig \in {"CHLD", "INT", "TSTP"}, StartHandler(sig) PROVE Table'
    <3>1. SameDeletes
      BY <2>1, StartFrames
    <3>2. pc' # "add"
      BY <2>1 DEF StartHandler, Table, InEval
    <3>3. SamePids /\ SameChildren
      BY <2>1 DEF StartHandler, SamePids, SameChildren, jobVars, kernel
    <3> QED
      BY <3>1, <3>2, <3>3, TableStays
  <2>2. stack # << >> => pc # "add"
    BY DEF Table, InEval
  <2> QED
    BY <1>3, <2>1, <2>2, ReapsTable, DeletesTable, HandlersSame, TableStays DEF Handlers
<1>4. CASE User \/ Main
  <2>1. stack = << >>
    BY <1>4 DEF User, Main
  <2>2. CASE \E b \in BACKGROUND : Fork(b)
    BY <2>1, <2>2, ForkTable
  <2>3. CASE AddJob
    BY <2>1, <2>3, AddTable
  <2>4. CASE ~ (\E b \in BACKGROUND : Fork(b)) /\ ~ AddJob
    BY <1>4, <2>4, MainSame, TableStays DEF SameDeletes
  <2> QED
    BY <2>2, <2>3, <2>4
<1> QED
  BY <1>1, <1>2, <1>3, <1>4 DEF Next

\* A pid in the table is still the child's: a reaped child is listed only while
\* sigchld_handler is about to delete it, whatever signals come in between.
THEOREM NoStale == Spec => []NoStaleJob
<1>1. Typed /\ Table => NoStaleJob
  BY DEF Table
<1> QED
  BY <1>1, TypedInit, TypedNext, TableInit, TableNext, PTL DEF Spec

-----------------------------------------------------------------------------
(* Every child is listed, if there is a slot for each. *)

Enough == IsFiniteSet(Pid) /\ Cardinality(Pid) <= MAXJOBS

AllListed ==
  \A p \in Pid : proc[p] \notin {"none", "reaped"} /\ ~ (pc = "add" /\ cur = p) => Listed(p)

\* A full table lists every pid.
LEMMA FullTable ==
  ASSUME Enough, JobTypeOK, Once, \A i \in Slot : job_list[i].pid # 0
  PROVE  \A p \in Pid : Listed(p)
<1> SUFFICES ASSUME NEW p \in Pid, ~ Listed(p) PROVE FALSE
  OBVIOUS
<1> DEFINE f == [i \in Slot |-> job_list[i].pid]
           Others == Pid \ {p}
<1>1. f \in [Slot -> Others]
  BY DEF JobTypeOK, Listed
<1>2. IsFiniteSet(Slot) /\ Cardinality(Slot) = MAXJOBS
  BY FS_Interval, JobConstantsOK DEF Slot
<1>3. IsFiniteSet(Others) /\ Cardinality(Others) = Cardinality(Pid) - 1
  BY FS_RemoveElement DEF Enough
<1>4. Cardinality(Others) < Cardinality(Slot)
  BY <1>2, <1>3, FS_CardinalityType, JobConstantsOK DEF Enough
<1> HIDE DEF Others
<1>5. PICK i, j \in Slot : i # j /\ f[i] = f[j]
  <2> HIDE DEF f
  <2> QED
    BY <1>1, <1>2, <1>3, <1>4, FS_PigeonHole
<1> QED
  BY <1>5 DEF Once

\* What follows fork is addjob, or its failure.
LEMMA AfterFork == ASSUME User \/ Main, pc = "add" PROVE AddJob \/ AddJobFails
BY DEF User, Main, Fork, Command, ListJobs, Quit, Unblock, Report, TestFgpid, TestState,
       Sleep, SetState, Cont

LEMMA AllListedNext ==
  ASSUME Enough, Typed, Table, AllListed, [Next]_vars PROVE AllListed'
<1>0. /\ JobTypeOK /\ proc \in [Pid -> ProcState] /\ cur \in Pid \cup {0}
      /\ \A p \in Pid : p # 0
  BY Numbers DEF Typed, TypeOK
<1> USE DEF AllListed, Listed
<1>a. ASSUME SamePids, SameChildren, pc = "add" => UNCHANGED <<pc, cur>> PROVE AllListed'
  BY <1>a DEF SamePids, SameChildren
<1>1. CASE UNCHANGED vars
  <2>1. UNCHANGED <<job_list, proc, pc, cur>>
    BY <1>1 DEF vars, kernel, main
  <2> QED
    BY <2>1, <1>a DEF SamePids, SameChildren
<1>2. CASE World
  BY <1>2, <1>a, WorldSame DEF SamePids
<1>3. CASE Handlers
  <2>1. ASSUME NEW sig \in {"CHLD", "INT", "TSTP"}, StartHandler(sig) PROVE AllListed'
    <3>1. pc # "add"
      BY <2>1 DEF StartHandler, Table, InEval
    <3> QED
      BY <2>1, <3>1, <1>a DEF StartHandler, SamePids, SameChildren, jobVars, kernel
  <2>2. stack # << >> => pc # "add"
    BY DEF Table, InEval
  <2>3. ASSUME stack # << >>, NEW p \in Pid, WaitpidReaps(p) PROVE AllListed'
    BY <1>0, <2>2, <2>3 DEF WaitpidReaps, Become, jobVars, main
  <2>4. ASSUME stack # << >>, HandlerDeletes PROVE AllListed'
    <3>1. UNCHANGED <<proc, pc>>
      BY <2>4 DEF HandlerDeletes, kernel, main
    <3> QED
      BY <2>2, <2>4, <3>1, DeletesOne
  <2> QED
    BY <1>3, <1>a, <2>1, <2>2, <2>3, <2>4, HandlersSame DEF Handlers
<1>4. CASE User \/ Main
  <2>1. stack = << >>
    BY <1>4 DEF User, Main
  <2>2. ASSUME NEW b \in BACKGROUND, Fork(b) PROVE AllListed'
    <3>1. pc # "add" /\ pc' = "add" /\ job_list' = job_list
      BY <2>2 DEF Fork, jobVars
    <3>2. \A p \in Pid : p # cur' => proc'[p] = proc[p]
      BY <1>0, <2>2, Forked DEF Typed
    <3> QED
      BY <3>1, <3>2
  <2>3. CASE AddJob
    <3>1. UNCHANGED <<proc, cur>> /\ addjob(cur, IF bg THEN "BG" ELSE "FG")
      BY <2>3 DEF AddJob, kernel
    <3>2. (IF bg THEN "BG" ELSE "FG") \in State
      BY DEF State
    <3>3. PICK i \in Slot : /\ job_list[i].pid = 0 /\ job_list'[i].pid = cur
                           /\ \A j \in Slot : j # i => job_list'[j] = job_list[j]
      BY <1>0, <3>1, <3>2, Added
    <3> QED
      BY <1>0, <3>1, <3>3
  <2>4. CASE AddJobFails
    <3>1. pc = "add" /\ ~ CanAdd(cur) /\ UNCHANGED <<job_list, proc>>
      BY <2>4 DEF AddJobFails, jobVars, kernel
    <3>2. CASE cur = 0
      BY <1>0, <3>1, <3>2
    <3>3. CASE cur # 0
      <4>1. FreeSlot = 0
        BY <1>0, <3>1, <3>3, Numbers DEF CanAdd
      <4> QED
        BY <1>0, <3>1, <4>1, Freeslot, FullTable DEF Table
    <3> QED
      BY <3>2, <3>3
  <2>5. CASE ~ (\E b \in BACKGROUND : Fork(b)) /\ ~ AddJob /\ ~ AddJobFails
    BY <1>4, <1>a, <2>5, MainSame, AfterFork
  <2> QED
    BY <2>2, <2>3, <2>4, <2>5
<1> QED
  BY <1>1, <1>2, <1>3, <1>4 DEF Next

\* With a slot for every child, each child that is not reaped is in the table
\* from the moment its signals are let in: the handlers never meet a child they
\* do not know.
THEOREM AllTracked == ASSUME Enough PROVE Spec => []Tracked
<1>1. Init => AllListed
  BY DEF Init, AllListed
<1>2. Typed /\ Table /\ AllListed /\ [Next]_vars => AllListed'
  BY AllListedNext
<1>3. AllListed => Tracked
  BY Getjobpid DEF AllListed, Listed, Tracked
<1> QED
  BY <1>1, <1>2, <1>3, TypedInit, TypedNext, TableInit, TableNext, PTL DEF Spec

-----------------------------------------------------------------------------
(* The foreground job. *)

NoFg == "fg" \notin BUILTINS

\* Only the job eval waits for is in the foreground.
Front ==
  /\ pc \notin {"fg_fgpid", "fg_state", "fg_sigsuspend", "fg_asleep", "setFG"}
  /\ \A i \in Slot : job_list[i].state = "FG" =>
       /\ pc \in {"unblock", "fgpid", "state", "sigsuspend", "asleep"}
       /\ pc = "unblock" => ~ bg
       /\ job_list[i].pid = cur /\ cur # 0

\* No job comes to the foreground.
NoNewFG ==
  \A i \in Slot : job_list'[i].state = "FG" =>
    job_list[i].state = "FG" /\ job_list'[i].pid = job_list[i].pid

LEMMA FrontStays ==
  ASSUME Front, NoNewFG, UNCHANGED <<cur, bg>>, pc' = pc \/ (pc = "asleep" /\ pc' = "fgpid")
  PROVE  Front'
BY DEF Front, NoNewFG

\* The handlers bring no job to the foreground.
LEMMA HandlersFront ==
  ASSUME Typed, Table, Handlers
  PROVE  NoNewFG /\ UNCHANGED <<cur, bg, job>>
<1>0. JobTypeOK
  BY DEF Typed, TypeOK
<1> USE DEF NoNewFG, jobVars, main
<1>1. ASSUME NEW sig, StartHandler(sig) PROVE NoNewFG /\ UNCHANGED <<cur, bg, job>>
  BY <1>1 DEF StartHandler
<1>2. ASSUME NEW p \in Pid, WaitpidReaps(p) \/ WaitpidStopped(p)
      PROVE  NoNewFG /\ UNCHANGED <<cur, bg, job>>
  BY <1>2 DEF WaitpidReaps, WaitpidStopped
<1>3. CASE WaitpidNone \/ HandlerLooks \/ HandlerKills
  BY <1>3 DEF WaitpidNone, HandlerLooks, HandlerKills
<1>4. CASE HandlerStops
  BY <1>0, <1>4, Marked DEF HandlerStops, State
<1>5. CASE stack # << >> /\ HandlerDeletes
  <2>1. UNCHANGED <<cur, bg, job>>
    BY <1>5 DEF HandlerDeletes
  <2>2. NoNewFG
    BY <1>5, DeletesOne DEF Cleared
  <2> QED
    BY <2>1, <2>2
<1> QED
  BY <1>1, <1>2, <1>3, <1>4, <1>5 DEF Handlers

LEMMA FrontNext ==
  ASSUME NoFg, Typed, Table, Front, [Next]_vars PROVE Front'
<1>0. JobTypeOK /\ cur \in Pid \cup {0} /\ pc \in Place
  BY DEF Typed, TypeOK, Place
<1>1. CASE UNCHANGED vars
  BY <1>1 DEF vars, main, Front
<1>2. CASE World
  BY <1>2, WorldSame DEF Front
<1>3. CASE Handlers
  <2>1. pc' = pc \/ (pc = "asleep" /\ pc' = "fgpid")
    BY <1>3 DEF Handlers, StartHandler, WaitpidReaps, WaitpidStopped, WaitpidNone, HandlerDeletes,
                HandlerStops, HandlerLooks, HandlerKills, main, Front
  <2> QED
    BY <1>3, <2>1, HandlersFront, FrontStays
<1>4. CASE User
  <2>1. ASSUME NEW b \in BACKGROUND, Fork(b) PROVE Front'
    BY <2>1 DEF Fork, Front, jobVars
  <2>2. ASSUME NEW i \in Named, Command("bg", i, "setBG") PROVE Front'
    BY <2>2 DEF Command, Front, jobVars
  <2>3. ASSUME NEW i \in Named, Command("fg", i, "fg_fgpid") PROVE Front'
    BY <2>3 DEF Command, NoFg
  <2>4. CASE ListJobs \/ Quit
    BY <2>4 DEF ListJobs, Quit, Front, jobVars, main
  <2> QED
    BY <1>4, <2>1, <2>2, <2>3, <2>4 DEF User
<1>5. CASE Main
  <2>1. CASE AddJob
    <3> DEFINE s == IF bg THEN "BG" ELSE "FG"
    <3>1. addjob(cur, s) /\ pc = "add" /\ pc' = "unblock" /\ UNCHANGED <<cur, bg>>
      BY <2>1 DEF AddJob
    <3>2. s \in State /\ (s = "FG" => ~ bg)
      BY DEF State
    <3> HIDE DEF s
    <3>3. PICK i \in Slot : /\ job_list'[i].pid = cur /\ job_list'[i].state = s
                           /\ \A j \in Slot : j # i => job_list'[j] = job_list[j]
      BY <1>0, <3>1, <3>2, Added
    <3>4. cur # 0
      BY <1>0, <3>1, <3>2, Added, Numbers
    <3> QED
      BY <3>1, <3>2, <3>3, <3>4 DEF Front
  <2>2. CASE AddJobFails \/ Unblock \/ Report
    BY <2>2 DEF AddJobFails, Unblock, Report, Front, jobVars
  <2>3. CASE TestFgpid("fgpid", "state", "prompt")
    <3>1. /\ pc = "fgpid" /\ pc' = IF fgpid # 0 THEN "state" ELSE "prompt"
          /\ UNCHANGED <<job_list, cur, bg>>
      BY <2>3 DEF TestFgpid, jobVars
    <3>2. fgpid = 0 => \A i \in Slot : job_list[i].state # "FG"
      <4> DEFINE S == {j \in Slot : job_list[j].state = "FG"}
      <4>1. First(S) \in S \/ S = {}
        BY FirstIn
      <4>2. First(S) \in S => fgpid = job_list[First(S)].pid
        BY Numbers DEF fgpid
      <4> QED
        BY <4>1, <4>2 DEF Front
    <3> QED
      BY <3>1, <3>2 DEF Front
  <2>4. CASE TestState("state", cur, "sigsuspend", "prompt")
    <3>1. UNCHANGED <<job_list, cur, bg>> /\ pc = "state"
      BY <2>4 DEF TestState, jobVars
    <3>2. \/ pc' \in {"state", "sigsuspend"}
          \/ pc' = "prompt" /\ getjobpid(cur) # 0 /\ job_list[getjobpid(cur)].state = "ST"
      BY <2>4 DEF TestState
    <3>3. pc' = "prompt" => \A i \in Slot : job_list[i].state # "FG"
      BY <3>2, Getjobpid DEF Front, Table, Once
    <3> QED
      BY <3>1, <3>2, <3>3 DEF Front
  <2>5. CASE Sleep("sigsuspend", "asleep")
    BY <2>5 DEF Sleep, Front, jobVars
  <2>6. CASE SetState("setBG", "BG")
    <3>1. pc = "setBG" /\ pc' = "cont" /\ setstate(job, "BG")
      BY <2>6 DEF SetState
    <3>2. \A i \in Slot : job_list[i].state # "FG"
      BY <3>1 DEF Front
    <3>3. \A i \in Slot : job_list'[i].state # "FG"
      BY <1>0, <3>1, <3>2, Marked DEF State
    <3> QED
      BY <3>1, <3>3 DEF Front
  <2>7. CASE Cont
    BY <2>7 DEF Cont, Front, jobVars
  <2>8. CASE \/ Sleep("fg_sigsuspend", "fg_asleep") \/ TestFgpid("fg_fgpid", "fg_state", "setFG")
             \/ TestState("fg_state", job_list[job].pid, "fg_sigsuspend", "setFG")
             \/ SetState("setFG", "FG")
    BY <2>8 DEF Sleep, TestFgpid, TestState, SetState, Front
  <2> QED
    BY <1>5, <2>1, <2>2, <2>3, <2>4, <2>5, <2>6, <2>7, <2>8 DEF Main
<1> QED
  BY <1>1, <1>2, <1>3, <1>4, <1>5 DEF Next

\* Without fg, the prompt comes back only when no job is in the foreground,
\* whichever of the two tests of eval's loop ends the wait.
THEOREM Awaited == ASSUME NoFg PROVE Spec => []ForegroundAwaited
<1>1. Init => Front
  BY DEF Init, InitJobs, Front, Cleared
<1>2. Typed /\ Table /\ Front /\ [Next]_vars => Front'
  BY FrontNext
<1>3. Front => ForegroundAwaited
  BY DEF Front, ForegroundAwaited
<1> QED
  BY <1>1, <1>2, <1>3, TypedInit, TypedNext, TableInit, TableNext, PTL DEF Spec

-----------------------------------------------------------------------------
(* The keys: what they hit.  This, and what follows, follows a child from *)
(* the signal that stops it to the slot that says so, through the frames  *)
(* of the handlers in between.                                            *)

NoBgFg == {"bg", "fg"} \cap BUILTINS = {}

\* Without bg and fg nobody continues a child.
NoCommand ==
  pc \notin {"setBG", "cont", "fg_fgpid", "fg_state", "fg_sigsuspend", "fg_asleep", "setFG"}

\* What is marked as stopped is stopped.
MarkedRight ==
  \A i \in Slot : job_list[i].state = "ST" /\ job_list[i].pid # 0 =>
    proc[job_list[i].pid] = "stopped"

\* What is about to be marked is stopped.
StopFrames ==
  \A k \in 1 .. Len(stack) : stack[k].pc = "stop" => proc[stack[k].pid] = "stopped"

\* What is about to be sent a signal is gone, or in the foreground, or it has
\* stopped since the handler looked.
Target(children, jobs, p) ==
  \/ children[p] = "reaped"
  \/ \E i \in Slot : jobs[i].pid = p /\ jobs[i].state \in {"FG", "ST"}

KillFrames ==
  \A k \in 1 .. Len(stack) : stack[k].pc = "kill" => Target(proc, job_list, stack[k].pid)

Hits == NoCommand /\ MarkedRight /\ StopFrames /\ KillFrames

\* Stopped and reaped children remain so.
Settled == \A p \in Pid : proc[p] \in {"stopped", "reaped"} => proc'[p] = proc[p]

\* A step of the handlers or of the children: frames that are not new keep
\* what they need, if the table keeps its targets.
LEMMA FramesKept ==
  ASSUME Typed, StopFrames, KillFrames, Settled,
         \A p \in Pid : Target(proc, job_list, p) => Target(proc', job_list', p),
         \A k \in 1 .. Len(stack') :
           \/ k \in 1 .. Len(stack) /\ stack'[k] = stack[k]
           \/ stack'[k].pc \notin {"stop", "kill"}
           \/ stack'[k].pc = "stop" /\ proc'[stack'[k].pid] = "stopped"
           \/ stack'[k].pc = "kill" /\ Target(proc', job_list', stack'[k].pid)
  PROVE  StopFrames' /\ KillFrames'
<1>1. \A k \in 1 .. Len(stack) : stack[k].pc \in {"stop", "kill"} => stack[k].pid \in Pid
  BY DEF Typed, Aimed
<1>2. StopFrames'
  BY <1>1 DEF StopFrames, Settled
<1>3. ASSUME NEW k \in 1 .. Len(stack'), stack'[k].pc = "kill" PROVE Target(proc', job_list', stack'[k].pid)
  <2>1. CASE k \in 1 .. Len(stack) /\ stack'[k] = stack[k]
    <3>1. stack[k].pid \in Pid /\ Target(proc, job_list, stack[k].pid)
      BY <1>1, <1>3, <2>1 DEF KillFrames
    <3>2. Target(proc', job_list', stack[k].pid)
      BY <3>1
    <3> QED
      BY <2>1, <3>2
  <2> QED
    BY <1>3, <2>1
<1>4. KillFrames'
  BY <1>3 DEF KillFrames
<1> QED
  BY <1>2, <1>4

\* The children, and whatever leaves jobs and frames alone.
LEMMA HitsStay ==
  ASSUME Typed, Hits, Settled, UNCHANGED <<job_list, stack>>,
         pc' = pc \/ (pc = "asleep" /\ pc' = "fgpid")
  PROVE  Hits'
<1>1. StopFrames' /\ KillFrames'
  BY FramesKept DEF Hits, Settled, Target
<1>2. MarkedRight'
  BY DEF Hits, MarkedRight, Settled, Typed, TypeOK, JobTypeOK
<1> QED
  BY <1>1, <1>2 DEF Hits, NoCommand

LEMMA WorldSettled == ASSUME Typed, World PROVE Settled
<1> USE DEF Typed, TypeOK, Settled, Become, kernel
<1>1. CASE \E p \in Pid : ChildSetsGroup(p) \/ ChildEnds(p) \/ ChildStops(p)
  BY <1>1 DEF ChildSetsGroup, ChildEnds, ChildStops
<1>2. CASE Key("INT") \/ Key("TSTP") \/ Sigquit
  BY <1>2 DEF Key, Sigquit
<1> QED
  BY <1>1, <1>2 DEF World

\* The handlers: frames either stay, or what they need is there.
LEMMA HandlersHits ==
  ASSUME Typed, Table, Hits, stack # << >>,
         \/ \E p \in Pid : WaitpidReaps(p) \/ WaitpidStopped(p)
         \/ WaitpidNone \/ HandlerDeletes \/ HandlerStops \/ HandlerLooks \/ HandlerKills
  PROVE  Hits'
<1>0. /\ Frames /\ JobTypeOK /\ proc \in [Pid -> ProcState]
      /\ \A i \in Slot : job_list[i].pid \in Pid \cup {0}
  BY DEF Typed, TypeOK, JobTypeOK, Frames
<1>a. /\ Len(stack) \in 1 .. Len(stack)
      /\ Top.pc \in {"delete", "stop", "kill"} => Top.pid \in Pid
      /\ Top.pc = "stop" => proc[Top.pid] = "stopped"
  <2>1. Len(stack) \in 1 .. Len(stack)
    BY <1>0 DEF Frames
  <2> QED
    BY <2>1 DEF Top, Typed, Aimed, Hits, StopFrames
<1>b. pc' = pc
  BY DEF WaitpidReaps, WaitpidStopped, WaitpidNone, HandlerDeletes, HandlerStops, HandlerLooks,
         HandlerKills, main
<1>c. ASSUME Return, Settled, job_list' = job_list PROVE Hits'
  <2>1. \A k \in 1 .. Len(stack') : k \in 1 .. Len(stack) /\ stack'[k] = stack[k]
    BY <1>0, <1>c, Returned
  <2>2. StopFrames' /\ KillFrames'
    BY <1>c, <2>1, FramesKept DEF Hits, Settled, Target
  <2>3. MarkedRight'
    BY <1>0, <1>c DEF Hits, MarkedRight, Settled
  <2> QED
    BY <1>b, <2>2, <2>3 DEF Hits, NoCommand
<1>d. ASSUME NEW l \in {"waitpid", "delete", "stop", "kill"}, NEW p \in Pid \cup {0}, Handler(l, p),
             Settled, \A q \in Pid : Target(proc, job_list, q) => Target(proc', job_list', q),
             l = "stop" => proc'[p] = "stopped", l = "kill" => Target(proc', job_list', p),
             MarkedRight'
      PROVE  Hits'
  <2>1. /\ Len(stack') = Len(stack)
        /\ \A k \in 1 .. Len(stack) : k # Len(stack) => stack'[k] = stack[k]
        /\ stack'[Len(stack)].pc = l /\ stack'[Len(stack)].pid = p
    BY <1>0, <1>d, Goes
  <2>2. ASSUME NEW k \in 1 .. Len(stack')
        PROVE  \/ k \in 1 .. Len(stack) /\ stack'[k] = stack[k]
               \/ stack'[k].pc \notin {"stop", "kill"}
               \/ stack'[k].pc = "stop" /\ proc'[stack'[k].pid] = "stopped"
               \/ stack'[k].pc = "kill" /\ Target(proc', job_list', stack'[k].pid)
    <3>1. CASE k # Len(stack)
      BY <2>1, <3>1
    <3>2. CASE k = Len(stack)
      BY <1>d, <2>1, <3>2
    <3> QED
      BY <3>1, <3>2
  <2>3. StopFrames' /\ KillFrames'
    BY <1>d, <2>2, FramesKept DEF Hits
  <2> QED
    BY <1>b, <1>d, <2>3 DEF Hits, NoCommand
<1>1. ASSUME NEW p \in Pid, WaitpidReaps(p) PROVE Hits'
  <2>1. /\ proc[p] = "zombie" /\ proc' = [proc EXCEPT ![p] = "reaped"] /\ job_list' = job_list
        /\ Handler("delete", p)
    BY <1>1 DEF WaitpidReaps, Become, jobVars
  <2>2. Settled
    BY <1>0, <2>1 DEF Settled
  <2>3. MarkedRight'
    BY <1>0, <2>1, <2>2 DEF Hits, MarkedRight, Settled
  <2>4. \A q \in Pid : Target(proc, job_list, q) => Target(proc', job_list', q)
    BY <2>1, <2>2 DEF Target, Settled
  <2> QED
    BY <1>d, <2>1, <2>2, <2>3, <2>4
<1>2. ASSUME NEW p \in Pid, WaitpidStopped(p) PROVE Hits'
  <2>1. proc[p] = "stopped" /\ proc' = proc /\ job_list' = job_list /\ Handler("stop", p)
    BY <1>2 DEF WaitpidStopped, jobVars
  <2>2. Settled /\ MarkedRight'
    BY <2>1 DEF Settled, Hits, MarkedRight
  <2> QED
    BY <1>d, <2>1, <2>2
<1>3. CASE WaitpidNone
  BY <1>3, <1>c DEF WaitpidNone, Settled, jobVars, kernel
<1>4. CASE HandlerDeletes
  <2>1. Handler("waitpid", 0) /\ proc' = proc /\ Settled
    BY <1>4 DEF HandlerDeletes, kernel, Settled
  <2>2. /\ Top.pid \in Pid /\ proc[Top.pid] = "reaped"
        /\ \A i \in Slot : job_list[i].pid = Top.pid => job_list'[i] = Cleared
        /\ \A i \in Slot : job_list[i].pid # Top.pid => job_list'[i] = job_list[i]
    BY <1>4, DeletesOne
  <2>3. MarkedRight'
    BY <2>1, <2>2 DEF Hits, MarkedRight, Cleared
  <2>4. \A q \in Pid : Target(proc, job_list, q) => Target(proc', job_list', q)
    BY <2>1, <2>2 DEF Target
  <2> QED
    BY <1>d, <2>1, <2>3, <2>4
<1>5. CASE HandlerStops
  <2>1. Handler("waitpid", 0) /\ proc' = proc /\ Settled /\ Top.pc = "stop"
    BY <1>5 DEF HandlerStops, kernel, Settled
  <2>2. \/ job_list' = job_list
        \/ /\ job_list[getjobpid(Top.pid)].pid = Top.pid
           /\ \A j \in Slot : job_list'[j].pid = job_list[j].pid
           /\ \A j \in Slot : job_list'[j].state = IF j = getjobpid(Top.pid) THEN "ST" ELSE job_list[j].state
    BY <1>0, <1>5, Marked, Getjobpid DEF HandlerStops, jobVars, State
  <2>3. MarkedRight'
    BY <1>a, <2>1, <2>2 DEF Hits, MarkedRight
  <2>4. \A q \in Pid : Target(proc, job_list, q) => Target(proc', job_list', q)
    BY <2>1, <2>2 DEF Target
  <2> QED
    BY <1>d, <2>1, <2>3, <2>4
<1>6. CASE HandlerLooks
  <2>1. Settled /\ UNCHANGED <<job_list, proc>>
    BY <1>6 DEF HandlerLooks, jobVars, kernel, Settled
  <2>2. CASE fgpid = 0
    BY <1>6, <1>c, <2>1, <2>2 DEF HandlerLooks
  <2>3. CASE fgpid # 0
    <3>1. fgpid \in Pid /\ Target(proc', job_list', fgpid)
      BY <1>0, <2>1, <2>3, Fgpid DEF Target
    <3>2. MarkedRight'
      BY <2>1 DEF Hits, MarkedRight
    <3>3. Handler("kill", fgpid)
      BY <1>6, <2>3 DEF HandlerLooks
    <3> QED
      BY <1>d, <2>1, <3>1, <3>2, <3>3
  <2> QED
    BY <2>2, <2>3
<1>7. CASE HandlerKills
  <2>1. Return /\ job_list' = job_list
    BY <1>7 DEF HandlerKills, jobVars
  <2>2. Settled
    BY <1>0, <1>7 DEF HandlerKills, Deliver, Become, kernel, Settled
  <2> QED
    BY <1>c, <2>1, <2>2
<1> QED
  BY <1>1, <1>2, <1>3, <1>4, <1>5, <1>6, <1>7

LEMMA StartHits ==
  ASSUME Typed, Hits, NEW sig \in {"CHLD", "INT", "TSTP"}, StartHandler(sig) PROVE Hits'
<1>1. Frames /\ mask \in BOOLEAN
  BY DEF Typed, TypeOK, Frames
<1>2. /\ Len(stack) \in Nat /\ Len(stack') = Len(stack) + 1
      /\ \A k \in 1 .. Len(stack) : stack'[k] = stack[k]
      /\ stack'[Len(stack')].pc \notin {"stop", "kill"}
  BY <1>1, Started
<1>3. \A k \in 1 .. Len(stack') :
        \/ k \in 1 .. Len(stack) /\ stack'[k] = stack[k]
        \/ stack'[k].pc \notin {"stop", "kill"}
  <2>1. \A k \in 1 .. Len(stack') : k \in 1 .. Len(stack) \/ k = Len(stack')
    BY <1>2
  <2> QED
    BY <1>2, <2>1
<1>4. /\ UNCHANGED <<job_list, proc>> /\ pc' \in {pc, "fgpid", "fg_fgpid"}
      /\ pc' = "fg_fgpid" => pc' = pc \/ pc = "fg_asleep"
  BY DEF StartHandler, jobVars, kernel
<1>5. StopFrames' /\ KillFrames'
  BY <1>3, <1>4, FramesKept DEF Hits, Settled, Target
<1> QED
  BY <1>4, <1>5 DEF Hits, NoCommand, MarkedRight

LEMMA HitsNext ==
  ASSUME NoBgFg, Typed, Table, Hits, [Next]_vars PROVE Hits'
<1>0. /\ JobTypeOK /\ proc \in [Pid -> ProcState] /\ cur \in Pid \cup {0}
      /\ \A i \in Slot : job_list[i].pid \in Pid \cup {0}
  BY DEF Typed, TypeOK, JobTypeOK
<1>1. CASE UNCHANGED vars
  BY <1>1, HitsStay DEF vars, kernel, main, Settled
<1>2. CASE World
  BY <1>2, WorldSame, WorldSettled, HitsStay
<1>3. CASE Handlers
  BY <1>3, StartHits, HandlersHits DEF Handlers
<1>4. CASE User \/ Main
  <2>a. ASSUME stack' = << >>, MarkedRight', NoCommand' PROVE Hits'
    BY <2>a DEF Hits, StopFrames, KillFrames
  <2>1. stack = << >>
    BY <1>4 DEF User, Main
  <2>2. ASSUME NEW b \in BACKGROUND, Fork(b) PROVE Hits'
    <3>1. job_list' = job_list /\ stack' = stack /\ pc' = "add"
      BY <2>2 DEF Fork, jobVars
    <3>2. Settled
      BY <1>0, <2>2, Forked DEF Settled, Typed
    <3>3. MarkedRight'
      BY <1>0, <3>1, <3>2 DEF Hits, MarkedRight, Settled
    <3> QED
      BY <2>1, <2>a, <3>1, <3>3 DEF NoCommand
  <2>3. CASE AddJob
    <3> DEFINE s == IF bg THEN "BG" ELSE "FG"
    <3>1. addjob(cur, s) /\ pc' = "unblock" /\ UNCHANGED <<proc, stack>>
      BY <2>3 DEF AddJob, kernel
    <3>2. s \in State /\ s # "ST"
      BY DEF State
    <3> HIDE DEF s
    <3>3. PICK i \in Slot : /\ job_list'[i].state = s
                           /\ \A j \in Slot : j # i => job_list'[j] = job_list[j]
      BY <1>0, <3>1, <3>2, Added
    <3>4. MarkedRight'
      BY <3>1, <3>2, <3>3 DEF Hits, MarkedRight
    <3> QED
      BY <2>1, <2>a, <3>1, <3>4 DEF NoCommand
  <2>4. ASSUME UNCHANGED <<job_list, proc, stack>>, NoCommand' PROVE Hits'
    BY <2>1, <2>4, <2>a DEF Hits, MarkedRight
  <2> USE DEF jobVars, kernel, main, NoCommand
  <2>5. CASE ListJobs \/ Quit
    BY <2>5, <2>4 DEF ListJobs, Quit, Hits
  <2>6. CASE AddJobFails \/ Unblock \/ Report
    BY <2>6, <2>4 DEF AddJobFails, Unblock, Report
  <2>7. CASE TestFgpid("fgpid", "state", "prompt") \/ TestState("state", cur, "sigsuspend", "prompt")
    BY <2>7, <2>4 DEF TestFgpid, TestState, Hits
  <2>8. CASE Sleep("sigsuspend", "asleep")
    BY <2>8, <2>4 DEF Sleep
  <2>9. ~ (\E i \in Named : Command("bg", i, "setBG") \/ Command("fg", i, "fg_fgpid"))
    BY DEF Command, NoBgFg
  <2>10. ~ (\/ Sleep("fg_sigsuspend", "fg_asleep") \/ TestFgpid("fg_fgpid", "fg_state", "setFG")
            \/ TestState("fg_state", job_list[job].pid, "fg_sigsuspend", "setFG")
            \/ SetState("setBG", "BG") \/ SetState("setFG", "FG") \/ Cont)
    BY DEF Sleep, TestFgpid, TestState, SetState, Cont, Hits
  <2> QED
    BY <1>4, <2>2, <2>3, <2>5, <2>6, <2>7, <2>8, <2>9, <2>10 DEF User, Main
<1> QED
  BY <1>1, <1>2, <1>3, <1>4 DEF Next

\* A frame about to send goes away only by sending.
LEMMA KillsOnly ==
  ASSUME Typed, [Next]_vars, stack # << >>, Top.pc = "kill", Len(stack') < Len(stack)
  PROVE  HandlerKills
<1>0. Frames /\ mask \in BOOLEAN /\ Len(stack) \in Nat
  BY DEF Typed, TypeOK, Frames
<1>1. ~ UNCHANGED vars
  BY <1>0 DEF vars
<1>2. ~ World
  BY <1>0, WorldSame
<1>3. \A sig \in {"CHLD", "INT", "TSTP"} : ~ StartHandler(sig)
  BY <1>0, Started
<1>4. ~ (User \/ Main)
  BY DEF User, Main
<1> QED
  BY <1>1, <1>2, <1>3, <1>4 DEF Next, Handlers, WaitpidReaps, WaitpidStopped, WaitpidNone,
     HandlerDeletes, HandlerStops, HandlerLooks

\* Without bg and fg, ctrl-c and ctrl-z end or stop only a job in the foreground,
\* although its handler looked before it sends and may be interrupted between.
THEOREM KeysHit == ASSUME NoBgFg PROVE Spec => KeysHitForeground
<1>1. Init => Hits
  BY DEF Init, InitJobs, Hits, NoCommand, MarkedRight, StopFrames, KillFrames, Cleared
<1>2. Typed /\ Table /\ Hits /\ [Next]_vars => Hits'
  BY HitsNext
<1>3. ASSUME Typed, Table, Hits, [Next]_vars, NEW p \in Pid,
             stack # << >>, Top.pc = "kill", Len(stack') < Len(stack), proc[p] # proc'[p]
      PROVE  job_list[getjobpid(p)].state = "FG"
  <2>1. proc \in [Pid -> ProcState] /\ Len(stack) \in 1 .. Len(stack)
    BY <1>3 DEF Typed, TypeOK
  <2>2. p = Top.pid /\ proc[p] = "running"
    BY <1>3, <2>1, KillsOnly DEF HandlerKills, Deliver, Become, kernel
  <2>3. Target(proc, job_list, p)
    BY <1>3, <2>1, <2>2 DEF Hits, KillFrames, Top
  <2>4. PICK i \in Slot : job_list[i].pid = p /\ job_list[i].state \in {"FG", "ST"}
    BY <2>2, <2>3 DEF Target
  <2>5. p # 0 /\ job_list[i].state = "FG"
    BY <1>3, <2>2, <2>4, Numbers DEF Hits, MarkedRight
  <2>6. getjobpid(p) = i
    BY <1>3, <2>4, <2>5, Getjobpid DEF Table, Once
  <2> QED
    BY <2>5, <2>6
<1>4. Typed /\ Table /\ Hits /\ [Next]_vars =>
        [\A p \in Pid :
           /\ stack # << >> /\ Top.pc = "kill" /\ Len(stack') < Len(stack)
           /\ proc[p] # proc'[p]
           => job_list[getjobpid(p)].state = "FG"]_vars
  BY <1>3
<1> QED
  BY <1>1, <1>2, <1>4, TypedInit, TypedNext, TableInit, TableNext, PTL DEF Spec, KeysHitForeground

-----------------------------------------------------------------------------
(* The stopped children. *)

\* The frames of sigchld_handler are those that wait, delete and mark.
Roles ==
  \A k \in 1 .. Len(stack) : stack[k].sig = "CHLD" <=> stack[k].pc \in {"waitpid", "delete", "stop"}

\* A stop that waitpid has not reported will be asked for.
NewsComes == news # {} => "CHLD" \in pending \/ Handling("CHLD")

Marking(p) == \E k \in 1 .. Len(stack) : stack[k].pc = "stop" /\ stack[k].pid = p
Stopped(p) == \E i \in Slot : job_list[i].pid = p /\ job_list[i].state = "ST"

\* A stop is not reported, or about to be marked, or marked, or its child is
\* about to be continued; a shell that does not know the child is dead.
Seen(p) ==
  \/ p \in news \/ Marking(p) \/ Stopped(p)
  \/ pc = "cont" /\ job \in Slot /\ job_list[job].pid = p
  \/ status # "alive" /\ ~ Listed(p)

StopsSeen == \A p \in Pid : proc[p] = "stopped" => Seen(p)

Stops == Roles /\ NewsComes /\ StopsSeen

LEMMA WorldStops == ASSUME Typed, Stops, status = "alive", World PROVE Stops'
<1>0. proc \in [Pid -> ProcState] /\ UNCHANGED <<job_list, stack, pc, job>>
  BY WorldSame DEF Typed, TypeOK
<1>1. Roles'
  BY <1>0 DEF Stops, Roles
<1>2. pending \subseteq pending' /\ (news' = news \/ "CHLD" \in pending')
  BY DEF World, ChildSetsGroup, ChildEnds, ChildStops, Key, Sigquit, kernel
<1>3. NewsComes'
  BY <1>0, <1>2 DEF Stops, NewsComes, Handling
<1>4. /\ news \subseteq news'
      /\ \A p \in Pid : proc'[p] = "stopped" => proc[p] = "stopped" \/ p \in news'
  BY <1>0 DEF World, ChildSetsGroup, ChildEnds, ChildStops, Key, Sigquit, kernel, Become
<1>5. StopsSeen'
  BY <1>0, <1>4 DEF Stops, StopsSeen, Seen, Marking, Stopped
<1> QED
  BY <1>1, <1>3, <1>5 DEF Stops

LEMMA StartStops ==
  ASSUME Typed, Stops, status = "alive", NEW sig \in {"CHLD", "INT", "TSTP"}, StartHandler(sig)
  PROVE  Stops'
<1>0. Frames /\ mask \in BOOLEAN
  BY DEF Typed, TypeOK, Frames
<1>1. /\ Len(stack) \in Nat /\ Len(stack') = Len(stack) + 1
      /\ \A k \in 1 .. Len(stack) : stack'[k] = stack[k]
      /\ stack'[Len(stack')].sig = sig
      /\ stack'[Len(stack')].pc = IF sig = "CHLD" THEN "waitpid" ELSE "fgpid"
  BY <1>0, Started
<1>2. /\ \A k \in 1 .. Len(stack') : k \in 1 .. Len(stack) \/ k = Len(stack')
      /\ \A k \in 1 .. Len(stack) : k \in 1 .. Len(stack')
      /\ Len(stack') \in 1 .. Len(stack')
  BY <1>1
<1>3. /\ UNCHANGED <<job_list, proc, news, job, status>> /\ pending' = pending \ {sig}
      /\ (pc = "cont" => pc' = "cont")
  BY DEF StartHandler, jobVars, kernel
<1>4. Roles'
  BY <1>1, <1>2 DEF Stops, Roles
<1>5. NewsComes'
  BY <1>1, <1>2, <1>3 DEF Stops, NewsComes, Handling
<1>6. StopsSeen'
  BY <1>1, <1>2, <1>3 DEF Stops, StopsSeen, Seen, Marking, Stopped
<1> QED
  BY <1>4, <1>5, <1>6 DEF Stops

\* The running handler returns; if it is sigchld_handler, it has asked for all.
LEMMA ReturnStops ==
  ASSUME Typed, Stops, stack # << >>, Return, Top.pc # "stop", status = "alive",
         news' = {} \/ (Top.pc \notin {"waitpid", "delete", "stop"} /\ pending \subseteq pending'
                        /\ (news' = news \/ "CHLD" \in pending')),
         news \subseteq news',
         \A p \in Pid : proc'[p] = "stopped" => proc[p] = "stopped" \/ p \in news',
         UNCHANGED <<job_list, job, pc>>
  PROVE  Stops'
<1>0. Frames
  BY DEF Typed, TypeOK, Frames
<1> DEFINE n == Len(stack)
<1>1. /\ n \in 1 .. n
      /\ \A k \in 1 .. Len(stack') : k \in 1 .. n /\ stack'[k] = stack[k]
      /\ \A k \in 1 .. n : k # n => k \in 1 .. Len(stack') /\ stack'[k] = stack[k]
  BY <1>0, Returned
<1>2. Roles'
  BY <1>1 DEF Stops, Roles
<1>3. NewsComes'
  <2>1. CASE news' = {}
    BY <2>1 DEF NewsComes
  <2>2. CASE Handling("CHLD") /\ Top.pc \notin {"waitpid", "delete", "stop"}
    <3>1. PICK k \in 1 .. n : stack[k].sig = "CHLD"
      BY <2>2 DEF Handling
    <3>2. k # n
      BY <2>2, <3>1 DEF Top, Stops, Roles
    <3> QED
      BY <1>1, <3>1, <3>2 DEF NewsComes, Handling
  <2> QED
    BY <2>1, <2>2 DEF Stops, NewsComes
<1>4. StopsSeen'
  <2>1. \A p : Marking(p) => Marking(p)'
    BY <1>1 DEF Marking, Top
  <2> QED
    BY <2>1 DEF Stops, StopsSeen, Seen, Stopped
<1> QED
  BY <1>2, <1>3, <1>4 DEF Stops

\* The running handler goes on, in its role.
LEMMA GoesStops ==
  ASSUME Typed, Stops, stack # << >>, NEW l \in {"waitpid", "delete", "stop", "kill"},
         NEW p \in Pid \cup {0}, Handler(l, p),
         Top.pc \in {"waitpid", "delete", "stop"} <=> l # "kill",
         news' \subseteq news, pending' = pending, StopsSeen'
  PROVE  Stops'
<1>0. Frames
  BY DEF Typed, TypeOK, Frames
<1> DEFINE n == Len(stack)
<1>a. /\ n \in Nat \ {0} /\ Len(stack') = n
      /\ \A k \in 1 .. n : k # n => stack'[k] = stack[k]
      /\ \A k \in 1 .. n : stack'[k].sig = stack[k].sig
      /\ stack'[n].pc = l
  BY <1>0, Goes
<1>1. n \in 1 .. n
  BY <1>a
<1>2. stack[n].sig = "CHLD" <=> l # "kill"
  BY <1>1, <1>a DEF Stops, Roles, Top
<1> HIDE DEF n
<1>3. Roles'
  BY <1>1, <1>2, <1>a DEF Stops, Roles, n
<1>4. NewsComes'
  BY <1>1, <1>a DEF Stops, NewsComes, Handling, n
<1> QED
  BY <1>3, <1>4 DEF Stops

\* Frames about to mark, but for the running one, go on to be.
LEMMA StillMarking ==
  ASSUME Frames, stack # << >>, NEW l \in {"waitpid", "delete", "stop", "kill"},
         NEW q \in Pid \cup {0}, Handler(l, q)
  PROVE  /\ \A p : Marking(p) => Marking(p)' \/ (Top.pc = "stop" /\ Top.pid = p)
         /\ l = "stop" => Marking(q)'
<1> DEFINE n == Len(stack)
<1>1. /\ n \in Nat \ {0} /\ Len(stack') = n
      /\ \A k \in 1 .. n : k # n => stack'[k] = stack[k]
      /\ stack'[n].pc = l /\ stack'[n].pid = q
  BY Goes
<1>2. n \in 1 .. n
  BY <1>1
<1> HIDE DEF n
<1> QED
  BY <1>1, <1>2 DEF Marking, Top, n

LEMMA HandlersStops ==
  ASSUME Typed, Table, Stops, stack # << >>, status = "alive",
         \/ \E p \in Pid : WaitpidReaps(p) \/ WaitpidStopped(p)
         \/ WaitpidNone \/ HandlerDeletes \/ HandlerStops \/ HandlerLooks \/ HandlerKills
  PROVE  Stops'
<1>0. /\ Frames /\ JobTypeOK /\ proc \in [Pid -> ProcState]
  BY DEF Typed, TypeOK, Frames
<1>a. Top.pc \in {"delete", "stop", "kill"} => Top.pid \in Pid
  <2>1. Len(stack) \in 1 .. Len(stack)
    BY <1>0 DEF Frames
  <2> QED
    BY <2>1 DEF Top, Typed, Aimed
<1> USE DEF jobVars, kernel, main
<1>1. ASSUME NEW p \in Pid, WaitpidReaps(p) PROVE Stops'
  <2>1. /\ Top.pc = "waitpid" /\ Handler("delete", p) /\ proc' = [proc EXCEPT ![p] = "reaped"]
        /\ news' = news \ {p} /\ UNCHANGED <<job_list, pending, pc, job, status>>
    BY <1>1 DEF WaitpidReaps, Become
  <2>2. \A q : Marking(q) => Marking(q)'
    BY <1>0, <2>1, StillMarking
  <2>3. StopsSeen'
    BY <1>0, <2>1, <2>2 DEF Stops, StopsSeen, Seen, Stopped
  <2> QED
    BY <2>1, <2>3, GoesStops
<1>2. ASSUME NEW p \in Pid, WaitpidStopped(p) PROVE Stops'
  <2>1. /\ Top.pc = "waitpid" /\ Handler("stop", p) /\ news' = news \ {p}
        /\ UNCHANGED <<job_list, proc, pending, pc, job, status>>
    BY <1>2 DEF WaitpidStopped
  <2>2. Marking(p)' /\ \A q : Marking(q) => Marking(q)'
    BY <1>0, <2>1, StillMarking
  <2>3. StopsSeen'
    BY <1>0, <2>1, <2>2 DEF Stops, StopsSeen, Seen, Stopped
  <2> QED
    BY <2>1, <2>3, GoesStops
<1>3. CASE WaitpidNone
  <2>1. news = {} \/ \E p \in Pid : p \in news
    BY DEF Typed, TypeOK
  <2> QED
    BY <1>3, <2>1, ReturnStops DEF WaitpidNone
<1>4. CASE HandlerDeletes
  <2>1. /\ Top.pc = "delete" /\ Handler("waitpid", 0)
        /\ UNCHANGED <<proc, news, pending, pc, job, status>>
    BY <1>4 DEF HandlerDeletes
  <2>2. \A q : Marking(q) => Marking(q)'
    BY <1>0, <2>1, StillMarking
  <2>3. /\ proc[Top.pid] = "reaped"
        /\ \A i \in Slot : job_list[i].pid = Top.pid => job_list'[i] = Cleared
        /\ \A i \in Slot : job_list[i].pid # Top.pid => job_list'[i] = job_list[i]
    BY <1>4, DeletesOne
  <2>4. StopsSeen'
    <3>1. SUFFICES ASSUME NEW q \in Pid, proc'[q] = "stopped" PROVE Seen(q)'
      BY DEF StopsSeen
    <3>2. Seen(q) /\ q # Top.pid
      BY <2>1, <2>3, <3>1 DEF Stops, StopsSeen
    <3> QED
      BY <2>1, <2>2, <2>3, <3>2 DEF Seen, Stopped
  <2> QED
    BY <2>1, <2>4, GoesStops
<1>5. CASE HandlerStops
  <2>0. PICK p \in Pid : p = Top.pid
    BY <1>5, <1>a DEF HandlerStops
  <2>1. /\ Top.pc = "stop" /\ Handler("waitpid", 0) /\ p \in Pid
        /\ UNCHANGED <<proc, news, pending, pc, job>>
    BY <1>5, <1>a DEF HandlerStops
  <2>2. \A q : Marking(q) => Marking(q)' \/ q = p
    BY <1>0, <2>0, <2>1, StillMarking
  <2>3. \/ /\ job_list' = job_list /\ status' # "alive" /\ getjobpid(p) = 0
        \/ /\ getjobpid(p) # 0 /\ status' = status
           /\ \A j \in Slot : job_list'[j].pid = job_list[j].pid
           /\ \A j \in Slot : job_list'[j].state = IF j = getjobpid(p) THEN "ST" ELSE job_list[j].state
    BY <1>0, <1>5, <2>0, Marked DEF HandlerStops, State
  <2>4. \/ job_list' = job_list /\ status' # "alive" /\ ~ Listed(p)'
        \/ /\ status' = status /\ Stopped(p)'
           /\ \A j \in Slot : job_list'[j].pid = job_list[j].pid
           /\ \A j \in Slot : job_list[j].state = "ST" => job_list'[j].state = "ST"
    BY <2>1, <2>3, Getjobpid DEF Stopped, Listed
  <2>5. StopsSeen'
    <3>1. SUFFICES ASSUME NEW q \in Pid, proc'[q] = "stopped" PROVE Seen(q)'
      BY DEF StopsSeen
    <3>2. CASE q = p
      BY <2>4, <3>2 DEF Seen, Stopped, Listed
    <3>3. CASE q # p
      BY <2>1, <2>2, <2>4, <3>1, <3>3 DEF Stops, StopsSeen, Seen, Stopped
    <3> QED
      BY <3>2, <3>3
  <2> QED
    BY <2>1, <2>5, GoesStops
<1>6. CASE HandlerLooks
  <2>1. Top.pc = "fgpid" /\ UNCHANGED <<job_list, proc, news, pending, pc, job, status>>
    BY <1>6 DEF HandlerLooks
  <2>2. CASE fgpid = 0
    BY <1>6, <2>1, <2>2, ReturnStops DEF HandlerLooks
  <2>3. CASE fgpid # 0
    <3>1. Handler("kill", fgpid) /\ fgpid \in Pid
      BY <1>0, <1>6, <2>3, Fgpid DEF HandlerLooks, JobTypeOK
    <3>2. \A q : Marking(q) => Marking(q)'
      BY <1>0, <2>1, <3>1, StillMarking
    <3>3. StopsSeen'
      BY <2>1, <3>2 DEF Stops, StopsSeen, Seen, Stopped
    <3> QED
      BY <2>1, <3>1, <3>3, GoesStops
  <2> QED
    BY <2>2, <2>3
<1>7. CASE HandlerKills
  <2>1. Top.pc = "kill" /\ Return /\ UNCHANGED <<job_list, pc, job>>
    BY <1>7 DEF HandlerKills
  <2>2. /\ pending \subseteq pending' /\ news \subseteq news' /\ (news' = news \/ "CHLD" \in pending')
        /\ \A p \in Pid : proc'[p] = "stopped" => proc[p] = "stopped" \/ p \in news'
    BY <1>0, <1>7 DEF HandlerKills, Deliver, Become
  <2> QED
    BY <2>1, <2>2, ReturnStops
<1> QED
  BY <1>1, <1>2, <1>3, <1>4, <1>5, <1>6, <1>7

\* The main routine has no frames.
LEMMA MainStops ==
  ASSUME Typed, Stops, status = "alive", User \/ Main PROVE Stops'
<1>0. /\ JobTypeOK /\ proc \in [Pid -> ProcState] /\ stack = << >>
      /\ cur \in Pid \cup {0} /\ \A p \in Pid : p # 0
  BY Numbers DEF Typed, TypeOK, User, Main
<1>a. ASSUME stack' = stack, pending \subseteq pending', news' \subseteq news, StopsSeen' PROVE Stops'
  BY <1>0, <1>a DEF Stops, Roles, NewsComes, Handling
<1>b. ASSUME UNCHANGED <<job_list, kernel, pending, stack>>, pc # "cont" PROVE Stops'
  <2>1. UNCHANGED <<job_list, proc, news, stack>> /\ pending' = pending
    BY <1>b DEF kernel
  <2>2. StopsSeen'
    BY <1>0, <1>b, <2>1 DEF Stops, StopsSeen, Seen, Marking, Stopped
  <2> QED
    BY <1>a, <2>1, <2>2
<1> USE DEF jobVars, main
<1>1. ASSUME NEW b \in BACKGROUND, Fork(b) PROVE Stops'
  <2>1. UNCHANGED <<job_list, news, pending, stack>> /\ pc = "prompt"
    BY <1>1 DEF Fork
  <2>2. \A p \in Pid : proc'[p] = "stopped" => proc[p] = "stopped"
    BY <1>0, <1>1, Forked DEF Typed
  <2>3. StopsSeen'
    BY <1>0, <2>1, <2>2 DEF Stops, StopsSeen, Seen, Marking, Stopped
  <2> QED
    BY <1>a, <2>1, <2>3
<1>2. CASE (\E i \in Named : Command("bg", i, "setBG") \/ Command("fg", i, "fg_fgpid")) \/ ListJobs \/ Quit
  BY <1>2, <1>b DEF Command, ListJobs, Quit
<1>3. CASE AddJob
  <2> DEFINE s == IF bg THEN "BG" ELSE "FG"
  <2>1. addjob(cur, s) /\ pc = "add" /\ UNCHANGED <<proc, news, pending, stack>>
    BY <1>3 DEF AddJob, kernel
  <2>2. s \in State
    BY DEF State
  <2> HIDE DEF s
  <2>3. PICK i \in Slot : /\ job_list[i].pid = 0
                         /\ \A j \in Slot : j # i => job_list'[j] = job_list[j]
    BY <1>0, <2>1, <2>2, Added
  <2>4. \A p \in Pid : Stopped(p) => Stopped(p)'
    BY <1>0, <2>3 DEF Stopped
  <2>5. StopsSeen'
    BY <1>0, <2>1, <2>4 DEF Stops, StopsSeen, Seen, Marking
  <2> QED
    BY <1>a, <2>1, <2>5
<1>4. CASE AddJobFails \/ Unblock \/ Report
  BY <1>4, <1>b DEF AddJobFails, Unblock, Report
<1>5. ASSUME NEW at, NEW next, NEW exit, at # "cont", TestFgpid(at, next, exit) PROVE Stops'
  BY <1>5, <1>b DEF TestFgpid
<1>6. ASSUME NEW at, NEW p, NEW next, NEW exit, at # "cont", TestState(at, p, next, exit) PROVE Stops'
  BY <1>6, <1>b DEF TestState
<1>7. ASSUME NEW at, NEW asleep, at # "cont", Sleep(at, asleep) PROVE Stops'
  BY <1>7, <1>b DEF Sleep
<1>8. ASSUME NEW at, at # "cont", NEW s \in State, SetState(at, s) PROVE Stops'
  <2>1. /\ setstate(job, s) /\ pc = at /\ pc' = "cont"
        /\ UNCHANGED <<proc, news, pending, stack, job>>
    BY <1>8 DEF SetState, kernel
  <2>2. /\ \A j \in Slot : job_list'[j].pid = job_list[j].pid
        /\ \A j \in Slot : j # job => job_list'[j].state = job_list[j].state
    BY <1>0, <2>1, Marked
  <2>3. ASSUME NEW p \in Pid, Stopped(p)
        PROVE  Stopped(p)' \/ (job \in Slot /\ job_list'[job].pid = p)
    BY <2>2, <2>3 DEF Stopped
  <2>4. StopsSeen'
    BY <1>0, <1>8, <2>1, <2>3 DEF Stops, StopsSeen, Seen, Marking
  <2> QED
    BY <1>a, <2>1, <2>4
<1>9. CASE Cont
  <2>1. UNCHANGED <<job_list, stack, job>> /\ Continue(job_list[job].pid)
    BY <1>9 DEF Cont
  <2>2. /\ pending \subseteq pending' /\ news \ {job_list[job].pid} \subseteq news' /\ news' \subseteq news
        /\ \A p \in Pid : proc'[p] = "stopped" => proc[p] = "stopped" /\ p # job_list[job].pid
    BY <1>0, <2>1 DEF Continue, Become, kernel
  <2>3. StopsSeen'
    <3>1. SUFFICES ASSUME NEW p \in Pid, proc'[p] = "stopped" PROVE Seen(p)'
      BY DEF StopsSeen
    <3>2. p # job_list[job].pid /\ Seen(p)
      BY <2>2, <3>1 DEF Stops, StopsSeen
    <3> QED
      BY <1>0, <2>1, <2>2, <3>2 DEF Seen, Marking, Stopped
  <2> QED
    BY <1>a, <2>1, <2>2, <2>3
<1>10. {"BG", "FG"} \subseteq State
  BY DEF State
<1> QED
  BY <1>1, <1>2, <1>3, <1>4, <1>5, <1>6, <1>7, <1>8, <1>9, <1>10 DEF User, Main

LEMMA StopsNext == Typed /\ Table /\ Stops /\ [Next]_vars => Stops'
<1> SUFFICES ASSUME Typed, Table, Stops, [Next]_vars PROVE Stops'
  OBVIOUS
<1>1. CASE UNCHANGED vars
  <2>1. UNCHANGED <<job_list, proc, news, pending, stack, pc, job, status>>
    BY <1>1 DEF vars, kernel, main
  <2> QED
    BY <2>1 DEF Stops, Roles, NewsComes, Handling, StopsSeen, Seen, Marking, Stopped, Listed
<1>2. CASE Next
  BY <1>2, WorldStops, StartStops, HandlersStops, MainStops DEF Next, Handlers
<1> QED
  BY <1>1, <1>2

\* No stop is lost: with no handler at work and no SIGCHLD to come, a stopped
\* child is listed as stopped, although bg and fg overwrite the state while
\* handlers may set it.
THEOREM StopsKnown == Spec => []StopIsKnown
<1>1. Init => Stops
  BY DEF Init, Stops, Roles, NewsComes, StopsSeen
<1>2. ASSUME Table, Stops, Quiescent, NEW p \in Pid, proc[p] = "stopped", getjobpid(p) # 0
      PROVE  job_list[getjobpid(p)].state = "ST"
  <2>1. stack = << >> /\ Len(stack) = 0 /\ pc # "cont" /\ news = {}
    BY <1>2 DEF Quiescent, Stops, NewsComes, Handling
  <2>2. getjobpid(p) \in Slot /\ job_list[getjobpid(p)].pid = p /\ p # 0
    BY <1>2, Getjobpid, Numbers
  <2>3. Stopped(p)
    BY <1>2, <2>1, <2>2 DEF Stops, StopsSeen, Seen, Marking, Listed
  <2> QED
    BY <1>2, <2>2, <2>3 DEF Stopped, Table, Once
<1>3. Table /\ Stops => StopIsKnown
  BY <1>2 DEF StopIsKnown
<1> QED
  BY <1>1, <1>3, TypedInit, TypedNext, TableInit, TableNext, StopsNext, PTL DEF Spec
=============================================================================
