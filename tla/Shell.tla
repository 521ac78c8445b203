------------------------------- MODULE Shell -------------------------------
(***************************************************************************)
(* The tiny shell (tiny-shell-lab.c): the read/eval loop, the three signal *)
(* handlers that interrupt it, and the children it starts.                 *)
(*                                                                         *)
(* The shell is one thread.  A handler runs on top of what it interrupts,  *)
(* so the state has a stack of handler frames; the main routine moves only *)
(* while the stack is empty.  sa_mask is empty: while a handler runs only  *)
(* its own signal is held back, and another may interrupt it.  The main    *)
(* routine is cut where a signal can come between two accesses to the job  *)
(* table; each table routine is one step (a handler that interrupts one    *)
(* reads only the state and pid of a foreground slot).                     *)
(*                                                                         *)
(* Signals come from the keyboard to the shell alone, as its driver sends  *)
(* them; children have the default dispositions, as execve leaves them.    *)
(***************************************************************************)
EXTENDS JobList, Sequences

CONSTANTS
  BUILTINS,    \* the job commands the user types: a subset of {"jobs", "bg", "fg"}
  BACKGROUND,  \* whether command lines end in &: a subset of BOOLEAN
  COMMANDS,    \* how many job commands are typed (a bound)
  KEYS,        \* how often ctrl-c or ctrl-z is typed (a bound)
  FORKFAILS    \* how often fork fails (a bound)

ASSUME ShellConstantsOK ==
  /\ BUILTINS \subseteq {"jobs", "bg", "fg"}
  /\ BACKGROUND \subseteq BOOLEAN
  /\ {COMMANDS, KEYS, FORKFAILS} \subseteq Nat

VARIABLES
  proc,        \* the kernel's view of each child
  news,        \* children whose last stop waitpid has not yet reported
  doomed,      \* stopped children with a SIGINT that waits for SIGCONT
  pending,     \* signals pending for the shell
  mask,        \* TRUE while eval's three signals are blocked
  stack,       \* handler frames, the running one last
  pc,          \* where the main routine is
  cur,         \* eval's pid (0 for a failed fork)
  bg,          \* eval's bg
  job,         \* the slot bgjob or fgjob holds a pointer to
  commands, keys, forkfails,   \* what is left of the bounds
  status       \* "alive", or how the shell ended

kernel == <<proc, news, doomed>>
main == <<pc, cur, bg, job>>
limits == <<commands, keys, forkfails>>
vars == <<job_list, nextjid, kernel, pending, mask, stack, main, limits, status>>

ProcState == {"none", "new", "running", "stopped", "zombie", "reaped"}
Frame == [sig : {"CHLD", "INT", "TSTP"},
          pc : {"waitpid", "delete", "stop", "fgpid", "kill"},
          pid : Pid \cup {0},
          restore : BOOLEAN]

TypeOK ==
  /\ JobTypeOK
  /\ proc \in [Pid -> ProcState]
  /\ news \subseteq Pid /\ doomed \subseteq Pid
  /\ pending \subseteq {"CHLD", "INT", "TSTP"}
  /\ mask \in BOOLEAN
  /\ stack \in Seq(Frame) /\ Len(stack) <= 3
  /\ pc \in {"prompt", "add", "unblock", "report", "fgpid", "state", "sigsuspend",
             "asleep", "setBG", "fg_fgpid", "fg_state", "fg_sigsuspend", "fg_asleep",
             "setFG", "cont"}
  /\ cur \in Pid \cup {0}
  /\ bg \in BOOLEAN
  /\ job \in 0 .. MAXJOBS
  /\ commands \in 0 .. COMMANDS /\ keys \in 0 .. KEYS /\ forkfails \in 0 .. FORKFAILS
  /\ status \in {"alive", "segfault", "kill_failed", "write_failed", "quit"}

Init ==
  /\ InitJobs
  /\ proc = [p \in Pid |-> "none"]
  /\ news = {} /\ doomed = {}
  /\ pending = {}
  /\ mask = FALSE
  /\ stack = << >>
  /\ pc = "prompt" /\ cur = 0 /\ bg = FALSE /\ job = 0
  /\ commands = COMMANDS /\ keys = KEYS /\ forkfails = FORKFAILS
  /\ status = "alive"

-----------------------------------------------------------------------------
(* Children and the kernel. *)

Alive(p) == proc[p] \in {"new", "running", "stopped"}

\* The state changes the kernel makes, each telling the parent.
Become(p, s) == proc' = [proc EXCEPT ![p] = s]

\* The child has unblocked its signals, redirects its files, calls setpgid and
\* then execve (if that fails it ends at once).
ChildSetsGroup(p) ==
  /\ proc[p] = "new"
  /\ Become(p, "running")
  /\ UNCHANGED <<jobVars, news, doomed, pending, mask, stack, main, limits, status>>

ChildEnds(p) ==
  /\ proc[p] = "running"
  /\ Become(p, "zombie")
  /\ pending' = pending \cup {"CHLD"}
  /\ UNCHANGED <<jobVars, news, doomed, mask, stack, main, limits, status>>

\* The child stops itself (raise(SIGTSTP), as a job may do).
ChildStops(p) ==
  /\ proc[p] = "running"
  /\ Become(p, "stopped")
  /\ news' = news \cup {p}
  /\ pending' = pending \cup {"CHLD"}
  /\ UNCHANGED <<jobVars, doomed, mask, stack, main, limits, status>>

\* kill(-p, SIGINT) or kill(-p, SIGTSTP) with the default disposition.
Deliver(p, sig) ==
  IF proc[p] = "running"
  THEN /\ pending' = pending \cup {"CHLD"}
       /\ doomed' = doomed
       /\ IF sig = "INT" THEN Become(p, "zombie") /\ news' = news
          ELSE Become(p, "stopped") /\ news' = news \cup {p}
  ELSE /\ doomed' = IF proc[p] = "stopped" /\ sig = "INT" THEN doomed \cup {p} ELSE doomed
       /\ UNCHANGED <<proc, news, pending>>

\* kill(p, SIGCONT): the kernel forgets an unreported stop and tells the parent.
Continue(p) ==
  IF p # 0 /\ proc[p] = "stopped"
  THEN /\ Become(p, IF p \in doomed THEN "zombie" ELSE "running")
       /\ news' = news \ {p}
       /\ doomed' = doomed \ {p}
       /\ pending' = pending \cup {"CHLD"}
  ELSE UNCHANGED <<kernel, pending>>

\* The user types ctrl-c or ctrl-z.
Key(sig) ==
  /\ keys > 0
  /\ keys' = keys - 1
  /\ pending' = pending \cup {sig}
  /\ UNCHANGED <<jobVars, kernel, mask, stack, main, commands, forkfails, status>>

\* The driver ends the shell; nothing blocks SIGQUIT.
Sigquit ==
  /\ status' = "quit"
  /\ UNCHANGED <<jobVars, kernel, pending, mask, stack, main, limits>>

World ==
  \/ \E p \in Pid : ChildSetsGroup(p) \/ ChildEnds(p) \/ ChildStops(p)
  \/ Key("INT") \/ Key("TSTP") \/ Sigquit

-----------------------------------------------------------------------------
(* Signal delivery and the handlers. *)

Top == stack[Len(stack)]
Handling(sig) == \E i \in 1 .. Len(stack) : stack[i].sig = sig

\* Mutant: a signal may interrupt its own handler.
StartHandler_Nests(sig) ==
  /\ sig \in pending
  /\ \/ ~ mask
     \/ stack = << >> /\ pc \in {"asleep", "fg_asleep"}
  /\ pending' = pending \ {sig}
  /\ stack' = Append(stack, [sig |-> sig, pid |-> 0, restore |-> mask,
                             pc |-> IF sig = "CHLD" THEN "waitpid" ELSE "fgpid"])
  /\ mask' = FALSE
  /\ pc' = IF stack # << >> THEN pc
           ELSE IF pc = "asleep" THEN "fgpid"
           ELSE IF pc = "fg_asleep" THEN "fg_fgpid"
           ELSE pc
  /\ UNCHANGED <<jobVars, kernel, cur, bg, job, limits, status>>

\* A signal starts its handler.  sigsuspend lets it in whatever the mask is,
\* and returns when the handlers have returned.
StartHandler(sig) ==
  /\ sig \in pending
  /\ ~ Handling(sig)
  /\ \/ ~ mask
     \/ stack = << >> /\ pc \in {"asleep", "fg_asleep"}
  /\ pending' = pending \ {sig}
  /\ stack' = Append(stack, [sig |-> sig, pid |-> 0, restore |-> mask,
                             pc |-> IF sig = "CHLD" THEN "waitpid" ELSE "fgpid"])
  /\ mask' = FALSE
  /\ pc' = IF stack # << >> THEN pc
           ELSE IF pc = "asleep" THEN "fgpid"
           ELSE IF pc = "fg_asleep" THEN "fg_fgpid"
           ELSE pc
  /\ UNCHANGED <<jobVars, kernel, cur, bg, job, limits, status>>

\* The running handler returns.
Return == stack' = SubSeq(stack, 1, Len(stack) - 1) /\ mask' = Top.restore

\* The running handler goes on with pid p at l.
Handler(l, p) == stack' = [stack EXCEPT ![Len(stack)].pc = l, ![Len(stack)].pid = p]

\* sigchld_handler: waitpid reports a zombie or a stopped child, or nothing
\* (then the loop ends).
WaitpidReaps(p) ==
  /\ Top.pc = "waitpid"
  /\ proc[p] = "zombie"
  /\ Become(p, "reaped")
  /\ news' = news \ {p}
  /\ Handler("delete", p)
  /\ UNCHANGED <<jobVars, doomed, pending, mask, main, limits, status>>

\* Mutant: a stopped child is taken for one that ended.
WaitpidStopped_Deletes(p) ==
  /\ Top.pc = "waitpid"
  /\ proc[p] = "stopped" /\ p \in news
  /\ news' = news \ {p}
  /\ Handler("delete", p)
  /\ UNCHANGED <<jobVars, proc, doomed, pending, mask, main, limits, status>>

WaitpidStopped(p) ==
  /\ Top.pc = "waitpid"
  /\ proc[p] = "stopped" /\ p \in news
  /\ news' = news \ {p}
  /\ Handler("stop", p)
  /\ UNCHANGED <<jobVars, proc, doomed, pending, mask, main, limits, status>>

WaitpidNone ==
  /\ Top.pc = "waitpid"
  /\ \A p \in Pid : proc[p] # "zombie" /\ p \notin news
  /\ Return
  /\ UNCHANGED <<jobVars, kernel, pending, main, limits, status>>

\* Mutant: one child is reaped per SIGCHLD.
HandlerDeletes_Once ==
  /\ Top.pc = "delete"
  /\ deletejob(Top.pid)
  /\ Return
  /\ UNCHANGED <<kernel, pending, main, limits, status>>

\* sigchld_handler: the child ended, normally or by a signal.
HandlerDeletes ==
  /\ Top.pc = "delete"
  /\ deletejob(Top.pid)
  /\ Handler("waitpid", 0)
  /\ UNCHANGED <<kernel, pending, mask, main, limits, status>>

\* Mutant: only a foreground job is marked as stopped.
HandlerStops_OnlyFG ==
  /\ Top.pc = "stop"
  /\ IF getjobpid(Top.pid) = 0
     THEN status' = "segfault" /\ UNCHANGED jobVars
     ELSE /\ status' = status
          /\ IF job_list[getjobpid(Top.pid)].state = "FG"
             THEN setstate(getjobpid(Top.pid), "ST") ELSE UNCHANGED jobVars
  /\ Handler("waitpid", 0)
  /\ UNCHANGED <<kernel, pending, mask, main, limits>>

\* sigchld_handler: the child stopped; its job is dereferenced unchecked.
HandlerStops ==
  /\ Top.pc = "stop"
  /\ IF getjobpid(Top.pid) = 0
     THEN status' = "segfault" /\ UNCHANGED jobVars
     ELSE status' = status /\ setstate(getjobpid(Top.pid), "ST")
  /\ Handler("waitpid", 0)
  /\ UNCHANGED <<kernel, pending, mask, main, limits>>

\* sigint_handler, sigtstp_handler: look for the foreground job.
HandlerLooks ==
  /\ Top.pc = "fgpid"
  /\ IF fgpid = 0 THEN Return ELSE Handler("kill", fgpid) /\ mask' = mask
  /\ UNCHANGED <<jobVars, kernel, pending, main, limits, status>>

\* sigint_handler, sigtstp_handler: the signal goes to the group of the job.
\* A group that does not exist (yet, or any more) ends the shell.
HandlerKills ==
  /\ Top.pc = "kill"
  /\ IF proc[Top.pid] \in {"new", "reaped"}
     THEN status' = "kill_failed" /\ UNCHANGED <<kernel, pending>>
     ELSE status' = status /\ Deliver(Top.pid, Top.sig)
  /\ Return
  /\ UNCHANGED <<jobVars, main, limits>>

Handlers ==
  \/ \E sig \in {"CHLD", "INT", "TSTP"} : StartHandler(sig)
  \/ /\ stack # << >>
     /\ \/ \E p \in Pid : WaitpidReaps(p) \/ WaitpidStopped(p)
        \/ WaitpidNone \/ HandlerDeletes \/ HandlerStops \/ HandlerLooks \/ HandlerKills

-----------------------------------------------------------------------------
(* eval, for a command that is not built in. *)

\* Mutant: the signals are not blocked around fork and addjob.
Fork_Unblocked(b) ==
  LET Unused == {p \in Pid : proc[p] = "none"} IN
  /\ pc = "prompt"
  /\ Unused # {}
  /\ mask' = mask
  /\ bg' = b
  /\ pc' = "add"
  /\ \/ /\ cur' = Min(Unused)
        /\ Become(Min(Unused), "new")
        /\ forkfails' = forkfails
     \/ /\ forkfails > 0
        /\ forkfails' = forkfails - 1
        /\ cur' = 0
        /\ proc' = proc
  /\ UNCHANGED <<jobVars, news, doomed, pending, stack, job, commands, keys, status>>

\* parseline, the signals blocked, fork.  The child inherits the mask and
\* undoes it; pids are handed out in order.
Fork(b) ==
  LET Unused == {p \in Pid : proc[p] = "none"} IN
  /\ pc = "prompt"
  /\ Unused # {}
  /\ mask' = TRUE
  /\ bg' = b
  /\ pc' = "add"
  /\ \/ /\ cur' = Min(Unused)
        /\ Become(Min(Unused), "new")
        /\ forkfails' = forkfails
     \/ /\ forkfails > 0
        /\ forkfails' = forkfails - 1
        /\ cur' = 0
        /\ proc' = proc
  /\ UNCHANGED <<jobVars, news, doomed, pending, stack, job, commands, keys, status>>

\* The job is listed before a signal can come in.
AddJob ==
  /\ pc = "add"
  /\ CanAdd(cur)
  /\ addjob(cur, IF bg THEN "BG" ELSE "FG")
  /\ pc' = "unblock"
  /\ UNCHANGED <<kernel, pending, mask, stack, cur, bg, job, limits, status>>

\* No slot, or no child: eval returns with the signals blocked.
AddJobFails ==
  /\ pc = "add"
  /\ ~ CanAdd(cur)
  /\ pc' = "prompt"
  /\ UNCHANGED <<jobVars, kernel, pending, mask, stack, cur, bg, job, limits, status>>

Unblock ==
  /\ pc = "unblock"
  /\ mask' = FALSE
  /\ pc' = IF bg THEN "report" ELSE "fgpid"
  /\ UNCHANGED <<jobVars, kernel, pending, stack, cur, bg, job, limits, status>>

\* The job id of a background job is printed; its job may be gone by now.
Report ==
  /\ pc = "report"
  /\ pc' = "prompt"
  /\ status' = IF getjobpid(cur) = 0 THEN "segfault" ELSE status
  /\ UNCHANGED <<jobVars, kernel, pending, mask, stack, cur, bg, job, limits>>

\* Mutant: the loop ends while there is a foreground job.
TestFgpid_Inverted(at, next, exit) ==
  /\ pc = at
  /\ pc' = IF fgpid = 0 THEN next ELSE exit
  /\ UNCHANGED <<jobVars, kernel, pending, mask, stack, cur, bg, job, limits, status>>

\* The first test of the foreground loop, in eval and in fgjob.
TestFgpid(at, next, exit) ==
  /\ pc = at
  /\ pc' = IF fgpid # 0 THEN next ELSE exit
  /\ UNCHANGED <<jobVars, kernel, pending, mask, stack, cur, bg, job, limits, status>>

\* The second test, of the job of pid p, which is dereferenced unchecked.
TestState(at, p, next, exit) ==
  LET i == getjobpid(p) IN
  /\ pc = at
  /\ IF i = 0 THEN status' = "segfault" /\ pc' = pc
     ELSE /\ status' = status
          /\ pc' = IF job_list[i].state # "ST" THEN next ELSE exit
  /\ UNCHANGED <<jobVars, kernel, pending, mask, stack, cur, bg, job, limits>>

\* sigsuspend with no signal to take: only a later one wakes the shell.
Sleep(at, asleep) ==
  /\ pc = at
  /\ pc' = asleep
  /\ UNCHANGED <<jobVars, kernel, pending, mask, stack, cur, bg, job, limits, status>>

-----------------------------------------------------------------------------
(* The built-in commands. *)

\* quit, or the end of the input.
Quit ==
  /\ pc = "prompt"
  /\ status' = "quit"
  /\ UNCHANGED <<jobVars, kernel, pending, mask, stack, main, limits>>

\* A write of listjobs fails, for instance as its file could not be opened.
ListFails == (\E i \in Slot : job_list[i].pid # 0) /\ status' = "write_failed"

\* jobs reads the table, while handlers may change it; what it prints is left out.
ListJobs ==
  /\ pc = "prompt"
  /\ "jobs" \in BUILTINS
  /\ commands > 0
  /\ commands' = commands - 1
  /\ status' = status \/ ListFails
  /\ UNCHANGED <<jobVars, kernel, pending, mask, stack, main, keys, forkfails>>

\* What getjobpid or getjobjid can return for what the user types.
Named ==
  {0} \cup {getjobpid(p) : p \in Pid} \cup {getjobjid(job_list[i].jid) : i \in Slot}

\* bg or fg names a job by its pid or job id.  The error message for a job
\* that does not exist is followed by its dereference all the same, and the
\* one for a job in the wrong state changes nothing.
Command(name, target, l) ==
  /\ pc = "prompt"
  /\ name \in BUILTINS
  /\ commands > 0
  /\ commands' = commands - 1
  /\ job' = target
  /\ IF target = 0 THEN status' = "segfault" /\ pc' = pc
     ELSE status' = status /\ pc' = l
  /\ UNCHANGED <<jobVars, kernel, pending, mask, stack, cur, bg, keys, forkfails>>

\* job->state = BG, or FG: whatever the slot holds by now.
SetState(at, state) ==
  /\ pc = at
  /\ setstate(job, state)
  /\ pc' = "cont"
  /\ UNCHANGED <<kernel, pending, mask, stack, cur, bg, job, limits, status>>

\* kill(job->pid, SIGCONT): pid 0 is the shell's own group.
Cont ==
  /\ pc = "cont"
  /\ Continue(job_list[job].pid)
  /\ pc' = "prompt"
  /\ UNCHANGED <<jobVars, mask, stack, cur, bg, job, limits, status>>

-----------------------------------------------------------------------------
\* What the user types at the prompt.
User ==
  /\ stack = << >>
  /\ \/ \E b \in BACKGROUND : Fork(b)
     \/ \E i \in Named : Command("bg", i, "setBG") \/ Command("fg", i, "fg_fgpid")
     \/ ListJobs \/ Quit

\* What the main routine does by itself.
Main ==
  /\ stack = << >>
  /\ \/ AddJob \/ AddJobFails \/ Unblock \/ Report
     \/ TestFgpid("fgpid", "state", "prompt")
     \/ TestState("state", cur, "sigsuspend", "prompt")
     \/ Sleep("sigsuspend", "asleep") \/ Sleep("fg_sigsuspend", "fg_asleep")
     \/ TestFgpid("fg_fgpid", "fg_state", "setFG")
     \/ TestState("fg_state", job_list[job].pid, "fg_sigsuspend", "setFG")
     \/ SetState("setBG", "BG") \/ SetState("setFG", "FG")
     \/ Cont

Next == status = "alive" /\ (World \/ Handlers \/ User \/ Main)

Spec == Init /\ [][Next]_vars

\* The kernel runs the shell whenever it is not asleep or has a signal to
\* take, and starts the children that were forked.  Nothing says when a child
\* ends or what the user types.
FairSpec ==
  /\ Spec
  /\ WF_vars(status = "alive" /\ (Handlers \/ Main))
  /\ \A p \in Pid : WF_vars(status = "alive" /\ ChildSetsGroup(p))

-----------------------------------------------------------------------------
(* Properties. *)

\* Every child that is not reaped is in the table, from the moment signals are
\* let in again: the handlers never meet a child they do not know.
Tracked ==
  \A p \in Pid :
    proc[p] \notin {"none", "reaped"} /\ ~ (pc = "add" /\ cur = p) => getjobpid(p) # 0

\* A pid in the table is still the child's: a reaped child is listed only
\* while sigchld_handler is about to delete it.
NoStaleJob ==
  \A i \in Slot : job_list[i].pid # 0 =>
    \/ proc[job_list[i].pid] # "reaped"
    \/ \E k \in 1 .. Len(stack) : stack[k].pc = "delete" /\ stack[k].pid = job_list[i].pid

\* With no handler at work and no SIGCHLD to come, a stopped child is listed
\* as stopped: a stop is never lost between the handler and bg or fg, which
\* overwrite the state and then continue the child.
Quiescent == stack = << >> /\ "CHLD" \notin pending /\ pc # "cont"

StopIsKnown ==
  Quiescent => \A p \in Pid : proc[p] = "stopped" /\ getjobpid(p) # 0 =>
                 job_list[getjobpid(p)].state = "ST"

\* eval: "If the job is running in the foreground, wait for it to terminate
\* and then return".  Without fg, the prompt comes back only when no job is
\* in the foreground.
ForegroundAwaited == pc = "prompt" => \A i \in Slot : job_list[i].state # "FG"

\* ctrl-c and ctrl-z end or stop only a job that is in the foreground at that
\* moment, although the handler looked before it sends.
KeysHitForeground ==
  [][\A p \in Pid :
       /\ stack # << >> /\ Top.pc = "kill" /\ Len(stack') < Len(stack)
       /\ proc[p] # proc'[p]
       => job_list[getjobpid(p)].state = "FG"]_vars

\* Every child that ends is reaped and leaves the table.
ZombiesReaped ==
  \A p \in Pid :
    proc[p] = "zombie" ~> status # "alive" \/ (proc[p] = "reaped" /\ getjobpid(p) = 0)

-----------------------------------------------------------------------------
(* What the comments promise and the code does not do. *)

\* eval: "wait for it to terminate and then return".
WaitEnds ==
  \A p \in Pid :
    cur = p /\ proc[p] = "reaped" /\ pc = "asleep" ~>
      pc # "asleep" \/ status # "alive"
=============================================================================
