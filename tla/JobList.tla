------------------------------ MODULE JobList ------------------------------
(***************************************************************************)
(* The job table of the shell (tiny-shell-lab.c, "Helper routines that     *)
(* manipulate the job list"): a fixed array of slots and the next job id.  *)
(* Every routine is one step here; Shell shows what may come in between.   *)
(***************************************************************************)
EXTENDS Integers, FiniteSets, FiniteSetsExt

CONSTANTS
  MAXJOBS,    \* slots of job_list
  Pid         \* the pids children may get

ASSUME JobConstantsOK ==
  /\ MAXJOBS \in Nat \ {0}
  /\ Pid \subseteq Nat \ {0}

VARIABLES
  job_list,   \* the slots
  nextjid     \* next job ID to allocate

jobVars == <<job_list, nextjid>>

Slot == 1 .. MAXJOBS
State == {"UNDEF", "FG", "BG", "ST"}

\* clearjob
Cleared == [pid |-> 0, jid |-> 0, state |-> "UNDEF"]

\* What a search from slot 0 upwards returns; 0 stands for NULL.
First(S) == IF S = {} THEN 0 ELSE CHOOSE i \in S : \A j \in S : i <= j

getjobpid(pid) == IF pid < 1 THEN 0 ELSE First({i \in Slot : job_list[i].pid = pid})
getjobjid(jid) == IF jid < 1 THEN 0 ELSE First({i \in Slot : job_list[i].jid = jid})

\* Mutant: the foreground job is looked for among the other jobs.
fgpid_AnyState ==
  LET i == First({j \in Slot : job_list[j].state \in {"FG", "BG"}})
  IN  IF i = 0 THEN 0 ELSE job_list[i].pid

\* The pid in the first slot marked FG, even if that slot is otherwise empty.
fgpid == LET i == First({j \in Slot : job_list[j].state = "FG"})
         IN  IF i = 0 THEN 0 ELSE job_list[i].pid

maxjid(jobs) == Max({0} \cup {jobs[i].jid : i \in Slot})

\* initjobs
InitJobs == job_list = [i \in Slot |-> Cleared] /\ nextjid = 1

FreeSlot == First({i \in Slot : job_list[i].pid = 0})
CanAdd(pid) == pid >= 1 /\ FreeSlot # 0

\* addjob returns 1; the caller handles the return of 0.
addjob(pid, state) ==
  /\ CanAdd(pid)
  /\ job_list' = [job_list EXCEPT ![FreeSlot] =
                    [pid |-> pid, jid |-> nextjid, state |-> state]]
  /\ nextjid' = IF nextjid + 1 > MAXJOBS THEN 1 ELSE nextjid + 1

deletejob(pid) ==
  LET i == getjobpid(pid) IN
  IF i = 0 THEN UNCHANGED jobVars
  ELSE /\ job_list' = [job_list EXCEPT ![i] = Cleared]
       /\ nextjid' = maxjid(job_list') + 1

setstate(i, state) ==
  /\ job_list' = [job_list EXCEPT ![i].state = state]
  /\ nextjid' = nextjid

-----------------------------------------------------------------------------
JobTypeOK ==
  /\ job_list \in [Slot -> [pid : Pid \cup {0}, jid : Nat, state : State]]
  /\ nextjid \in Nat \ {0}
=============================================================================
