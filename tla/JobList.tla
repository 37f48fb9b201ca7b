------------------------------ MODULE JobList ------------------------------
(***************************************************************************)
(* The job list of the shell (05-shell-lab/tsh.c): an array of MAXJOBS     *)
(* slots and the counter nextjid, with the helpers that search and change  *)
(* them.  A helper that scans the array and stops at the first hit is      *)
(* written as a relation on the slot it stops at, so the module needs no   *)
(* recursion.  Tsh runs the list under the shell's main line and its       *)
(* signal handlers.                                                        *)
(***************************************************************************)
EXTENDS Integers

CONSTANTS
    MAXJOBS,    \* number of slots of the array
    Pids        \* process ids a child can get

ASSUME MAXJOBSAssumption == MAXJOBS \in Nat \ {0}
ASSUME PidsAssumption == 0 \notin Pids /\ -1 \notin Pids

VARIABLES
    jobs,       \* the array: a record per slot
    nextjid     \* next job id to allocate

listVars == <<jobs, nextjid>>

Slots == 1..MAXJOBS
JobStates == {"UNDEF", "FG", "BG", "ST"}

\* struct job_t without the command line, which only listings show.
job_t == [pid : Pids \cup {0}, jid : Nat, state : JobStates]

clearjob == [pid |-> 0, jid |-> 0, state |-> "UNDEF"]

initjobs == jobs = [i \in Slots |-> clearjob] /\ nextjid = 1

----------------------------------------------------------------------------
(* Searches.                                                               *)

\* i is the slot where a scan of the array for a member of S stops.
StopsAt(S, i) == i \in S /\ \A k \in S : i <= k

Holding(p) == {i \in Slots : jobs[i].pid = p}
Foreground == {i \in Slots : jobs[i].state = "FG"}

\* The pids in use.
Listed == {jobs[i].pid : i \in Slots} \ {0}

\* i is the slot getjobpid(jobs, p) points to; no slot is when it is NULL.
getjobpid(p, i) == p # 0 /\ StopsAt(Holding(p), i)
getjobpidNull(p) == p = 0 \/ Holding(p) = {}

\* i is the slot getjobjid(jobs, j) points to.
getjobjid(j, i) == j >= 1 /\ StopsAt({k \in Slots : jobs[k].jid = j}, i)

\* Faults: the scan misses the first slot; it takes any job.
fgpid_SkipsFirst(p) ==
    \/ Foreground \subseteq {1} /\ p = 0
    \/ \E i \in Slots : StopsAt(Foreground \ {1}, i) /\ p = jobs[i].pid
fgpid_AnyJob(p) ==
    \/ Listed = {} /\ p = 0
    \/ \E i \in Slots : StopsAt(Slots \ Holding(0), i) /\ p = jobs[i].pid

\* fgpid(jobs) returns p: the pid of the first slot marked FG, 0 without one.
fgpid(p) ==
    \/ Foreground = {} /\ p = 0
    \/ \E i \in Slots : StopsAt(Foreground, i) /\ p = jobs[i].pid

\* maxjid of the array a is m.
maxjid(a, m) ==
    /\ m \in {a[i].jid : i \in Slots} \cup {0}
    /\ \A i \in Slots : a[i].jid <= m

----------------------------------------------------------------------------
(* Changes.                                                                *)

\* Faults: nextjid wraps one job early; the loop goes on after the first hit.
addjob_WrapsEarly(p, s) ==
    \E i \in Slots :
       /\ StopsAt(Holding(0), i)
       /\ jobs' = [jobs EXCEPT ![i] = [pid |-> p, jid |-> nextjid, state |-> s]]
       /\ nextjid' = IF nextjid + 1 >= MAXJOBS THEN 1 ELSE nextjid + 1
addjob_NoReturn(p, s) ==
    /\ jobs' = [i \in Slots |-> IF i \in Holding(0)
                                THEN [pid |-> p, jid |-> nextjid, state |-> s]
                                ELSE jobs[i]]
    /\ nextjid' = IF nextjid + 1 > MAXJOBS THEN 1 ELSE nextjid + 1

\* The job takes the first slot without a pid, or is refused when none is left.
addjob(p, s) ==
    \/ \E i \in Slots :
          /\ StopsAt(Holding(0), i)
          /\ jobs' = [jobs EXCEPT ![i] = [pid |-> p, jid |-> nextjid, state |-> s]]
          /\ nextjid' = IF nextjid + 1 > MAXJOBS THEN 1 ELSE nextjid + 1
    \/ Holding(0) = {} /\ UNCHANGED listVars

\* Fault: nextjid is set to the id of a job that is still there.
deletejob_LastId(p) ==
    \/ \E i \in Slots :
          /\ getjobpid(p, i)
          /\ jobs' = [jobs EXCEPT ![i] = clearjob]
          /\ \E m \in {jobs'[k].jid : k \in Slots} \cup {0} :
                maxjid(jobs', m) /\ nextjid' = m
    \/ getjobpidNull(p) /\ UNCHANGED listVars

\* The first slot with this pid is cleared and nextjid restarts above the
\* largest job id left.
deletejob(p) ==
    \/ \E i \in Slots :
          /\ getjobpid(p, i)
          /\ jobs' = [jobs EXCEPT ![i] = clearjob]
          /\ \E m \in {jobs'[k].jid : k \in Slots} \cup {0} :
                maxjid(jobs', m) /\ nextjid' = m + 1
    \/ getjobpidNull(p) /\ UNCHANGED listVars

setstate(i, s) == jobs' = [jobs EXCEPT ![i].state = s] /\ UNCHANGED nextjid

----------------------------------------------------------------------------
(* Properties.                                                             *)

\* Every slot holds a job_t and nextjid is a number.
ListTypeOK == jobs \in [Slots -> job_t] /\ nextjid \in Nat \ {0}

\* A pid is in at most one slot, so that the "first" slot with it, which is
\* the one deletejob clears and the handlers mark, is the only one.
PidsDistinct ==
    \A i, k \in Slots : jobs[i].pid = jobs[k].pid /\ jobs[i].pid # 0 => i = k

\* Ids ascend until one reaches MAXJOBS: as long as no job has such an id,
\* the id about to be given is larger than every id in use, although addjob
\* wraps nextjid (559-560) and deletejob winds it back (582).  Beyond that
\* nothing holds: after a wrap two jobs can get the same id.
NextJidAscends ==
    (\A i \in Slots : jobs[i].jid < MAXJOBS) => \A i \in Slots : jobs[i].jid < nextjid
============================================================================
