-------------------------------- MODULE Tsh --------------------------------
(***************************************************************************)
(* The tiny shell (05-shell-lab/tsh.c): its main line (the read/eval loop, *)
(* eval, do_bgfg, waitfg) and its handlers of SIGCHLD, SIGINT and SIGTSTP, *)
(* over the job list of JobList and over the part of the kernel that the   *)
(* shell sees: children with their process group and wait status, pending  *)
(* and blocked signals.                                                    *)
(*                                                                         *)
(* The main line and the handlers are contexts.  A signal that is pending  *)
(* and not blocked may interrupt the running context between any two of    *)
(* its steps; the interrupted one goes on when the handler returns.  Every *)
(* sa_mask is empty (tsh.c:703), so a handler blocks only its own signal   *)
(* and handlers nest.  A step is one access to shared state: a system call *)
(* or a read or write of the job list.                                     *)
(*                                                                         *)
(* Modelled of the outside: a child is one process, its pid is not used    *)
(* again, nobody but the shell's group signals it before its setpgid, and  *)
(* the shell may not signal processes of others (it is not root).          *)
(***************************************************************************)
EXTENDS JobList, FiniteSets, Sequences

CONSTANTS
    Commands,   \* the commands typed, of AllCommands
    Keys,       \* the signals typed at the terminal: INT (ctrl-c), TSTP (ctrl-z)
    MaxKeys     \* bound on the number of times they are typed

AllCommands == {"run_fg", "run_bg", "fg", "bg", "quit"}
ASSUME CommandsAssumption == Commands \subseteq AllCommands
ASSUME KeysAssumption == Keys \subseteq {"INT", "TSTP"} /\ MaxKeys \in Nat

Signals == {"CHLD", "INT", "TSTP"}
Contexts == Signals \cup {"main"}

VARIABLES
    proc,       \* proc[p]: what became of the process p
    pending,    \* signals pending for the shell; each at most once
    masked,     \* signals the main line has blocked
    stack,      \* the handlers that run, each interrupted by the next one
    pc,         \* pc[c]: the next step of the context c
    pid,        \* pid[c]: cpid, fg_job_pid or foreground_pid of the context c
    ptr,        \* ptr[c]: the slot cur_job or fg_job points to
    grp,        \* grp[c]: groupId or pgid
    cmd,        \* the command the main line evaluates
    refused,    \* children that addjob had no slot for
    keys,       \* number of signals typed so far
    outcome     \* "up", or how the shell ended

shellVars == <<stack, pc, pid, ptr, grp, cmd>>
kernelVars == <<proc, pending, masked, keys>>
vars == <<jobs, nextjid, proc, pending, masked, stack, pc, pid, ptr, grp,
          cmd, refused, keys, outcome>>

\* none: not forked yet; new: forked, still in the shell's process group;
\* stopping: stopped, the stop not reported by waitpid; stopped: reported.
ProcStates == {"none", "new", "running", "stopping", "stopped", "zombie", "reaped"}
Alive == {"running", "stopping", "stopped"}

\* Process groups: each child that has called setpgid has its own.
ShellGroup == 0
NoGroup == -1
Groups == Pids \cup {ShellGroup, NoGroup}

MainSteps == {"prompt", "fork", "addjob", "unblock", "wait_scan", "wait_check",
              "getpgid", "bg_test", "bg_set", "bg_kill",
              "fg_test", "fg_kill", "fg_set"}
HandlerSteps == {"idle", "waitpid", "deletejob", "stopjob",
                 "fgpid", "deref", "test", "getpgid", "kill"}
Entry(h) == IF h = "CHLD" THEN "waitpid" ELSE "fgpid"

Outcomes == {"up", "exit", "chld_null", "int_null", "kill_error", "killed"}

Init ==
    /\ initjobs
    /\ proc = [p \in Pids |-> "none"]
    /\ pending = {}
    /\ masked = {}
    /\ stack = <<>>
    /\ pc = [c \in Contexts |-> IF c = "main" THEN "prompt" ELSE "idle"]
    /\ pid = [c \in Contexts |-> 0]
    /\ ptr = [c \in Contexts |-> 0]
    /\ grp = [c \in Contexts |-> 0]
    /\ cmd = "quit"
    /\ refused = {}
    /\ keys = 0
    /\ outcome = "up"

----------------------------------------------------------------------------
(* Contexts.                                                               *)

Active(h) == pc[h] # "idle"
Blocked == masked \cup {h \in Signals : Active(h)}

\* The context that runs.
top == IF stack = <<>> THEN "main" ELSE stack[Len(stack)]

\* Context c runs its step s.
At(c, s) == outcome = "up" /\ top = c /\ pc[c] = s

Goto(c, s) == pc' = [pc EXCEPT ![c] = s] /\ UNCHANGED stack

\* The handler is over; the context it interrupted goes on.
Return(h) ==
    /\ stack' = SubSeq(stack, 1, Len(stack) - 1)
    /\ pc' = [pc EXCEPT ![h] = "idle"]

\* A signal interrupts the running context.
Deliver(h) ==
    /\ outcome = "up"
    /\ h \in pending \ Blocked
    /\ pending' = pending \ {h}
    /\ stack' = Append(stack, h)
    /\ pc' = [pc EXCEPT ![h] = Entry(h)]
    /\ UNCHANGED <<jobs, nextjid, proc, masked, pid, ptr, grp, cmd, refused,
                   keys, outcome>>

\* The process is over: exit, a fault, or a fatal signal.
Die(how) ==
    /\ outcome' = how
    /\ UNCHANGED <<jobs, nextjid, proc, pending, masked, shellVars, refused, keys>>

----------------------------------------------------------------------------
(* System calls.                                                           *)

\* getpgid(p): 0 asks for the caller's group.
getpgid(p) ==
    IF p = 0 THEN ShellGroup
    ELSE IF proc[p] = "new" THEN ShellGroup
    ELSE IF proc[p] = "reaped" THEN NoGroup
    ELSE p

\* kill(-g) fails when the group is gone; -NoGroup is process 1.
killFails(g) == g = NoGroup \/ (g \in Pids /\ proc[g] = "reaped")

\* The child turns into s, and the kernel tells the shell.
Becomes(p, s) ==
    /\ proc' = [proc EXCEPT ![p] = s]
    /\ pending' = pending \cup {"CHLD"}

NothingSent == UNCHANGED <<proc, pending>>

----------------------------------------------------------------------------
(* The main line: eval.                                                    *)

\* Fault: SIGCHLD is not blocked before fork.
ReadRun_NoMask ==
    /\ At("main", "prompt")
    /\ \E p \in Pids : proc[p] = "none"
    /\ \E c \in Commands \cap {"run_fg", "run_bg"} : cmd' = c
    /\ masked' = {"TSTP"}
    /\ Goto("main", "fork")
    /\ UNCHANGED <<jobs, nextjid, proc, pending, pid, ptr, grp, refused, keys, outcome>>

\* A command that is not built in: eval blocks SIGCHLD and SIGTSTP (193).
\* Pids bounds the commands run: one is typed while a pid is left for it.
ReadRun ==
    /\ At("main", "prompt")
    /\ \E p \in Pids : proc[p] = "none"
    /\ \E c \in Commands \cap {"run_fg", "run_bg"} : cmd' = c
    /\ masked' = {"CHLD", "TSTP"}
    /\ Goto("main", "fork")
    /\ UNCHANGED <<jobs, nextjid, proc, pending, pid, ptr, grp, refused, keys, outcome>>

Fork ==
    /\ At("main", "fork")
    /\ \E p \in Pids :
          /\ proc[p] = "none"
          /\ proc' = [proc EXCEPT ![p] = "new"]
          /\ pid' = [pid EXCEPT !["main"] = p]
    /\ Goto("main", "addjob")
    /\ UNCHANGED <<jobs, nextjid, pending, masked, ptr, grp, cmd, refused, keys, outcome>>

\* addjob's answer is ignored (220): a refused child runs on, untracked.
AddJob ==
    /\ At("main", "addjob")
    /\ addjob(pid["main"], IF cmd = "run_fg" THEN "FG" ELSE "BG")
    /\ refused' = IF Holding(0) = {} THEN refused \cup {pid["main"]} ELSE refused
    /\ Goto("main", "unblock")
    /\ UNCHANGED <<kernelVars, pid, ptr, grp, cmd, outcome>>

Unblock ==
    /\ At("main", "unblock")
    /\ masked' = {}
    /\ pid' = [pid EXCEPT !["main"] = 0]
    /\ Goto("main", IF cmd = "run_fg" THEN "wait_scan" ELSE "prompt")
    /\ UNCHANGED <<jobs, nextjid, proc, pending, ptr, grp, cmd, refused, keys, outcome>>

----------------------------------------------------------------------------
(* The main line: waitfg.  Both tests of its loop read the list anew.      *)

\* Fault: the loop does not end when there is no foreground job.
WaitScan_NoZero ==
    /\ At("main", "wait_scan")
    /\ \E p \in Pids : fgpid(p) /\ pid' = [pid EXCEPT !["main"] = p]
    /\ Goto("main", "wait_check")
    /\ UNCHANGED <<jobs, nextjid, kernelVars, ptr, grp, cmd, refused, outcome>>

WaitScan ==
    /\ At("main", "wait_scan")
    /\ \E p \in Pids \cup {0} :
          /\ fgpid(p)
          /\ pid' = [pid EXCEPT !["main"] = p]
          /\ Goto("main", IF p = 0 THEN "prompt" ELSE "wait_check")
    /\ UNCHANGED <<jobs, nextjid, kernelVars, ptr, grp, cmd, refused, outcome>>

\* Fault: waitfg looks once.
WaitCheck_Once ==
    /\ At("main", "wait_check")
    /\ Goto("main", "prompt")
    /\ pid' = [pid EXCEPT !["main"] = 0]
    /\ UNCHANGED <<jobs, nextjid, kernelVars, ptr, grp, cmd, refused, outcome>>

\* sleep(1) and look again while the job found is in the foreground.
WaitCheck ==
    /\ At("main", "wait_check")
    /\ \/ /\ \E i \in Slots : getjobpid(pid["main"], i) /\ jobs[i].state = "FG"
          /\ Goto("main", "wait_scan")
       \/ /\ \/ getjobpidNull(pid["main"])
             \/ \E i \in Slots : getjobpid(pid["main"], i) /\ jobs[i].state # "FG"
          /\ Goto("main", "prompt")
    /\ pid' = [pid EXCEPT !["main"] = 0]
    /\ UNCHANGED <<jobs, nextjid, kernelVars, ptr, grp, cmd, refused, outcome>>

----------------------------------------------------------------------------
(* The main line: do_bgfg.  No signal is blocked, and cur_job points into  *)
(* the list from the first step to the last.  A command whose id names no  *)
(* job prints a message and changes nothing.                               *)

ReadBgfg ==
    /\ At("main", "prompt")
    /\ \E c \in Commands \cap {"bg", "fg"} : cmd' = c
    /\ \E i \in Slots :
          /\ \/ \E p \in Pids : getjobpid(p, i)
             \/ getjobjid(jobs[i].jid, i)
          /\ jobs[i].state # "UNDEF"
          /\ ptr' = [ptr EXCEPT !["main"] = i]
    /\ Goto("main", "getpgid")
    /\ UNCHANGED <<jobs, nextjid, kernelVars, pid, grp, refused, outcome>>

BgfgGroup ==
    /\ At("main", "getpgid")
    /\ grp' = [grp EXCEPT !["main"] = getpgid(jobs[ptr["main"]].pid)]
    /\ Goto("main", IF cmd = "bg" THEN "bg_test" ELSE "fg_test")
    /\ UNCHANGED <<jobs, nextjid, kernelVars, pid, ptr, cmd, refused, outcome>>

\* do_bgfg is left for the prompt, or for waitfg.
Leave(s) ==
    /\ ptr' = [ptr EXCEPT !["main"] = 0]
    /\ grp' = [grp EXCEPT !["main"] = 0]
    /\ Goto("main", s)

BgTest ==
    /\ At("main", "bg_test")
    /\ IF jobs[ptr["main"]].state = "ST"
       THEN Goto("main", "bg_set") /\ UNCHANGED <<ptr, grp>>
       ELSE Leave("prompt")
    /\ UNCHANGED <<jobs, nextjid, kernelVars, pid, cmd, refused, outcome>>

BgSet ==
    /\ At("main", "bg_set")
    /\ setstate(ptr["main"], "BG")
    /\ Goto("main", "bg_kill")
    /\ UNCHANGED <<kernelVars, pid, ptr, grp, cmd, refused, outcome>>

FgTest ==
    /\ At("main", "fg_test")
    /\ Goto("main", IF jobs[ptr["main"]].state = "ST" THEN "fg_kill" ELSE "fg_set")
    /\ UNCHANGED <<jobs, nextjid, kernelVars, pid, ptr, grp, cmd, refused, outcome>>

FgSet ==
    /\ At("main", "fg_set")
    /\ setstate(ptr["main"], "FG")
    /\ Leave("wait_scan")
    /\ UNCHANGED <<kernelVars, pid, cmd, refused, outcome>>

\* kill(-g, SIGCONT) on a group that exists.
Continue(g) ==
    IF g \in Pids /\ proc[g] \in {"stopping", "stopped"}
    THEN Becomes(g, "running")
    ELSE NothingSent

BgKill ==
    /\ At("main", "bg_kill")
    /\ \/ killFails(grp["main"]) /\ Die("kill_error")
       \/ /\ ~killFails(grp["main"])
          /\ Continue(grp["main"])
          /\ Leave("prompt")
          /\ UNCHANGED <<jobs, nextjid, masked, pid, cmd, refused, keys, outcome>>

FgKill ==
    /\ At("main", "fg_kill")
    /\ \/ killFails(grp["main"]) /\ Die("kill_error")
       \/ /\ ~killFails(grp["main"])
          /\ Continue(grp["main"])
          /\ Goto("main", "fg_set")
          /\ UNCHANGED <<jobs, nextjid, masked, pid, ptr, grp, cmd, refused, keys, outcome>>

\* The built-in quit, end of input, and SIGQUIT from the driver.
Quit == At("main", "prompt") /\ "quit" \in Commands /\ Die("exit")
sigquit_handler == outcome = "up" /\ "quit" \in Commands /\ Die("exit")

----------------------------------------------------------------------------
(* sigchld_handler: one waitpid per delivery.                              *)

\* Faults: a stop counts as an end; a stop is reaped and not recorded.
ChldWait_StopIsEnd ==
    /\ At("CHLD", "waitpid")
    /\ \/ \E p \in Pids :
             /\ \/ proc[p] = "zombie" /\ proc' = [proc EXCEPT ![p] = "reaped"]
                \/ proc[p] = "stopping" /\ proc' = [proc EXCEPT ![p] = "stopped"]
             /\ pid' = [pid EXCEPT !["CHLD"] = p]
             /\ Goto("CHLD", "deletejob")
       \/ /\ \A p \in Pids : proc[p] \notin {"zombie", "stopping"}
          /\ Return("CHLD")
          /\ UNCHANGED <<proc, pid>>
    /\ UNCHANGED <<jobs, nextjid, pending, masked, ptr, grp, cmd, refused, keys, outcome>>
ChldWait_StopIsLost ==
    /\ At("CHLD", "waitpid")
    /\ \/ \E p \in Pids :
             /\ proc[p] = "zombie"
             /\ proc' = [proc EXCEPT ![p] = "reaped"]
             /\ pid' = [pid EXCEPT !["CHLD"] = p]
             /\ Goto("CHLD", "deletejob")
       \/ /\ \E p \in Pids : proc[p] = "stopping" /\ proc' = [proc EXCEPT ![p] = "stopped"]
          /\ Return("CHLD")
          /\ UNCHANGED pid
       \/ /\ \A p \in Pids : proc[p] \notin {"zombie", "stopping"}
          /\ Return("CHLD")
          /\ UNCHANGED <<proc, pid>>
    /\ UNCHANGED <<jobs, nextjid, pending, masked, ptr, grp, cmd, refused, keys, outcome>>

ChldWait ==
    /\ At("CHLD", "waitpid")
    /\ \/ \E p \in Pids :
             /\ \/ /\ proc[p] = "zombie"
                   /\ proc' = [proc EXCEPT ![p] = "reaped"]
                   /\ Goto("CHLD", "deletejob")
                \/ /\ proc[p] = "stopping"
                   /\ proc' = [proc EXCEPT ![p] = "stopped"]
                   /\ Goto("CHLD", "stopjob")
             /\ pid' = [pid EXCEPT !["CHLD"] = p]
       \/ /\ \A p \in Pids : proc[p] \notin {"zombie", "stopping"}
          /\ Return("CHLD")
          /\ UNCHANGED <<proc, pid>>
    /\ UNCHANGED <<jobs, nextjid, pending, masked, ptr, grp, cmd, refused, keys, outcome>>

\* Fault: the foreground job is deleted, whoever ended.
ChldDelete_Foreground ==
    /\ At("CHLD", "deletejob")
    /\ \E p \in Pids \cup {0} : fgpid(p) /\ deletejob(p)
    /\ pid' = [pid EXCEPT !["CHLD"] = 0]
    /\ Return("CHLD")
    /\ UNCHANGED <<kernelVars, ptr, grp, cmd, refused, outcome>>

ChldDelete ==
    /\ At("CHLD", "deletejob")
    /\ deletejob(pid["CHLD"])
    /\ pid' = [pid EXCEPT !["CHLD"] = 0]
    /\ Return("CHLD")
    /\ UNCHANGED <<kernelVars, ptr, grp, cmd, refused, outcome>>

\* Fault: the job is marked as running in the background.
ChldStop_MarksBG ==
    /\ At("CHLD", "stopjob")
    /\ \/ getjobpidNull(pid["CHLD"]) /\ Die("chld_null")
       \/ /\ \E i \in Slots : getjobpid(pid["CHLD"], i) /\ setstate(i, "BG")
          /\ pid' = [pid EXCEPT !["CHLD"] = 0]
          /\ Return("CHLD")
          /\ UNCHANGED <<kernelVars, ptr, grp, cmd, refused, outcome>>

\* The job is marked through the pointer getjobpid returned, NULL or not.
ChldStop ==
    /\ At("CHLD", "stopjob")
    /\ \/ getjobpidNull(pid["CHLD"]) /\ Die("chld_null")
       \/ /\ \E i \in Slots : getjobpid(pid["CHLD"], i) /\ setstate(i, "ST")
          /\ pid' = [pid EXCEPT !["CHLD"] = 0]
          /\ Return("CHLD")
          /\ UNCHANGED <<kernelVars, ptr, grp, cmd, refused, outcome>>

----------------------------------------------------------------------------
(* sigint_handler and sigtstp_handler.                                     *)

\* Both begin with the pid of the foreground job, and return without one.
Fgpid(h, next) ==
    /\ At(h, "fgpid")
    /\ \E p \in Pids \cup {0} :
          /\ fgpid(p)
          /\ pid' = [pid EXCEPT ![h] = p]
          /\ IF p = 0 THEN Return(h) ELSE Goto(h, next)
    /\ UNCHANGED <<jobs, nextjid, kernelVars, ptr, grp, cmd, refused, outcome>>

\* The handler returns and its locals are gone.
Finish(h) ==
    /\ Return(h)
    /\ pid' = [pid EXCEPT ![h] = 0]
    /\ ptr' = [ptr EXCEPT ![h] = 0]
    /\ grp' = [grp EXCEPT ![h] = 0]

IntFgpid == Fgpid("INT", "deref")

\* fg_job->state is read through a pointer that may be NULL; the message it
\* decides on is not modelled.
IntDeref ==
    /\ At("INT", "deref")
    /\ \/ getjobpidNull(pid["INT"]) /\ Die("int_null")
       \/ /\ ~getjobpidNull(pid["INT"])
          /\ Goto("INT", "getpgid")
          /\ UNCHANGED <<jobs, nextjid, kernelVars, pid, ptr, grp, cmd, refused, outcome>>

IntGroup ==
    /\ At("INT", "getpgid")
    /\ grp' = [grp EXCEPT !["INT"] = getpgid(pid["INT"])]
    /\ Goto("INT", "kill")
    /\ UNCHANGED <<jobs, nextjid, kernelVars, pid, ptr, cmd, refused, outcome>>

\* Fault: the signal sent is one the job may ignore.
IntKill_Ignored ==
    /\ At("INT", "kill")
    /\ \/ killFails(grp["INT"]) /\ Die("kill_error")
       \/ /\ ~killFails(grp["INT"])
          /\ NothingSent
          /\ Finish("INT")
          /\ UNCHANGED <<jobs, nextjid, masked, cmd, refused, keys, outcome>>

\* SIGKILL to the group; the shell itself dies when the group is its own.
IntKill ==
    /\ At("INT", "kill")
    /\ \/ killFails(grp["INT"]) /\ Die("kill_error")
       \/ grp["INT"] = ShellGroup /\ Die("killed")
       \/ /\ ~killFails(grp["INT"]) /\ grp["INT"] # ShellGroup
          /\ IF proc[grp["INT"]] \in Alive THEN Becomes(grp["INT"], "zombie")
             ELSE NothingSent
          /\ Finish("INT")
          /\ UNCHANGED <<jobs, nextjid, masked, cmd, refused, keys, outcome>>

TstpFgpid == Fgpid("TSTP", "test")

TstpTest ==
    /\ At("TSTP", "test")
    /\ \/ \E i \in Slots :
             /\ getjobpid(pid["TSTP"], i)
             /\ jobs[i].state = "FG"
             /\ ptr' = [ptr EXCEPT !["TSTP"] = i]
             /\ Goto("TSTP", "getpgid")
             /\ UNCHANGED <<pid, grp>>
       \/ /\ \/ getjobpidNull(pid["TSTP"])
             \/ \E i \in Slots : getjobpid(pid["TSTP"], i) /\ jobs[i].state # "FG"
          /\ Finish("TSTP")
    /\ UNCHANGED <<jobs, nextjid, kernelVars, cmd, refused, outcome>>

\* The pid is read again through fg_job: 0 when the slot was cleared since.
TstpGroup ==
    /\ At("TSTP", "getpgid")
    /\ grp' = [grp EXCEPT !["TSTP"] = getpgid(jobs[ptr["TSTP"]].pid)]
    /\ Goto("TSTP", "kill")
    /\ UNCHANGED <<jobs, nextjid, kernelVars, pid, ptr, cmd, refused, outcome>>

\* SIGTSTP to the group: it becomes pending for the shell when the group is
\* its own; a child may catch or ignore it.
TstpKill ==
    /\ At("TSTP", "kill")
    /\ \/ killFails(grp["TSTP"]) /\ Die("kill_error")
       \/ /\ ~killFails(grp["TSTP"])
          /\ \/ /\ grp["TSTP"] = ShellGroup
                /\ pending' = pending \cup {"TSTP"}
                /\ UNCHANGED proc
             \/ /\ grp["TSTP"] # ShellGroup
                /\ proc[grp["TSTP"]] = "running"
                /\ Becomes(grp["TSTP"], "stopping")
             \/ grp["TSTP"] # ShellGroup /\ NothingSent
          /\ Finish("TSTP")
          /\ UNCHANGED <<jobs, nextjid, masked, cmd, refused, keys, outcome>>

----------------------------------------------------------------------------
(* Children and the user.                                                  *)

OutsideUnchanged == UNCHANGED <<jobs, nextjid, masked, shellVars, refused, outcome>>

ChildSetpgid(p) ==
    /\ outcome = "up" /\ proc[p] = "new"
    /\ proc' = [proc EXCEPT ![p] = "running"]
    /\ UNCHANGED <<pending, keys>> /\ OutsideUnchanged

\* The child exits, or a signal kills it.
ChildExit(p) ==
    /\ outcome = "up" /\ proc[p] \in Alive
    /\ Becomes(p, "zombie")
    /\ UNCHANGED keys /\ OutsideUnchanged

\* Somebody else, or the child itself (mystop.c), stops or continues it.
ChildStop(p) ==
    /\ outcome = "up" /\ proc[p] = "running"
    /\ Becomes(p, "stopping")
    /\ UNCHANGED keys /\ OutsideUnchanged

ChildContinue(p) ==
    /\ outcome = "up" /\ proc[p] \in {"stopping", "stopped"}
    /\ Becomes(p, "running")
    /\ UNCHANGED keys /\ OutsideUnchanged

Type(s) ==
    /\ outcome = "up" /\ keys < MaxKeys
    /\ keys' = keys + 1
    /\ pending' = pending \cup {s}
    /\ UNCHANGED proc /\ OutsideUnchanged

----------------------------------------------------------------------------
MainLine == ReadRun \/ Fork \/ AddJob \/ Unblock \/ WaitScan \/ WaitCheck
            \/ ReadBgfg \/ BgfgGroup \/ BgTest \/ BgSet \/ BgKill
            \/ FgTest \/ FgKill \/ FgSet \/ Quit

Handlers == ChldWait \/ ChldDelete \/ ChldStop
            \/ IntFgpid \/ IntDeref \/ IntGroup \/ IntKill
            \/ TstpFgpid \/ TstpTest \/ TstpGroup \/ TstpKill
            \/ sigquit_handler

Interrupts == \E h \in Signals : Deliver(h)

Outside == \/ \E p \in Pids : ChildSetpgid(p) \/ ChildExit(p) \/ ChildStop(p)
                              \/ ChildContinue(p)
           \/ \E s \in Keys : Type(s)

Next == MainLine \/ Handlers \/ Interrupts \/ Outside

Spec == Init /\ [][Next]_vars

\* The scheduler lets every runnable process move.  The shell is strongly
\* fair: signals that keep arriving take the processor from an interrupted
\* context again and again, but never at each of its instructions.  Commands
\* need not be typed, nor need children end.
MainWork == Fork \/ AddJob \/ Unblock \/ WaitScan \/ WaitCheck \/ BgfgGroup
            \/ BgTest \/ BgSet \/ BgKill \/ FgTest \/ FgKill \/ FgSet
HandlerWork(h) ==
    /\ top = h
    /\ \/ ChldWait \/ ChldDelete \/ ChldStop
       \/ IntFgpid \/ IntDeref \/ IntGroup \/ IntKill
       \/ TstpFgpid \/ TstpTest \/ TstpGroup \/ TstpKill

Fairness == /\ SF_vars(MainWork)
            /\ \A h \in Signals : SF_vars(HandlerWork(h)) /\ SF_vars(Deliver(h))
            /\ \A p \in Pids : WF_vars(ChildSetpgid(p))

FairSpec == Spec /\ Fairness

----------------------------------------------------------------------------
(* Properties.                                                             *)

TypeOK ==
    /\ ListTypeOK
    /\ proc \in [Pids -> ProcStates]
    /\ pending \subseteq Signals
    /\ masked \subseteq Signals
    /\ stack \in Seq(Signals)
    /\ pc \in [Contexts -> MainSteps \cup HandlerSteps]
    /\ pc["main"] \in MainSteps
    /\ \A h \in Signals : pc[h] \in HandlerSteps
    /\ pid \in [Contexts -> Pids \cup {0}]
    /\ ptr \in [Contexts -> Slots \cup {0}]
    /\ grp \in [Contexts -> Groups]
    /\ cmd \in AllCommands
    /\ refused \subseteq Pids
    /\ keys \in 0..MaxKeys
    /\ outcome \in Outcomes

\* Children the kernel still keeps for the shell.
Unreaped == {p \in Pids : proc[p] \notin {"none", "reaped"}}

\* Every job in the list is a child that exists, or one that sigchld_handler
\* has just reaped and is about to delete.  Blocking SIGCHLD around fork and
\* addjob (193-225) is what makes this hold: a job added after its child was
\* reaped would never leave the list.
JobsAreChildren ==
    \A i \in Slots : jobs[i].pid # 0 =>
        \/ jobs[i].pid \in Unreaped
        \/ pc["CHLD"] = "deletejob" /\ pid["CHLD"] = jobs[i].pid

\* Every child that exists is in the list, or between fork and addjob, or was
\* refused by addjob for want of a slot.
ChildrenAreJobs ==
    \A p \in Unreaped :
        \/ p \in Listed
        \/ p \in refused
        \/ pc["main"] = "addjob" /\ pid["main"] = p

\* "At most 1 job can be in the FG state" (tsh.c:35).
AtMostOneFG == Cardinality(Foreground) <= 1

\* The prompt is back only when no job is left in the foreground: waitfg
\* returns neither early nor with another job still marked FG.
NoFGAtPrompt == At("main", "prompt") => Foreground = {}

\* A stop that waitpid has reported is in the list: the job is marked ST until
\* something continues it.  "bg" marks the job before it sends SIGCONT.
StopsAreListed ==
    \A i \in Slots : jobs[i].pid # 0 /\ proc[jobs[i].pid] = "stopped" =>
        \/ jobs[i].state = "ST"
        \/ pc["CHLD"] = "stopjob" /\ pid["CHLD"] = jobs[i].pid
        \/ pc["main"] = "bg_kill" /\ ptr["main"] = i

\* What ends the shell other than quit.  A stop report finds no job only for
\* a refused child (391); ctrl-c finds no job only when its child was reaped
\* between the handler's two lookups (428); without bg and fg, a signal fails
\* only when the foreground child was reaped under the handler (436, 455).
EndsHaveCauses ==
    /\ outcome = "chld_null" => pid["CHLD"] \in refused
    /\ outcome = "int_null" => \E p \in Pids : pid["INT"] = p /\ proc[p] = "reaped"
    /\ outcome = "kill_error" =>
          \/ Commands \cap {"bg", "fg"} # {}
          \/ \E h \in {"INT", "TSTP"}, p \in Pids :
                h = top /\ pid[h] = p /\ proc[p] = "reaped"

\* The state of the job of p, wherever its slot is; a slot that do_bgfg has
\* marked after its job left is nobody's job.
JobOf(p) ==
    IF p \in Listed THEN jobs[CHOOSE i \in Slots : getjobpid(p, i)].state
    ELSE IF proc[p] = "reaped" /\ p \notin refused THEN "gone"
    ELSE "none"

JC == INSTANCE JobControl WITH job <- [p \in Pids |-> JobOf(p)]

\* The shell implements the job control of tsh.c:20-36, whatever handler runs
\* between two steps of do_bgfg: a job is started once and ends once, keeps
\* its state when another's slot changes, and no step takes it from the
\* foreground to the background or revives it except bg and fg.
ImplementsJobControl == JC!Spec

\* A job leaves the list only after its child was reaped, and a slot is given
\* to another job only after the old one left.
LeavesReaped ==
    \A i \in Slots :
        jobs[i].pid # 0 /\ jobs'[i].pid # jobs[i].pid
            => jobs'[i].pid = 0 /\ proc[jobs[i].pid] = "reaped"
JobsLeaveReaped == [][LeavesReaped]_vars

\* ctrl-c kills only what runs, or ran until a moment ago, in the foreground:
\* a job in the background is not killed (tsh.c:171, 419).
KillsForeground ==
    top = "INT" /\ pc["INT"] = "kill" /\ pc'["INT"] = "idle" =>
        \A p \in Pids : proc[p] \in Alive /\ proc'[p] = "zombie" =>
            \A i \in Slots : jobs[i].pid = p => jobs[i].state # "BG"
CtrlCSparesBackground == [][KillsForeground]_vars

Waiting == pc["main"] \in {"wait_scan", "wait_check"}

\* The prompt comes back once no job is in the foreground.
WaitfgEnds == (Waiting /\ Foreground = {}) ~> (outcome # "up" \/ ~Waiting)

\* A ctrl-c reaches the foreground job (sigint_handler, 418): the job is dead
\* or has stopped being the foreground job before the signal is forgotten.
CtrlCEndsForeground ==
    \A i \in Slots :
        ("INT" \in pending /\ jobs[i].state = "FG")
            ~> (outcome # "up" \/ jobs[i].state # "FG" \/ proc[jobs[i].pid] \notin Alive)

----------------------------------------------------------------------------
(* What comments of tsh.c say and its code does not do.                    *)

\* "The handler reaps all available zombie children" (365): a zombie does not
\* stay, nor does its job.
ZombiesAreReaped == \A p \in Pids : proc[p] = "zombie" ~> (outcome # "up" \/ proc[p] = "reaped")
=============================================================================
