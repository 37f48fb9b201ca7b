----------------------------- MODULE JobControl -----------------------------
(***************************************************************************)
(* What the shell's job control promises: the life of a job as the comment *)
(* at 05-shell-lab/tsh.c:20-36 tells it, without slots, signals, handlers  *)
(* or system calls.  A job is started once, in the foreground or in the    *)
(* background; it stops when it is told to, is revived by bg or fg, and    *)
(* ends once.  Tsh implements this module.                                 *)
(***************************************************************************)
CONSTANT Pids

VARIABLE job    \* job[p]: the state of the job p; "none" before, "gone" after

Init == job = [p \in Pids |-> "none"]

Turns(p, from, to) == job[p] \in from /\ job' = [job EXCEPT ![p] = to]

\* eval lists the child; there is no other way into the list.
Start(p) == Turns(p, {"none"}, "FG") \/ Turns(p, {"none"}, "BG")

\* A stop: the comment names FG -> ST only, but a job in the background
\* stops, too.
Stop(p) == Turns(p, {"FG", "BG"}, "ST")

\* The commands bg and fg.
Bg(p) == Turns(p, {"ST"}, "BG")
Fg(p) == Turns(p, {"ST", "BG"}, "FG")

End(p) == Turns(p, {"FG", "BG", "ST"}, "gone")

Next == \E p \in Pids : Start(p) \/ Stop(p) \/ Bg(p) \/ Fg(p) \/ End(p)
Spec == Init /\ [][Next]_job
=============================================================================
