----------------------------- MODULE TshProofs -----------------------------
(***************************************************************************)
(* Proofs about Tsh, for every number of slots, every set of pids and      *)
(* every set of commands and keys.                                         *)
(***************************************************************************)
EXTENDS Tsh, SequenceTheorems, FiniteSetTheorems, TLAPS

----------------------------------------------------------------------------
(* Lemmas about the job list.                                              *)

\* addjob keeps the type of the list.
LEMMA AddjobType ==
    ASSUME ListTypeOK, NEW p \in Pids \cup {0}, NEW s \in {"FG", "BG"}, addjob(p, s)
    PROVE  ListTypeOK'
<1> USE MAXJOBSAssumption DEF ListTypeOK, job_t, JobStates, listVars
<1>1. CASE Holding(0) = {} /\ UNCHANGED listVars
  BY <1>1
<1>2. ASSUME NEW i \in Slots,
             jobs' = [jobs EXCEPT ![i] = [pid |-> p, jid |-> nextjid, state |-> s]],
             nextjid' = IF nextjid + 1 > MAXJOBS THEN 1 ELSE nextjid + 1
      PROVE  ListTypeOK'
  BY <1>2
<1> QED BY <1>1, <1>2 DEF addjob

\* deletejob keeps the type of the list.
LEMMA DeletejobType ==
    ASSUME ListTypeOK, NEW p, deletejob(p)
    PROVE  ListTypeOK'
<1>1. CASE getjobpidNull(p) /\ UNCHANGED listVars
  BY <1>1 DEF ListTypeOK, listVars
<1>2. ASSUME NEW i \in Slots, jobs' = [jobs EXCEPT ![i] = clearjob],
             NEW m \in {jobs'[k].jid : k \in Slots} \cup {0}, nextjid' = m + 1
      PROVE  ListTypeOK'
  <2>1. jobs' \in [Slots -> job_t]
    BY <1>2 DEF ListTypeOK, job_t, clearjob, JobStates
  <2>2. m \in Nat
    BY <2>1 DEF job_t
  <2> QED BY <2>1, <2>2, <1>2 DEF ListTypeOK
<1> QED BY <1>1, <1>2 DEF deletejob

\* So does a change of the state of a job.
LEMMA SetstateType ==
    ASSUME ListTypeOK, NEW i \in Slots, NEW s \in JobStates, setstate(i, s)
    PROVE  ListTypeOK'
BY DEF ListTypeOK, job_t, setstate

\* fgpid returns a pid or 0.
LEMMA FgpidType ==
    ASSUME ListTypeOK, NEW p, fgpid(p)
    PROVE  p \in Pids \cup {0}
BY DEF ListTypeOK, job_t, fgpid

----------------------------------------------------------------------------
(* Type correctness.                                                       *)

\* The running context is the main line or one of the handlers.
LEMMA TopType == ASSUME stack \in Seq(Signals) PROVE top \in Contexts
BY DEF top, Contexts

\* The main line going on to another of its steps keeps the types.
LEMMA GotoMainType ==
    ASSUME TypeOK, NEW s \in MainSteps, Goto("main", s)
    PROVE  /\ stack' \in Seq(Signals)
           /\ pc' \in [Contexts -> MainSteps \cup HandlerSteps]
           /\ pc'["main"] \in MainSteps
           /\ \A h \in Signals : pc'[h] \in HandlerSteps
BY DEF TypeOK, Goto, Contexts, Signals

\* So does a handler going on,
LEMMA GotoHandlerType ==
    ASSUME TypeOK, NEW h \in Signals, NEW s \in HandlerSteps, Goto(h, s)
    PROVE  /\ stack' \in Seq(Signals)
           /\ pc' \in [Contexts -> MainSteps \cup HandlerSteps]
           /\ pc'["main"] \in MainSteps
           /\ \A k \in Signals : pc'[k] \in HandlerSteps
BY DEF TypeOK, Goto, Contexts, Signals

\* and the return of the running handler.
LEMMA ReturnType ==
    ASSUME TypeOK, NEW h \in Signals, top = h, Return(h)
    PROVE  /\ stack' \in Seq(Signals)
           /\ pc' \in [Contexts -> MainSteps \cup HandlerSteps]
           /\ pc'["main"] \in MainSteps
           /\ \A k \in Signals : pc'[k] \in HandlerSteps
<1>1. stack # <<>>
  BY DEF top, Signals
<1>2. SubSeq(stack, 1, Len(stack) - 1) \in Seq(Signals)
  BY <1>1 DEF TypeOK
<1>3. stack' \in Seq(Signals)
  BY <1>2 DEF Return
<1>4. "idle" \in HandlerSteps
  BY DEF HandlerSteps
<1> QED BY <1>3, <1>4 DEF TypeOK, Return, Contexts, Signals

\* getpgid returns a group.
LEMMA GetpgidType == ASSUME NEW p \in Pids \cup {0} PROVE getpgid(p) \in Groups
BY DEF getpgid, Groups, ShellGroup, NoGroup

\* The initial state is well typed.
LEMMA InitType == ASSUME Init PROVE TypeOK
<1>1. ListTypeOK
  BY DEF Init, initjobs, ListTypeOK, job_t, clearjob, JobStates
<1>2. /\ pc \in [Contexts -> MainSteps \cup HandlerSteps]
      /\ pc["main"] \in MainSteps
      /\ \A h \in Signals : pc[h] \in HandlerSteps
  BY DEF Init, Contexts, Signals, MainSteps, HandlerSteps
<1> QED
  BY <1>1, <1>2, KeysAssumption
  DEF Init, TypeOK, ProcStates, Signals, Contexts, Groups, ShellGroup,
      AllCommands, Outcomes

\* TypeOK is not inductive: the pointers that do_bgfg and sigtstp_handler
\* follow must not be NULL, nor the pid that eval adds 0, while they are used.
PointersSet ==
    /\ pc["main"] \in {"getpgid", "bg_test", "bg_set", "bg_kill",
                       "fg_test", "fg_kill", "fg_set"} => ptr["main"] \in Slots
    /\ pc["main"] = "addjob" => pid["main"] \in Pids
    /\ pc["TSTP"] = "getpgid" => ptr["TSTP"] \in Slots

\* Every step keeps the types.
LEMMA NextType == ASSUME TypeOK, PointersSet, [Next]_vars PROVE TypeOK'
<1> USE DEF TypeOK, At
<1> DEFINE StepsOK == /\ stack' \in Seq(Signals)
                      /\ pc' \in [Contexts -> MainSteps \cup HandlerSteps]
                      /\ pc'["main"] \in MainSteps
                      /\ \A k \in Signals : pc'[k] \in HandlerSteps
<1>0. /\ {"main", "CHLD", "INT", "TSTP"} = Contexts
      /\ {"CHLD", "INT", "TSTP"} = Signals
  BY DEF Contexts, Signals
<1>a. ASSUME NEW how \in Outcomes, Die(how) PROVE TypeOK'
  BY <1>a DEF Die, shellVars, ListTypeOK
<1>b. ASSUME NEW p \in Pids, NEW s \in ProcStates, Becomes(p, s)
      PROVE  proc' \in [Pids -> ProcStates] /\ pending' \subseteq Signals
  BY <1>b, <1>0 DEF Becomes
<1>c. ASSUME NEW h \in Signals, top = h, Finish(h)
      PROVE  /\ StepsOK
             /\ pid' \in [Contexts -> Pids \cup {0}]
             /\ ptr' \in [Contexts -> Slots \cup {0}]
             /\ grp' \in [Contexts -> Groups]
  <2>1. StepsOK
    BY <1>c, ReturnType DEF Finish
  <2> QED BY <2>1, <1>c, <1>0 DEF Finish, Groups, ShellGroup
<1>d. ASSUME NEW s \in MainSteps, Leave(s)
      PROVE  /\ StepsOK
             /\ ptr' \in [Contexts -> Slots \cup {0}]
             /\ grp' \in [Contexts -> Groups]
  <2>1. StepsOK
    BY <1>d, GotoMainType DEF Leave
  <2> QED BY <2>1, <1>d, <1>0 DEF Leave, Groups, ShellGroup
<1>e. ASSUME NEW g, Continue(g)
      PROVE  proc' \in [Pids -> ProcStates] /\ pending' \subseteq Signals
  BY <1>e, <1>b DEF Continue, NothingSent, ProcStates
<1>f. ASSUME NEW h \in {"INT", "TSTP"}, NEW next \in {"deref", "test"}, Fgpid(h, next)
      PROVE  TypeOK'
  <2>1. PICK p \in Pids \cup {0} :
           /\ pid' = [pid EXCEPT ![h] = p]
           /\ IF p = 0 THEN Return(h) ELSE Goto(h, next)
    BY <1>f DEF Fgpid
  <2>2. h \in Signals /\ top = h /\ next \in HandlerSteps
    BY <1>f, <1>0 DEF Fgpid, HandlerSteps
  <2>3. StepsOK
    BY <2>1, <2>2, ReturnType, GotoHandlerType
  <2> QED BY <1>f, <2>1, <2>2, <2>3, <1>0 DEF Fgpid, ListTypeOK, kernelVars
<1>1. ASSUME ReadRun PROVE TypeOK'
  <2>1. StepsOK
    BY <1>1, GotoMainType DEF ReadRun, MainSteps
  <2>2. cmd' \in AllCommands
    BY <1>1, CommandsAssumption DEF ReadRun
  <2>3. masked' \subseteq Signals
    BY <1>1, <1>0 DEF ReadRun
  <2> QED BY <1>1, <2>1, <2>2, <2>3 DEF ReadRun, ListTypeOK
<1>2. ASSUME Fork PROVE TypeOK'
  <2>1. StepsOK
    BY <1>2, GotoMainType DEF Fork, MainSteps
  <2>2. proc' \in [Pids -> ProcStates] /\ pid' \in [Contexts -> Pids \cup {0}]
    BY <1>2, <1>0 DEF Fork, ProcStates
  <2> QED BY <1>2, <2>1, <2>2 DEF Fork, ListTypeOK
<1>3. ASSUME AddJob PROVE TypeOK'
  <2>1. StepsOK
    BY <1>3, GotoMainType DEF AddJob, MainSteps
  <2>2. pid["main"] \in Pids
    BY <1>3 DEF AddJob, PointersSet
  <2>3. ListTypeOK'
    BY <1>3, <2>2, AddjobType DEF AddJob
  <2>4. refused' \subseteq Pids
    BY <1>3, <2>2 DEF AddJob
  <2> QED BY <1>3, <2>1, <2>3, <2>4 DEF AddJob, kernelVars
<1>4. ASSUME Unblock PROVE TypeOK'
  <2>1. StepsOK
    BY <1>4, GotoMainType DEF Unblock, MainSteps
  <2> QED BY <1>4, <2>1, <1>0 DEF Unblock, ListTypeOK, kernelVars
<1>5. ASSUME WaitScan PROVE TypeOK'
  <2>1. PICK p \in Pids \cup {0} :
           /\ pid' = [pid EXCEPT !["main"] = p]
           /\ Goto("main", IF p = 0 THEN "prompt" ELSE "wait_check")
    BY <1>5 DEF WaitScan
  <2>2. StepsOK
    BY <2>1, GotoMainType DEF MainSteps
  <2>3. pid' \in [Contexts -> Pids \cup {0}]
    BY <2>1, <1>0
  <2> QED BY <1>5, <2>2, <2>3 DEF WaitScan, ListTypeOK, kernelVars
<1>6. ASSUME WaitCheck PROVE TypeOK'
  <2>1. StepsOK
    BY <1>6, GotoMainType DEF WaitCheck, MainSteps
  <2> QED BY <1>6, <2>1, <1>0 DEF WaitCheck, ListTypeOK, kernelVars
<1>7. ASSUME ReadBgfg PROVE TypeOK'
  <2>1. StepsOK
    BY <1>7, GotoMainType DEF ReadBgfg, MainSteps
  <2>2. ptr' \in [Contexts -> Slots \cup {0}]
    BY <1>7, <1>0 DEF ReadBgfg
  <2>3. cmd' \in AllCommands
    BY <1>7, CommandsAssumption DEF ReadBgfg
  <2> QED BY <1>7, <2>1, <2>2, <2>3 DEF ReadBgfg, ListTypeOK, kernelVars
<1>8. ASSUME BgfgGroup PROVE TypeOK'
  <2>1. StepsOK
    BY <1>8, GotoMainType DEF BgfgGroup, MainSteps
  <2>2. jobs[ptr["main"]].pid \in Pids \cup {0}
    BY <1>8 DEF BgfgGroup, PointersSet, ListTypeOK, job_t
  <2>3. grp' \in [Contexts -> Groups]
    BY <1>8, <2>2, <1>0, GetpgidType DEF BgfgGroup
  <2> QED BY <1>8, <2>1, <2>3 DEF BgfgGroup, ListTypeOK, kernelVars
<1>9. ASSUME BgTest PROVE TypeOK'
  <2>1. CASE Goto("main", "bg_set") /\ UNCHANGED <<ptr, grp>>
    <3>1. StepsOK
      BY <2>1, GotoMainType DEF MainSteps
    <3> QED BY <1>9, <2>1, <3>1 DEF BgTest, ListTypeOK, kernelVars
  <2>2. CASE Leave("prompt")
    BY <1>9, <2>2, <1>d DEF BgTest, MainSteps, ListTypeOK, kernelVars
  <2> QED BY <1>9, <2>1, <2>2 DEF BgTest
<1>10. ASSUME BgSet PROVE TypeOK'
  <2>1. StepsOK
    BY <1>10, GotoMainType DEF BgSet, MainSteps
  <2>2. ListTypeOK'
    BY <1>10, SetstateType DEF BgSet, PointersSet, JobStates
  <2> QED BY <1>10, <2>1, <2>2 DEF BgSet, kernelVars
<1>11. ASSUME BgKill PROVE TypeOK'
  <2>1. CASE Die("kill_error")
    BY <2>1, <1>a DEF Outcomes
  <2>2. CASE /\ Continue(grp["main"])
             /\ Leave("prompt")
             /\ UNCHANGED <<jobs, nextjid, masked, pid, cmd, refused, keys, outcome>>
    <3>1. "prompt" \in MainSteps
      BY DEF MainSteps
    <3> QED BY <2>2, <3>1, <1>d, <1>e DEF ListTypeOK
  <2> QED BY <1>11, <2>1, <2>2 DEF BgKill
<1>12. ASSUME FgTest PROVE TypeOK'
  <2>1. StepsOK
    BY <1>12, GotoMainType DEF FgTest, MainSteps
  <2> QED BY <1>12, <2>1, <1>0 DEF FgTest, ListTypeOK, kernelVars
<1>13. ASSUME FgKill PROVE TypeOK'
  <2>1. CASE Die("kill_error")
    BY <2>1, <1>a DEF Outcomes
  <2>2. CASE /\ Continue(grp["main"])
             /\ Goto("main", "fg_set")
             /\ UNCHANGED <<jobs, nextjid, masked, pid, ptr, grp, cmd, refused, keys, outcome>>
    <3>1. StepsOK
      BY <2>2, GotoMainType DEF MainSteps
    <3> QED BY <2>2, <3>1, <1>e DEF ListTypeOK
  <2> QED BY <1>13, <2>1, <2>2 DEF FgKill
<1>14. ASSUME FgSet PROVE TypeOK'
  <2>1. "wait_scan" \in MainSteps
    BY DEF MainSteps
  <2>2. ListTypeOK'
    BY <1>14, SetstateType DEF FgSet, PointersSet, JobStates
  <2> QED BY <1>14, <2>1, <2>2, <1>d DEF FgSet, kernelVars
<1>15. ASSUME Quit \/ sigquit_handler PROVE TypeOK'
  BY <1>15, <1>a DEF Quit, sigquit_handler, Outcomes
<1>16. ASSUME ChldWait PROVE TypeOK'
  <2>1. CASE /\ Return("CHLD")
             /\ UNCHANGED <<proc, pid>>
    <3>1. StepsOK
      BY <1>16, <2>1, <1>0, ReturnType DEF ChldWait
    <3> QED BY <1>16, <2>1, <3>1 DEF ChldWait, ListTypeOK
  <2>2. ASSUME NEW p \in Pids, NEW s \in {"reaped", "stopped"},
               NEW n \in {"deletejob", "stopjob"},
               proc' = [proc EXCEPT ![p] = s], Goto("CHLD", n),
               pid' = [pid EXCEPT !["CHLD"] = p]
        PROVE  TypeOK'
    <3>1. StepsOK
      BY <2>2, <1>0, GotoHandlerType DEF HandlerSteps
    <3>2. proc' \in [Pids -> ProcStates]
      BY <2>2 DEF ProcStates
    <3>3. pid' \in [Contexts -> Pids \cup {0}]
      BY <2>2, <1>0
    <3> QED BY <1>16, <3>1, <3>2, <3>3 DEF ChldWait, ListTypeOK
  <2> QED BY <1>16, <2>1, <2>2 DEF ChldWait
<1>17. ASSUME ChldDelete PROVE TypeOK'
  <2>1. StepsOK
    BY <1>17, <1>0, ReturnType DEF ChldDelete
  <2>2. ListTypeOK'
    BY <1>17, DeletejobType DEF ChldDelete
  <2> QED BY <1>17, <2>1, <2>2, <1>0 DEF ChldDelete, kernelVars
<1>18. ASSUME ChldStop PROVE TypeOK'
  <2>1. CASE Die("chld_null")
    BY <2>1, <1>a DEF Outcomes
  <2>2. ASSUME NEW i \in Slots, setstate(i, "ST"), Return("CHLD"),
               pid' = [pid EXCEPT !["CHLD"] = 0],
               UNCHANGED <<kernelVars, ptr, grp, cmd, refused, outcome>>
        PROVE  TypeOK'
    <3>1. StepsOK
      BY <1>18, <2>2, <1>0, ReturnType DEF ChldStop
    <3>2. ListTypeOK'
      BY <2>2, SetstateType DEF JobStates
    <3> QED BY <2>2, <3>1, <3>2, <1>0 DEF kernelVars
  <2> QED BY <1>18, <2>1, <2>2 DEF ChldStop
<1>19. ASSUME IntFgpid \/ TstpFgpid PROVE TypeOK'
  BY <1>19, <1>f DEF IntFgpid, TstpFgpid
<1>20. ASSUME IntDeref PROVE TypeOK'
  <2>1. CASE Die("int_null")
    BY <2>1, <1>a DEF Outcomes
  <2>2. CASE /\ Goto("INT", "getpgid")
             /\ UNCHANGED <<jobs, nextjid, kernelVars, pid, ptr, grp, cmd, refused, outcome>>
    <3>1. StepsOK
      BY <2>2, <1>0, GotoHandlerType DEF HandlerSteps
    <3> QED BY <2>2, <3>1 DEF ListTypeOK, kernelVars
  <2> QED BY <1>20, <2>1, <2>2 DEF IntDeref
<1>21. ASSUME IntGroup PROVE TypeOK'
  <2>1. StepsOK
    BY <1>21, <1>0, GotoHandlerType DEF IntGroup, HandlerSteps
  <2>2. grp' \in [Contexts -> Groups]
    BY <1>21, <1>0, GetpgidType DEF IntGroup
  <2> QED BY <1>21, <2>1, <2>2 DEF IntGroup, ListTypeOK, kernelVars
<1>22. ASSUME IntKill PROVE TypeOK'
  <2>1. CASE Die("kill_error") \/ Die("killed")
    BY <2>1, <1>a DEF Outcomes
  <2>2. CASE /\ ~killFails(grp["INT"]) /\ grp["INT"] # ShellGroup
             /\ IF proc[grp["INT"]] \in Alive THEN Becomes(grp["INT"], "zombie")
                ELSE NothingSent
             /\ Finish("INT")
             /\ UNCHANGED <<jobs, nextjid, masked, cmd, refused, keys, outcome>>
    <3>1. grp["INT"] \in Pids
      BY <2>2, <1>0 DEF killFails, Groups
    <3>2. proc' \in [Pids -> ProcStates] /\ pending' \subseteq Signals
      BY <2>2, <3>1, <1>b DEF NothingSent, ProcStates
    <3>3. "INT" \in Signals /\ top = "INT"
      BY <1>22, <1>0 DEF IntKill
    <3> QED BY <2>2, <3>2, <3>3, <1>c DEF ListTypeOK
  <2> QED BY <1>22, <2>1, <2>2 DEF IntKill
<1>23. ASSUME TstpTest PROVE TypeOK'
  <2>1. ASSUME NEW i \in Slots, ptr' = [ptr EXCEPT !["TSTP"] = i],
               Goto("TSTP", "getpgid"), UNCHANGED <<pid, grp>>
        PROVE  TypeOK'
    <3>1. StepsOK
      BY <2>1, <1>0, GotoHandlerType DEF HandlerSteps
    <3>2. ptr' \in [Contexts -> Slots \cup {0}]
      BY <2>1, <1>0
    <3> QED BY <1>23, <2>1, <3>1, <3>2 DEF TstpTest, ListTypeOK, kernelVars
  <2>2. CASE Finish("TSTP")
    <3>1. "TSTP" \in Signals /\ top = "TSTP"
      BY <1>23, <1>0 DEF TstpTest
    <3> QED BY <1>23, <2>2, <3>1, <1>c DEF TstpTest, ListTypeOK, kernelVars
  <2> QED BY <1>23, <2>1, <2>2 DEF TstpTest
<1>24. ASSUME TstpGroup PROVE TypeOK'
  <2>1. StepsOK
    BY <1>24, <1>0, GotoHandlerType DEF TstpGroup, HandlerSteps
  <2>2. jobs[ptr["TSTP"]].pid \in Pids \cup {0}
    BY <1>24 DEF TstpGroup, PointersSet, ListTypeOK, job_t
  <2>3. grp' \in [Contexts -> Groups]
    BY <1>24, <2>2, <1>0, GetpgidType DEF TstpGroup
  <2> QED BY <1>24, <2>1, <2>3 DEF TstpGroup, ListTypeOK, kernelVars
<1>25. ASSUME TstpKill PROVE TypeOK'
  <2>1. CASE Die("kill_error")
    BY <2>1, <1>a DEF Outcomes
  <2>2. CASE ~killFails(grp["TSTP"]) /\ ~Die("kill_error")
    <3>1. proc' \in [Pids -> ProcStates] /\ pending' \subseteq Signals
      <4>1. CASE grp["TSTP"] = ShellGroup
        BY <1>25, <2>2, <4>1, <1>0 DEF TstpKill
      <4>2. CASE grp["TSTP"] # ShellGroup
        <5>1. grp["TSTP"] \in Pids
          BY <2>2, <4>2, <1>0 DEF killFails, Groups
        <5> QED BY <1>25, <2>2, <4>2, <5>1, <1>b DEF TstpKill, NothingSent, ProcStates
      <4> QED BY <4>1, <4>2
    <3>2. "TSTP" \in Signals /\ top = "TSTP" /\ Finish("TSTP")
      BY <1>25, <2>2, <1>0 DEF TstpKill
    <3> QED BY <1>25, <2>2, <3>1, <3>2, <1>c DEF TstpKill, ListTypeOK
  <2> QED BY <1>25, <2>1, <2>2 DEF TstpKill
<1>26. ASSUME Interrupts PROVE TypeOK'
  <2>1. PICK h \in Signals : Deliver(h)
    BY <1>26 DEF Interrupts
  <2>2. StepsOK
    BY <2>1, <1>0 DEF Deliver, Entry, HandlerSteps
  <2> QED BY <2>1, <2>2 DEF Deliver, ListTypeOK
<1>27. ASSUME Outside PROVE TypeOK'
  <2>1. ASSUME NEW p \in Pids,
               ChildSetpgid(p) \/ ChildExit(p) \/ ChildStop(p) \/ ChildContinue(p)
        PROVE  TypeOK'
    <3>1. proc' \in [Pids -> ProcStates] /\ pending' \subseteq Signals
      BY <2>1, <1>b DEF ChildSetpgid, ChildExit, ChildStop, ChildContinue, ProcStates
    <3> QED BY <2>1, <3>1 DEF ChildSetpgid, ChildExit, ChildStop, ChildContinue,
                              OutsideUnchanged, shellVars, ListTypeOK
  <2>2. ASSUME NEW s \in Keys, Type(s) PROVE TypeOK'
    BY <2>2, <1>0, KeysAssumption DEF Type, OutsideUnchanged, shellVars, ListTypeOK
  <2> QED BY <1>27, <2>1, <2>2 DEF Outside
<1>28. CASE UNCHANGED vars
  BY <1>28 DEF vars, ListTypeOK
<1> QED
  BY <1>1, <1>2, <1>3, <1>4, <1>5, <1>6, <1>7, <1>8, <1>9, <1>10, <1>11, <1>12, <1>13,
     <1>14, <1>15, <1>16, <1>17, <1>18, <1>19, <1>20, <1>21, <1>22, <1>23, <1>24,
     <1>25, <1>26, <1>27, <1>28 DEF Next, MainLine, Handlers

\* Every step keeps the pointers set.
LEMMA NextPointers == ASSUME TypeOK, PointersSet, [Next]_vars PROVE PointersSet'
<1> USE DEF TypeOK, PointersSet, At, Goto
<1>0. /\ {"main", "CHLD", "INT", "TSTP"} = Contexts
      /\ {"CHLD", "INT", "TSTP"} = Signals
  BY DEF Contexts, Signals
<1>a. ASSUME NEW how, Die(how) PROVE PointersSet'
  BY <1>a DEF Die, shellVars
<1>1. ASSUME ReadRun \/ AddJob \/ Unblock \/ WaitCheck PROVE PointersSet'
  BY <1>1, <1>0 DEF ReadRun, AddJob, Unblock, WaitCheck
<1>2. ASSUME Fork \/ WaitScan PROVE PointersSet'
  BY <1>2, <1>0 DEF Fork, WaitScan
<1>3. ASSUME ReadBgfg PROVE PointersSet'
  BY <1>3, <1>0 DEF ReadBgfg
<1>4. ASSUME BgfgGroup \/ BgSet \/ FgTest PROVE PointersSet'
  BY <1>4, <1>0 DEF BgfgGroup, BgSet, FgTest
<1>5. ASSUME BgTest \/ FgSet PROVE PointersSet'
  BY <1>5, <1>0 DEF BgTest, FgSet, Leave
<1>6. ASSUME BgKill \/ FgKill PROVE PointersSet'
  BY <1>6, <1>0, <1>a DEF BgKill, FgKill, Leave
<1>7. ASSUME Quit \/ sigquit_handler PROVE PointersSet'
  BY <1>7, <1>a DEF Quit, sigquit_handler
<1>8. ASSUME ChldWait \/ ChldDelete PROVE PointersSet'
  BY <1>8, <1>0 DEF ChldWait, ChldDelete, Return
<1>9. ASSUME ChldStop PROVE PointersSet'
  BY <1>9, <1>0, <1>a DEF ChldStop, Return
<1>10. ASSUME IntFgpid \/ TstpFgpid PROVE PointersSet'
  BY <1>10, <1>0 DEF IntFgpid, TstpFgpid, Fgpid, Return
<1>11. ASSUME IntDeref \/ IntGroup PROVE PointersSet'
  BY <1>11, <1>0, <1>a DEF IntDeref, IntGroup
<1>12. ASSUME IntKill \/ TstpKill PROVE PointersSet'
  BY <1>12, <1>0, <1>a DEF IntKill, TstpKill, Finish, Return
<1>13. ASSUME TstpTest \/ TstpGroup PROVE PointersSet'
  BY <1>13, <1>0 DEF TstpTest, TstpGroup, Finish, Return
<1>14. ASSUME Interrupts PROVE PointersSet'
  BY <1>14, <1>0 DEF Interrupts, Deliver, Entry
<1>15. ASSUME Outside PROVE PointersSet'
  BY <1>15 DEF Outside, ChildSetpgid, ChildExit, ChildStop, ChildContinue, Type,
               OutsideUnchanged, shellVars
<1>16. CASE UNCHANGED vars
  BY <1>16 DEF vars
<1> QED
  BY <1>1, <1>2, <1>3, <1>4, <1>5, <1>6, <1>7, <1>8, <1>9, <1>10, <1>11, <1>12,
     <1>13, <1>14, <1>15, <1>16 DEF Next, MainLine, Handlers

\* Type correctness of the shell.
THEOREM TypeCorrect == Spec => []TypeOK
<1>1. Init => TypeOK /\ PointersSet
  <2>1. Init => PointersSet
    BY DEF Init, PointersSet, Contexts, Signals
  <2> QED BY <2>1, InitType
<1>2. TypeOK /\ PointersSet /\ [Next]_vars => (TypeOK /\ PointersSet)'
  BY NextType, NextPointers
<1> QED BY <1>1, <1>2, PTL DEF Spec

----------------------------------------------------------------------------
(* Jobs and children.  That every job is a child and every child a job     *)
(* rests on SIGCHLD being blocked from before fork until after addjob, and *)
(* that on the handlers being properly nested: when the main line runs, no *)
(* handler is half way.                                                    *)

\* The stack holds exactly the handlers that are between their steps, each
\* once.
StackSound ==
    /\ \A h \in Signals : Active(h) <=> \E n \in 1..Len(stack) : stack[n] = h
    /\ \A m, n \in 1..Len(stack) : stack[m] = stack[n] => m = n

\* No sigchld_handler runs between fork and the end of addjob.
WindowMasked ==
    pc["main"] \in {"fork", "addjob", "unblock"} => "CHLD" \in masked /\ ~Active("CHLD")

\* The child forked is there, and is not in the list before addjob.
ChildForked ==
    /\ pc["main"] \in {"addjob", "unblock"} => pid["main"] \in Unreaped
    /\ pc["main"] = "addjob" => pid["main"] \notin Listed

\* deletejob is called for a child that was reaped.
DeletesReaped ==
    pc["CHLD"] = "deletejob" => pid["CHLD"] \in Pids /\ proc[pid["CHLD"]] = "reaped"

IInv == /\ TypeOK
        /\ PointersSet
        /\ StackSound
        /\ WindowMasked
        /\ ChildForked
        /\ DeletesReaped
        /\ PidsDistinct
        /\ JobsAreChildren
        /\ ChildrenAreJobs

\* A step that neither starts nor ends a handler keeps the stack sound.
LEMMA StackStays ==
    ASSUME StackSound, UNCHANGED stack, \A h \in Signals : Active(h)' <=> Active(h)
    PROVE  StackSound'
BY DEF StackSound

\* The start of a handler puts it on top.
LEMMA StackPush ==
    ASSUME TypeOK, StackSound, NEW h \in Signals, Deliver(h)
    PROVE  StackSound'
<1>1. /\ stack \in Seq(Signals)
      /\ stack' = Append(stack, h)
      /\ pc' = [pc EXCEPT ![h] = Entry(h)]
      /\ Entry(h) # "idle"
      /\ ~Active(h)
  BY DEF Deliver, TypeOK, Entry, Blocked
<1>2. \A k \in Signals : Active(k)' <=> (Active(k) \/ k = h)
  BY <1>1 DEF Active, TypeOK, Contexts
<1>3. /\ Len(stack') = Len(stack) + 1
      /\ \A n \in 1..Len(stack) : stack'[n] = stack[n]
      /\ stack'[Len(stack) + 1] = h
      /\ Len(stack) \in Nat
  BY <1>1
<1>4. \A k \in Signals :
         (\E n \in 1..Len(stack') : stack'[n] = k) <=>
            ((\E n \in 1..Len(stack) : stack[n] = k) \/ k = h)
  BY <1>3
<1>5. \A m, n \in 1..Len(stack') : stack'[m] = stack'[n] => m = n
  BY <1>1, <1>3 DEF StackSound
<1> QED BY <1>2, <1>4, <1>5 DEF StackSound

\* What is left of a sequence without its last element.
LEMMA DropLast ==
    ASSUME NEW S, NEW s \in Seq(S), NEW l \in Nat, Len(s) = l + 1
    PROVE  /\ Len(SubSeq(s, 1, l)) = l
           /\ \A n \in 1..l : SubSeq(s, 1, l)[n] = s[n]
<1>1. \A n \in 1..l : s[n] \in S
  OBVIOUS
<1>2. /\ Len(SubSeq(s, 1, l)) = l
      /\ \A n \in 1..(l - 1 + 1) : SubSeq(s, 1, l)[n] = s[1 + n - 1]
  BY <1>1, SubSeqProperties
<1> QED BY <1>2

\* The return of the running handler takes it, and no other, off the stack.
LEMMA StackPop ==
    ASSUME TypeOK, StackSound, NEW h \in Signals, top = h, Return(h)
    PROVE  StackSound'
<1>1. /\ stack \in Seq(Signals)
      /\ stack # <<>>
      /\ stack[Len(stack)] = h
      /\ stack' = SubSeq(stack, 1, Len(stack) - 1)
      /\ pc' = [pc EXCEPT ![h] = "idle"]
  BY DEF Return, top, TypeOK, Signals
<1>2. \A k \in Signals : Active(k)' <=> (Active(k) /\ k # h)
  BY <1>1 DEF Active, TypeOK, Contexts
<1>3. /\ Len(stack') = Len(stack) - 1
      /\ \A n \in 1..Len(stack') : stack'[n] = stack[n]
      /\ Len(stack) \in Nat \ {0}
  <2>1. Len(stack) \in Nat \ {0}
    BY <1>1, EmptySeq
  <2>2. PICK l \in Nat : Len(stack) = l + 1
    BY <2>1
  <2>3. Len(SubSeq(stack, 1, l)) = l
    BY <1>1, <2>2, DropLast
  <2>4. \A n \in 1..l : SubSeq(stack, 1, l)[n] = stack[n]
    BY <1>1, <2>2, DropLast
  <2>5. stack' = SubSeq(stack, 1, l)
    BY <1>1, <2>2
  <2> QED BY <2>1, <2>2, <2>3, <2>4, <2>5
<1>4. \A m, n \in 1..Len(stack') : stack'[m] = stack'[n] => m = n
  BY <1>3 DEF StackSound
<1>5. ASSUME NEW k \in Signals
      PROVE  Active(k)' <=> \E n \in 1..Len(stack') : stack'[n] = k
  <2>1. ASSUME NEW n \in 1..Len(stack'), stack'[n] = k PROVE Active(k)'
    BY <2>1, <1>1, <1>2, <1>3 DEF StackSound
  <2>2. ASSUME Active(k)' PROVE \E n \in 1..Len(stack') : stack'[n] = k
    <3>1. PICK n \in 1..Len(stack) : stack[n] = k
      BY <2>2, <1>2 DEF StackSound
    <3>2. n # Len(stack)
      BY <3>1, <2>2, <1>1, <1>2
    <3> QED BY <3>1, <3>2, <1>3
  <2> QED BY <2>1, <2>2
<1> QED BY <1>4, <1>5 DEF StackSound

\* The stack stays sound.
LEMMA NextStack ==
    ASSUME TypeOK, StackSound, [Next]_vars
    PROVE  StackSound'
<1> USE DEF TypeOK, At
<1>0. /\ {"main", "CHLD", "INT", "TSTP"} = Contexts
      /\ {"CHLD", "INT", "TSTP"} = Signals
  BY DEF Contexts, Signals
<1>a. ASSUME NEW how, Die(how) PROVE StackSound'
  BY <1>a, StackStays DEF Die, shellVars, Active
<1>b. ASSUME NEW s, Goto("main", s) PROVE StackSound'
  BY <1>b, <1>0, StackStays DEF Goto, Active
<1>c. ASSUME NEW h \in Signals, top = h, Active(h),
             NEW s \in HandlerSteps \ {"idle"}, Goto(h, s)
      PROVE  StackSound'
  BY <1>c, <1>0, StackStays DEF Goto, Active
<1>1. ASSUME ReadRun \/ Fork \/ AddJob \/ Unblock \/ WaitScan \/ WaitCheck
      PROVE  StackSound'
  BY <1>1, <1>b DEF ReadRun, Fork, AddJob, Unblock, WaitScan, WaitCheck
<1>2. ASSUME ReadBgfg \/ BgfgGroup \/ BgTest \/ BgSet \/ FgTest \/ FgSet
      PROVE  StackSound'
  BY <1>2, <1>b DEF ReadBgfg, BgfgGroup, BgTest, BgSet, FgTest, FgSet, Leave
<1>3. ASSUME BgKill \/ FgKill \/ Quit \/ sigquit_handler PROVE StackSound'
  BY <1>3, <1>a, <1>b DEF BgKill, FgKill, Quit, sigquit_handler, Leave
<1>4. ASSUME ChldWait \/ ChldDelete \/ ChldStop PROVE StackSound'
  BY <1>4, <1>0, <1>a, <1>c, StackPop
  DEF ChldWait, ChldDelete, ChldStop, Active, HandlerSteps
<1>5. ASSUME IntFgpid \/ IntDeref \/ IntGroup \/ IntKill PROVE StackSound'
  BY <1>5, <1>0, <1>a, <1>c, StackPop
  DEF IntFgpid, Fgpid, IntDeref, IntGroup, IntKill, Finish, Active, HandlerSteps
<1>6. ASSUME TstpFgpid \/ TstpTest \/ TstpGroup \/ TstpKill PROVE StackSound'
  BY <1>6, <1>0, <1>a, <1>c, StackPop
  DEF TstpFgpid, Fgpid, TstpTest, TstpGroup, TstpKill, Finish, Active, HandlerSteps
<1>7. ASSUME Interrupts PROVE StackSound'
  BY <1>7, StackPush DEF Interrupts
<1>8. ASSUME Outside \/ UNCHANGED vars PROVE StackSound'
  BY <1>8, StackStays
  DEF Outside, ChildSetpgid, ChildExit, ChildStop, ChildContinue, Type,
      OutsideUnchanged, shellVars, vars, Active
<1> QED
  BY <1>1, <1>2, <1>3, <1>4, <1>5, <1>6, <1>7, <1>8 DEF Next, MainLine, Handlers

\* What the job tracking does not notice: no child appears or is reaped, no
\* slot changes hands, eval and sigchld_handler stay where they are between
\* fork and unblock and between waitpid and deletejob.
Quiet ==
    /\ \A p \in Pids : /\ proc'[p] = "none" <=> proc[p] = "none"
                       /\ proc'[p] = "reaped" <=> proc[p] = "reaped"
    /\ \A i \in Slots : jobs'[i].pid = jobs[i].pid
    /\ pc'["main"] = "addjob" <=> pc["main"] = "addjob"
    /\ pc'["main"] = "unblock" => pc["main"] = "unblock"
    /\ pc'["main"] \in {"addjob", "unblock"} => pid'["main"] = pid["main"]
    /\ pc'["CHLD"] = "deletejob" <=> pc["CHLD"] = "deletejob"
    /\ pc'["CHLD"] = "deletejob" => pid'["CHLD"] = pid["CHLD"]
    /\ refused' = refused

\* All steps are quiet but fork, addjob, waitpid and deletejob.
LEMMA QuietSteps ==
    ASSUME TypeOK, PointersSet, [Next]_vars
    PROVE  Fork \/ AddJob \/ ChldWait \/ ChldDelete \/ Quiet
<1> USE DEF TypeOK, At
<1>0. /\ {"main", "CHLD", "INT", "TSTP"} = Contexts
      /\ {"CHLD", "INT", "TSTP"} = Signals
  BY DEF Contexts, Signals
<1>a. ASSUME NEW how, Die(how) PROVE Quiet
  BY <1>a DEF Die, shellVars, Quiet
<1>b. ASSUME NEW p \in Pids, NEW s, Becomes(p, s),
             s \notin {"none", "reaped"}, proc[p] \notin {"none", "reaped"}
      PROVE  \A q \in Pids : /\ proc'[q] = "none" <=> proc[q] = "none"
                             /\ proc'[q] = "reaped" <=> proc[q] = "reaped"
  BY <1>b DEF Becomes
<1>c. ASSUME NEW i \in Slots, NEW s, setstate(i, s)
      PROVE  \A k \in Slots : jobs'[k].pid = jobs[k].pid
  BY <1>c DEF setstate, ListTypeOK, job_t
<1>1. ASSUME ReadRun \/ Unblock \/ ReadBgfg \/ BgfgGroup \/ FgTest PROVE Quiet
  BY <1>1, <1>0 DEF ReadRun, Unblock, ReadBgfg, BgfgGroup, FgTest, Goto, Quiet, kernelVars
<1>2. ASSUME WaitScan \/ WaitCheck PROVE Quiet
  <2>1. /\ pc["main"] \in {"wait_scan", "wait_check"}
        /\ \E s \in {"prompt", "wait_scan", "wait_check"} : Goto("main", s)
        /\ \E p : pid' = [pid EXCEPT !["main"] = p]
        /\ UNCHANGED <<jobs, proc, refused>>
    BY <1>2 DEF WaitScan, WaitCheck, kernelVars
  <2> QED BY <2>1, <1>0 DEF Goto, Quiet
<1>3. ASSUME BgTest PROVE Quiet
  BY <1>3, <1>0 DEF BgTest, Leave, Goto, Quiet, kernelVars
<1>4. ASSUME BgSet PROVE Quiet
  <2>1. \A k \in Slots : jobs'[k].pid = jobs[k].pid
    BY <1>4, <1>c DEF BgSet, PointersSet
  <2> QED BY <1>4, <2>1, <1>0 DEF BgSet, Goto, Quiet, kernelVars
<1>5. ASSUME FgSet PROVE Quiet
  <2>1. \A k \in Slots : jobs'[k].pid = jobs[k].pid
    BY <1>5, <1>c DEF FgSet, PointersSet
  <2> QED BY <1>5, <2>1, <1>0 DEF FgSet, Leave, Goto, Quiet, kernelVars
<1>6. ASSUME BgKill \/ FgKill PROVE Quiet
  <2>1. CASE Die("kill_error")
    BY <2>1, <1>a
  <2>2. CASE Continue(grp["main"]) /\ ~Die("kill_error")
    <3>1. \A q \in Pids : /\ proc'[q] = "none" <=> proc[q] = "none"
                          /\ proc'[q] = "reaped" <=> proc[q] = "reaped"
      BY <2>2, <1>b DEF Continue, NothingSent
    <3>2. /\ pc["main"] \in {"bg_kill", "fg_kill"}
          /\ \E s \in {"prompt", "fg_set"} : Goto("main", s)
          /\ UNCHANGED <<jobs, pid, refused>>
      BY <1>6, <2>2 DEF BgKill, FgKill, Leave
    <3> QED BY <3>1, <3>2, <1>0 DEF Goto, Quiet
  <2> QED BY <1>6, <2>1, <2>2 DEF BgKill, FgKill
<1>7. ASSUME Quit \/ sigquit_handler PROVE Quiet
  BY <1>7, <1>a DEF Quit, sigquit_handler
<1>8. ASSUME ChldStop PROVE Quiet
  <2>1. CASE Die("chld_null")
    BY <2>1, <1>a
  <2>2. ASSUME NEW i \in Slots, setstate(i, "ST"), Return("CHLD"),
               UNCHANGED <<kernelVars, refused>>, pid' = [pid EXCEPT !["CHLD"] = 0]
        PROVE  Quiet
    <3>1. \A k \in Slots : jobs'[k].pid = jobs[k].pid
      BY <2>2, <1>c
    <3> QED BY <1>8, <2>2, <3>1, <1>0 DEF ChldStop, Return, Quiet, kernelVars
  <2> QED BY <1>8, <2>1, <2>2 DEF ChldStop
<1>9. ASSUME NEW h \in {"INT", "TSTP"}, UNCHANGED <<jobs, refused>>,
             \A c \in {"main", "CHLD"} : pc'[c] = pc[c] /\ pid'[c] = pid[c],
             \A q \in Pids : /\ proc'[q] = "none" <=> proc[q] = "none"
                             /\ proc'[q] = "reaped" <=> proc[q] = "reaped"
      PROVE  Quiet
  BY <1>9 DEF Quiet
<1>10. ASSUME IntFgpid \/ TstpFgpid PROVE Quiet
  BY <1>10, <1>9, <1>0 DEF IntFgpid, TstpFgpid, Fgpid, Goto, Return, kernelVars
<1>11. ASSUME IntDeref \/ IntGroup \/ TstpGroup PROVE Quiet
  BY <1>11, <1>0, <1>9, <1>a DEF IntDeref, IntGroup, TstpGroup, Goto, kernelVars
<1>12. ASSUME TstpTest PROVE Quiet
  BY <1>12, <1>0, <1>9 DEF TstpTest, Goto, Finish, Return, kernelVars
<1>13. ASSUME IntKill PROVE Quiet
  <2>1. CASE Die("kill_error") \/ Die("killed")
    BY <2>1, <1>a
  <2>2. CASE /\ ~killFails(grp["INT"]) /\ grp["INT"] # ShellGroup
             /\ IF proc[grp["INT"]] \in Alive THEN Becomes(grp["INT"], "zombie")
                ELSE NothingSent
             /\ Finish("INT")
             /\ UNCHANGED <<jobs, nextjid, masked, cmd, refused, keys, outcome>>
    <3>1. grp["INT"] \in Pids
      BY <2>2, <1>0 DEF killFails, Groups
    <3>2. \A q \in Pids : /\ proc'[q] = "none" <=> proc[q] = "none"
                          /\ proc'[q] = "reaped" <=> proc[q] = "reaped"
      BY <2>2, <3>1, <1>b DEF NothingSent, Alive
    <3> QED BY <2>2, <3>2, <1>0, <1>9 DEF Finish, Return
  <2> QED BY <1>13, <2>1, <2>2 DEF IntKill
<1>14. ASSUME TstpKill PROVE Quiet
  <2>1. CASE Die("kill_error")
    BY <2>1, <1>a
  <2>2. CASE ~killFails(grp["TSTP"]) /\ ~Die("kill_error")
    <3>1. grp["TSTP"] # ShellGroup => grp["TSTP"] \in Pids
      BY <2>2, <1>0 DEF killFails, Groups
    <3>2. \A q \in Pids : /\ proc'[q] = "none" <=> proc[q] = "none"
                          /\ proc'[q] = "reaped" <=> proc[q] = "reaped"
      BY <1>14, <2>2, <3>1, <1>b DEF TstpKill, NothingSent
    <3>3. Finish("TSTP") /\ UNCHANGED <<jobs, refused>>
      BY <1>14, <2>2 DEF TstpKill
    <3> QED BY <3>2, <3>3, <1>0, <1>9 DEF Finish, Return
  <2> QED BY <1>14, <2>1, <2>2 DEF TstpKill
<1>15. ASSUME Interrupts PROVE Quiet
  BY <1>15, <1>0 DEF Interrupts, Deliver, Entry, Quiet, Blocked, Active
<1>16. ASSUME Outside PROVE Quiet
  <2>1. UNCHANGED <<jobs, refused, pc, pid>>
    BY <1>16 DEF Outside, ChildSetpgid, ChildExit, ChildStop, ChildContinue, Type,
                 OutsideUnchanged, shellVars
  <2>2. \A q \in Pids : /\ proc'[q] = "none" <=> proc[q] = "none"
                        /\ proc'[q] = "reaped" <=> proc[q] = "reaped"
    BY <1>16, <1>b
    DEF Outside, ChildSetpgid, ChildExit, ChildStop, ChildContinue, Type, Alive
  <2> QED BY <2>1, <2>2 DEF Quiet
<1>17. CASE UNCHANGED vars
  BY <1>17 DEF vars, Quiet
<1> QED
  BY <1>1, <1>2, <1>3, <1>4, <1>5, <1>6, <1>7, <1>8, <1>10, <1>11, <1>12, <1>13,
     <1>14, <1>15, <1>16, <1>17 DEF Next, MainLine, Handlers

\* The main line runs only when no handler is half way.
LEMMA MainAlone ==
    ASSUME TypeOK, StackSound, top = "main"
    PROVE  \A h \in Signals : ~Active(h)
<1>1. stack = <<>>
  <2>1. ASSUME stack # <<>> PROVE FALSE
    <3>1. Len(stack) \in Nat \ {0}
      BY <2>1, EmptySeq DEF TypeOK
    <3>2. stack[Len(stack)] \in Signals
      BY <3>1 DEF TypeOK
    <3> QED BY <2>1, <3>2 DEF top, Signals
  <2> QED BY <2>1
<1> QED BY <1>1 DEF StackSound

\* The window from fork to unblock stays masked.
LEMMA NextWindow ==
    ASSUME TypeOK, StackSound, WindowMasked, [Next]_vars
    PROVE  WindowMasked'
<1> USE DEF TypeOK, At
<1>0. /\ {"main", "CHLD", "INT", "TSTP"} = Contexts
      /\ {"CHLD", "INT", "TSTP"} = Signals
  BY DEF Contexts, Signals
<1>1. ASSUME ReadRun PROVE WindowMasked'
  <2>1. pc["CHLD"] = "idle"
    BY <1>1, <1>0, MainAlone DEF ReadRun, Active
  <2> QED BY <1>1, <2>1, <1>0 DEF ReadRun, Goto, WindowMasked, Active
<1>2. ASSUME NEW s \in MainSteps \ {"fork", "addjob", "unblock"}, Goto("main", s)
      PROVE  WindowMasked'
  BY <1>2, <1>0 DEF Goto, WindowMasked
<1>3. ASSUME UNCHANGED masked, pc'["main"] = pc["main"], Active("CHLD")' => Active("CHLD")
      PROVE  WindowMasked'
  BY <1>3 DEF WindowMasked
<1>4. ASSUME NEW how, Die(how) PROVE WindowMasked'
  BY <1>4, <1>3 DEF Die, shellVars, Active
<1>5. ASSUME Fork \/ AddJob PROVE WindowMasked'
  BY <1>5, <1>0 DEF Fork, AddJob, Goto, WindowMasked, Active, kernelVars
<1>6. ASSUME Unblock \/ WaitScan \/ WaitCheck PROVE WindowMasked'
  BY <1>6, <1>2 DEF Unblock, WaitScan, WaitCheck, MainSteps
<1>7. ASSUME ReadBgfg \/ BgfgGroup \/ BgTest \/ BgSet \/ FgTest \/ FgSet
      PROVE  WindowMasked'
  BY <1>7, <1>2 DEF ReadBgfg, BgfgGroup, BgTest, BgSet, FgTest, FgSet, Leave, MainSteps
<1>8. ASSUME BgKill \/ FgKill \/ Quit \/ sigquit_handler PROVE WindowMasked'
  BY <1>8, <1>2, <1>4 DEF BgKill, FgKill, Quit, sigquit_handler, Leave, MainSteps
<1>9. ASSUME ChldWait \/ ChldDelete PROVE WindowMasked'
  BY <1>9, <1>0, <1>3 DEF ChldWait, ChldDelete, Goto, Return, Active, kernelVars
<1>10. ASSUME ChldStop PROVE WindowMasked'
  BY <1>10, <1>0, <1>3, <1>4 DEF ChldStop, Return, Active, kernelVars
<1>11. ASSUME IntFgpid \/ TstpFgpid PROVE WindowMasked'
  BY <1>11, <1>0, <1>3
  DEF IntFgpid, TstpFgpid, Fgpid, Goto, Return, Active, kernelVars
<1>12. ASSUME IntDeref \/ IntGroup \/ TstpGroup PROVE WindowMasked'
  BY <1>12, <1>0, <1>3, <1>4
  DEF IntDeref, IntGroup, TstpGroup, Goto, Active, kernelVars
<1>13. ASSUME IntKill \/ TstpKill PROVE WindowMasked'
  BY <1>13, <1>0, <1>3, <1>4 DEF IntKill, TstpKill, Finish, Return, Active
<1>14. ASSUME TstpTest PROVE WindowMasked'
  BY <1>14, <1>0, <1>3 DEF TstpTest, Goto, Finish, Return, Active, kernelVars
<1>15. ASSUME Interrupts PROVE WindowMasked'
  BY <1>15, <1>0 DEF Interrupts, Deliver, Blocked, Active, WindowMasked
<1>16. ASSUME Outside \/ UNCHANGED vars PROVE WindowMasked'
  BY <1>16, <1>3
  DEF Outside, ChildSetpgid, ChildExit, ChildStop, ChildContinue, Type,
      OutsideUnchanged, shellVars, vars, Active
<1> QED
  BY <1>1, <1>5, <1>6, <1>7, <1>8, <1>9, <1>10, <1>11, <1>12, <1>13, <1>14, <1>15,
     <1>16 DEF Next, MainLine, Handlers

\* The five facts about jobs and children.
Tracking == /\ ChildForked
            /\ DeletesReaped
            /\ PidsDistinct
            /\ JobsAreChildren
            /\ ChildrenAreJobs

\* They survive the steps that touch neither pids nor children.
LEMMA TrackQuiet == ASSUME TypeOK, Tracking, Quiet PROVE Tracking'
<1> USE DEF TypeOK, Tracking
<1>1. Unreaped' = Unreaped
  BY DEF Quiet, Unreaped
<1>2. Listed' = Listed
  BY DEF Quiet, Listed
<1>3. ChildForked'
  BY <1>1, <1>2 DEF ChildForked, Quiet
<1>4. DeletesReaped'
  BY DEF DeletesReaped, Quiet
<1>5. PidsDistinct'
  BY DEF PidsDistinct, Quiet
<1>6. JobsAreChildren'
  BY <1>1 DEF JobsAreChildren, Quiet
<1>7. ChildrenAreJobs'
  BY <1>1, <1>2 DEF ChildrenAreJobs, Quiet
<1> QED BY <1>3, <1>4, <1>5, <1>6, <1>7

\* fork: the new child is not in the list yet, and the main line is about to
\* add it.
LEMMA TrackFork == ASSUME TypeOK, WindowMasked, Tracking, Fork PROVE Tracking'
<1> USE DEF TypeOK, Tracking
<1>0. {"main", "CHLD", "INT", "TSTP"} = Contexts
  BY DEF Contexts, Signals
<1>1. PICK p \in Pids : /\ proc[p] = "none"
                        /\ proc' = [proc EXCEPT ![p] = "new"]
                        /\ pid' = [pid EXCEPT !["main"] = p]
  BY DEF Fork
<1>2. /\ pc["main"] = "fork"
      /\ pc' = [pc EXCEPT !["main"] = "addjob"]
      /\ UNCHANGED <<jobs, refused>>
  BY DEF Fork, At, Goto
<1>3. pc["CHLD"] = "idle"
  BY <1>2 DEF WindowMasked, Active
<1>4. Unreaped' = Unreaped \cup {p}
  BY <1>1 DEF Unreaped
<1>5. Listed' = Listed
  BY <1>2 DEF Listed
<1>6. p \notin Listed
  BY <1>1, <1>3, PidsAssumption DEF JobsAreChildren, Listed, Unreaped
<1>7. ChildForked'
  BY <1>1, <1>2, <1>4, <1>5, <1>6, <1>0 DEF ChildForked
<1>8. DeletesReaped'
  BY <1>2, <1>3, <1>0 DEF DeletesReaped
<1>9. PidsDistinct'
  BY <1>2 DEF PidsDistinct
<1>10. JobsAreChildren'
  BY <1>2, <1>3, <1>4 DEF JobsAreChildren
<1>11. ChildrenAreJobs'
  BY <1>1, <1>2, <1>4, <1>5, <1>0 DEF ChildrenAreJobs
<1> QED BY <1>7, <1>8, <1>9, <1>10, <1>11

\* addjob: the child cannot have been reaped meanwhile, as SIGCHLD is blocked.
LEMMA TrackAddJob ==
    ASSUME TypeOK, PointersSet, WindowMasked, Tracking, AddJob PROVE Tracking'
<1> USE DEF TypeOK, Tracking
<1>0. {"main", "CHLD", "INT", "TSTP"} = Contexts
  BY DEF Contexts, Signals
<1>1. /\ pc["main"] = "addjob"
      /\ pc' = [pc EXCEPT !["main"] = "unblock"]
      /\ UNCHANGED <<proc, pid>>
      /\ pid["main"] \in Pids
  BY DEF AddJob, At, Goto, kernelVars, PointersSet
<1>2. pc["CHLD"] = "idle"
  BY <1>1 DEF WindowMasked, Active
<1>3. Unreaped' = Unreaped /\ pid["main"] \in Unreaped /\ pid["main"] \notin Listed
  BY <1>1 DEF Unreaped, ChildForked
<1>4. ChildForked' /\ DeletesReaped'
  BY <1>1, <1>2, <1>3, <1>0 DEF ChildForked, DeletesReaped
<1>5. CASE Holding(0) = {} /\ UNCHANGED listVars
  <2>1. UNCHANGED <<jobs, Listed>>
    BY <1>5 DEF listVars, Listed
  <2>2. refused' = refused \cup {pid["main"]}
    BY <1>5 DEF AddJob
  <2>3. PidsDistinct' /\ JobsAreChildren'
    BY <1>1, <1>2, <1>3, <2>1 DEF PidsDistinct, JobsAreChildren
  <2>4. ChildrenAreJobs'
    BY <1>1, <1>3, <2>1, <2>2 DEF ChildrenAreJobs
  <2> QED BY <1>4, <2>3, <2>4
<1>6. ASSUME NEW i \in Slots, StopsAt(Holding(0), i), NEW j, NEW s,
             jobs' = [jobs EXCEPT ![i] = [pid |-> pid["main"], jid |-> j, state |-> s]]
      PROVE  Tracking'
  <2>1. jobs[i].pid = 0
    BY <1>6 DEF StopsAt, Holding
  <2>2. jobs'[i].pid = pid["main"] /\ \A k \in Slots \ {i} : jobs'[k] = jobs[k]
    BY <1>6 DEF ListTypeOK
  <2>3. Listed' = Listed \cup {pid["main"]}
    BY <2>1, <2>2, <1>1, PidsAssumption DEF Listed
  <2>4. refused \subseteq refused'
    BY DEF AddJob
  <2>5. PidsDistinct'
    BY <2>1, <2>2, <1>3 DEF PidsDistinct, Listed
  <2>6. JobsAreChildren'
    BY <1>1, <1>2, <1>3, <2>2 DEF JobsAreChildren
  <2>7. ChildrenAreJobs'
    BY <1>1, <1>3, <2>3, <2>4 DEF ChildrenAreJobs
  <2> QED BY <1>4, <2>5, <2>6, <2>7
<1> QED BY <1>5, <1>6 DEF AddJob, addjob

\* waitpid: a child reaped is left to deletejob.
LEMMA TrackChldWait ==
    ASSUME TypeOK, WindowMasked, Tracking, ChldWait PROVE Tracking'
<1> USE DEF TypeOK, Tracking
<1>0. {"main", "CHLD", "INT", "TSTP"} = Contexts
  BY DEF Contexts, Signals
<1>1. /\ pc["CHLD"] = "waitpid"
      /\ UNCHANGED <<jobs, refused, Listed>>
      /\ pc'["main"] = pc["main"]
      /\ pid'["main"] = pid["main"]
  BY <1>0 DEF ChldWait, At, Goto, Return, Listed
<1>2. pc["main"] \notin {"addjob", "unblock"}
  BY <1>1 DEF WindowMasked, Active
<1>3. ChildForked' /\ PidsDistinct'
  BY <1>1, <1>2 DEF ChildForked, PidsDistinct
<1>4. ASSUME NEW p \in Pids, proc[p] = "zombie",
             proc' = [proc EXCEPT ![p] = "reaped"],
             Goto("CHLD", "deletejob"), pid' = [pid EXCEPT !["CHLD"] = p]
      PROVE  Tracking'
  <2>1. pc'["CHLD"] = "deletejob" /\ pid'["CHLD"] = p /\ proc'[p] = "reaped"
    BY <1>4, <1>0 DEF Goto
  <2>2. Unreaped' = Unreaped \ {p}
    BY <1>4 DEF Unreaped
  <2>3. DeletesReaped'
    BY <2>1 DEF DeletesReaped
  <2>4. JobsAreChildren'
    BY <1>1, <2>1, <2>2 DEF JobsAreChildren
  <2>5. ChildrenAreJobs'
    BY <1>1, <1>2, <2>2 DEF ChildrenAreJobs
  <2> QED BY <1>3, <2>3, <2>4, <2>5
<1>5. ASSUME NEW s \in {"stopjob", "idle"}, pc'["CHLD"] = s, Unreaped' = Unreaped
      PROVE  Tracking'
  <2>1. DeletesReaped' /\ JobsAreChildren'
    BY <1>1, <1>5 DEF DeletesReaped, JobsAreChildren
  <2>2. ChildrenAreJobs'
    BY <1>1, <1>2, <1>5 DEF ChildrenAreJobs
  <2> QED BY <1>3, <2>1, <2>2
<1>6. ASSUME NEW p \in Pids, proc[p] = "stopping",
             proc' = [proc EXCEPT ![p] = "stopped"], Goto("CHLD", "stopjob")
      PROVE  Tracking'
  BY <1>6, <1>5, <1>0 DEF Goto, Unreaped
<1>7. CASE Return("CHLD") /\ UNCHANGED <<proc, pid>>
  BY <1>7, <1>5, <1>0 DEF Return, Unreaped
<1> QED BY <1>4, <1>6, <1>7 DEF ChldWait

\* deletejob: the slot cleared is the only one with the child's pid.
LEMMA TrackChldDelete ==
    ASSUME TypeOK, WindowMasked, Tracking, ChldDelete PROVE Tracking'
<1> USE DEF TypeOK, Tracking
<1>0. {"main", "CHLD", "INT", "TSTP"} = Contexts
  BY DEF Contexts, Signals
<1> DEFINE d == pid["CHLD"]
<1>1. /\ pc["CHLD"] = "deletejob"
      /\ pc'["CHLD"] = "idle"
      /\ pc'["main"] = pc["main"]
      /\ pid'["main"] = pid["main"]
      /\ UNCHANGED <<proc, refused>>
  BY <1>0 DEF ChldDelete, At, Return, kernelVars
<1>2. d \in Pids /\ d \notin Unreaped /\ Unreaped' = Unreaped /\ d # 0
  BY <1>1, PidsAssumption DEF DeletesReaped, Unreaped
<1>3. pc["main"] \notin {"addjob", "unblock"}
  BY <1>1 DEF WindowMasked, Active
<1>4. ChildForked' /\ DeletesReaped'
  BY <1>1, <1>3 DEF ChildForked, DeletesReaped
<1>5. CASE getjobpidNull(d) /\ UNCHANGED listVars
  <2>1. UNCHANGED <<jobs, Listed>> /\ \A i \in Slots : jobs[i].pid # d
    BY <1>5, <1>2 DEF listVars, Listed, getjobpidNull, Holding
  <2>2. PidsDistinct' /\ JobsAreChildren'
    BY <1>1, <1>2, <2>1 DEF PidsDistinct, JobsAreChildren
  <2>3. ChildrenAreJobs'
    BY <1>1, <1>2, <1>3, <2>1 DEF ChildrenAreJobs
  <2> QED BY <1>4, <2>2, <2>3
<1>6. ASSUME NEW i \in Slots, getjobpid(d, i), jobs' = [jobs EXCEPT ![i] = clearjob]
      PROVE  Tracking'
  <2>1. jobs[i].pid = d
    BY <1>6 DEF getjobpid, StopsAt, Holding
  <2>2. jobs'[i].pid = 0 /\ \A k \in Slots \ {i} : jobs'[k] = jobs[k]
    BY <1>6 DEF ListTypeOK, clearjob
  <2>3. \A k \in Slots \ {i} : jobs[k].pid # d
    BY <2>1, <1>2 DEF PidsDistinct
  <2>4. Listed' = Listed \ {d}
    BY <2>1, <2>2, <2>3, <1>2 DEF Listed
  <2>5. PidsDistinct'
    BY <2>2 DEF PidsDistinct
  <2>6. JobsAreChildren'
    BY <1>1, <1>2, <2>2, <2>3 DEF JobsAreChildren
  <2>7. ChildrenAreJobs'
    BY <1>1, <1>2, <1>3, <2>4 DEF ChildrenAreJobs
  <2> QED BY <1>4, <2>5, <2>6, <2>7
<1> QED BY <1>5, <1>6 DEF ChldDelete, deletejob

\* The invariant holds initially.
LEMMA InitIInv == ASSUME Init PROVE IInv
<1>1. TypeOK
  BY InitType
<1>2. /\ \A i \in Slots : jobs[i].pid = 0
      /\ \A p \in Pids : proc[p] = "none"
      /\ pc["main"] = "prompt" /\ \A h \in Signals : pc[h] = "idle"
      /\ stack = <<>>
  BY DEF Init, initjobs, clearjob, Contexts, Signals
<1>3. PointersSet /\ StackSound /\ WindowMasked
  BY <1>2 DEF PointersSet, StackSound, WindowMasked, Active, Signals
<1>4. ChildForked /\ DeletesReaped /\ PidsDistinct /\ JobsAreChildren /\ ChildrenAreJobs
  BY <1>2 DEF ChildForked, DeletesReaped, PidsDistinct, JobsAreChildren,
              ChildrenAreJobs, Unreaped, Signals
<1> QED BY <1>1, <1>3, <1>4 DEF IInv

\* Every step of the shell, the kernel and the user keeps the invariant.
LEMMA NextIInv == ASSUME IInv, [Next]_vars PROVE IInv'
<1>1. TypeOK' /\ PointersSet' /\ StackSound' /\ WindowMasked'
  BY NextType, NextPointers, NextStack, NextWindow DEF IInv
<1>2. Tracking'
  BY QuietSteps, TrackQuiet, TrackFork, TrackAddJob, TrackChldWait, TrackChldDelete
  DEF IInv, Tracking
<1> QED BY <1>1, <1>2 DEF IInv, Tracking

\* The inductive invariant holds for ever.
LEMMA Invariance == Spec => []IInv
BY InitIInv, NextIInv, PTL DEF Spec

\* A pid is never in two slots.
THEOREM PidsAreDistinct == Spec => []PidsDistinct
BY Invariance, PTL DEF IInv

\* Every job is a child that has not been reaped, but for the moment between
\* waitpid and deletejob: the reason why eval blocks SIGCHLD (tsh.c:194-198).
THEOREM JobsTrackChildren == Spec => []JobsAreChildren
BY Invariance, PTL DEF IInv

\* Every child not yet reaped is a job, unless addjob refused it.
THEOREM ChildrenTracked == Spec => []ChildrenAreJobs
BY Invariance, PTL DEF IInv
----------------------------------------------------------------------------
(***************************************************************************)
(* What the shell does to jobs: that it implements JobControl, that there  *)
(* is one foreground job, what signals reach, and what can end the shell.  *)
(***************************************************************************)
(* The invariants.                                                         *)

\* A slot with a pid has the state of a job.
ListedHaveStates == \A i \in Slots : jobs[i].pid # 0 => jobs[i].state \in {"FG", "BG", "ST"}

\* A slot without a pid has no job id.
FreeHaveNoId == \A i \in Slots : jobs[i].pid = 0 => jobs[i].jid = 0

\* A child refused by addjob was forked, and is not in the list.
RefusedUnlisted ==
    /\ \A p \in refused : proc[p] # "none" /\ p \notin Listed
    /\ pc["main"] = "addjob" => pid["main"] \notin refused

\* The commands that lead into do_bgfg; bg marks a job that is stopped, or a
\* slot whose job has left.
BgfgSteps == {"getpgid", "bg_test", "bg_set", "bg_kill", "fg_test", "fg_kill", "fg_set"}
BgfgTracks ==
    /\ pc["main"] \in BgfgSteps => cmd \in Commands \cap {"bg", "fg"}
    /\ pc["main"] \in {"bg_test", "bg_set", "bg_kill"} => cmd = "bg"
    /\ pc["main"] \in {"fg_test", "fg_kill", "fg_set"} => cmd = "fg"
    /\ pc["main"] = "bg_set" =>
          jobs[ptr["main"]].pid = 0 \/ jobs[ptr["main"]].state = "ST"

\* A stop is recorded for a child that is still there.
StopReported == pc["CHLD"] = "stopjob" => pid["CHLD"] \in Unreaped

\* A handler signals the group g of the job p, its own group when the job has
\* none, or nobody when the job is gone.
Aims(g, p) == g = ShellGroup \/ g = p \/ (g = NoGroup /\ proc[p] = "reaped")

\* sigint_handler holds the pid of a job that was in the foreground, and is
\* no background job now, or has been reaped.
IntTracks ==
    /\ pc["INT"] \in {"deref", "getpgid", "kill"} =>
          /\ pid["INT"] \in Pids
          /\ pid["INT"] \in Listed \/ proc[pid["INT"]] = "reaped"
          /\ \A i \in Slots : jobs[i].pid = pid["INT"] => jobs[i].state # "BG"
    /\ pc["INT"] = "kill" => Aims(grp["INT"], pid["INT"])

\* sigtstp_handler holds a pid, and a slot where no other job is.
TstpTracks ==
    /\ pc["TSTP"] \in {"test", "getpgid", "kill"} => pid["TSTP"] \in Pids
    /\ pc["TSTP"] = "getpgid" => jobs[ptr["TSTP"]].pid \in {0, pid["TSTP"]}
    /\ pc["TSTP"] = "kill" => Aims(grp["TSTP"], pid["TSTP"])

JInv == /\ ListedHaveStates
        /\ FreeHaveNoId
        /\ RefusedUnlisted
        /\ BgfgTracks
        /\ StopReported
        /\ IntTracks
        /\ TstpTracks
        /\ NextJidAscends
        /\ EndsHaveCauses

\* Without the command fg the foreground is one job, and only while the main
\* line waits for it.
OneWaitedFor ==
    /\ \A i \in Foreground : jobs[i].pid # 0
    /\ \A i, k \in Foreground : i = k
    /\ pc["main"] \in {"prompt", "fork", "addjob"} \cup BgfgSteps => Foreground = {}
    /\ pc["main"] = "unblock" /\ cmd # "run_fg" => Foreground = {}
    /\ pc["main"] = "wait_check" => \A i \in Foreground : jobs[i].pid = pid["main"]

\* Without bg and fg a job whose stop was reported is marked ST.
StopsMarked ==
    /\ pc["main"] = "addjob" => proc[pid["main"]] # "stopped"
    /\ \A i \in Slots : jobs[i].pid # 0 /\ proc[jobs[i].pid] = "stopped" =>
          jobs[i].state = "ST" \/ (pc["CHLD"] = "stopjob" /\ pid["CHLD"] = jobs[i].pid)

----------------------------------------------------------------------------
(* What a step leaves alone.                                               *)

\* Context c neither moves nor changes its locals.
Stays(c) ==
    pc'[c] = pc[c] /\ pid'[c] = pid[c] /\ ptr'[c] = ptr[c] /\ grp'[c] = grp[c]

ChldSteps == ChldWait \/ ChldDelete \/ ChldStop
IntSteps == IntFgpid \/ IntDeref \/ IntGroup \/ IntKill
TstpSteps == TstpFgpid \/ TstpTest \/ TstpGroup \/ TstpKill

\* A step of the main line leaves the handlers as they are: none runs.
LEMMA MainFrame ==
    ASSUME TypeOK, StackSound, MainLine
    PROVE  \A h \in Signals : Stays(h) /\ pc[h] = "idle"
<1> USE DEF TypeOK
<1>0. /\ {"main", "CHLD", "INT", "TSTP"} = Contexts
      /\ {"CHLD", "INT", "TSTP"} = Signals
  BY DEF Contexts, Signals
<1>1. top = "main"
  BY DEF MainLine, At, ReadRun, Fork, AddJob, Unblock, WaitScan, WaitCheck, ReadBgfg,
         BgfgGroup, BgTest, BgSet, BgKill, FgTest, FgKill, FgSet, Quit
<1>2. \A h \in Signals : pc[h] = "idle"
  BY <1>1, MainAlone DEF Active
<1>3. ASSUME NEW how, Die(how) PROVE \A h \in Signals : Stays(h)
  BY <1>3 DEF Die, shellVars, Stays
<1>4. CASE ReadRun \/ Fork \/ AddJob \/ Unblock \/ WaitScan \/ WaitCheck
  BY <1>0, <1>2, <1>4
  DEF ReadRun, Fork, AddJob, Unblock, WaitScan, WaitCheck, Goto, Stays
<1>5. CASE ReadBgfg \/ BgfgGroup \/ BgTest \/ BgSet \/ FgTest \/ FgSet
  BY <1>0, <1>2, <1>5
  DEF ReadBgfg, BgfgGroup, BgTest, BgSet, FgTest, FgSet, Leave, Goto, Stays
<1>6. CASE BgKill \/ FgKill \/ Quit
  BY <1>0, <1>2, <1>3, <1>6 DEF BgKill, FgKill, Quit, Leave, Goto, Stays
<1> QED BY <1>4, <1>5, <1>6 DEF MainLine

\* Other steps leave the main line as it is, and a handler moves by its own
\* steps only.
LEMMA HandlerFrame ==
    ASSUME TypeOK, [Next]_vars, ~MainLine
    PROVE  /\ Stays("main") /\ cmd' = cmd
           /\ Stays("CHLD") \/ ChldSteps \/ Deliver("CHLD")
           /\ Stays("INT") \/ IntSteps \/ Deliver("INT")
           /\ Stays("TSTP") \/ TstpSteps \/ Deliver("TSTP")
<1> USE DEF TypeOK
<1>0. /\ {"main", "CHLD", "INT", "TSTP"} = Contexts
      /\ {"CHLD", "INT", "TSTP"} = Signals
  BY DEF Contexts, Signals
<1>1. ASSUME NEW how, Die(how) PROVE cmd' = cmd /\ \A c \in Contexts : Stays(c)
  BY <1>1 DEF Die, shellVars, Stays
<1>2. CASE ChldSteps
  <2>1. cmd' = cmd /\ \A c \in Contexts \ {"CHLD"} : Stays(c)
    BY <1>0, <1>1, <1>2
    DEF ChldSteps, ChldWait, ChldDelete, ChldStop, Goto, Return, Stays
  <2> QED BY <2>1, <1>0, <1>2
<1>3. CASE IntSteps
  <2>1. cmd' = cmd /\ \A c \in Contexts \ {"INT"} : Stays(c)
    BY <1>0, <1>1, <1>3
    DEF IntSteps, IntFgpid, Fgpid, IntDeref, IntGroup, IntKill, Finish, Goto, Return, Stays
  <2> QED BY <2>1, <1>0, <1>3
<1>4. CASE TstpSteps
  <2>1. cmd' = cmd /\ \A c \in Contexts \ {"TSTP"} : Stays(c)
    BY <1>0, <1>1, <1>4
    DEF TstpSteps, TstpFgpid, Fgpid, TstpTest, TstpGroup, TstpKill, Finish, Goto, Return, Stays
  <2> QED BY <2>1, <1>0, <1>4
<1>5. CASE Interrupts
  <2>1. PICK h \in Signals : Deliver(h)
    BY <1>5 DEF Interrupts
  <2>2. cmd' = cmd /\ \A c \in Contexts \ {h} : Stays(c)
    BY <2>1 DEF Deliver, Stays
  <2> QED BY <2>1, <2>2, <1>0
<1>6. CASE sigquit_handler \/ Outside \/ UNCHANGED vars
  <2>1. cmd' = cmd /\ \A c \in Contexts : Stays(c)
    BY <1>1, <1>6
    DEF sigquit_handler, Outside, ChildSetpgid, ChildExit, ChildStop, ChildContinue, Type,
        OutsideUnchanged, shellVars, vars, Stays
  <2> QED BY <2>1, <1>0
<1> QED
  BY <1>2, <1>3, <1>4, <1>5, <1>6 DEF Next, Handlers, ChldSteps, IntSteps, TstpSteps

\* The list is changed by these steps only.
LEMMA ListFrame ==
    ASSUME [Next]_vars
    PROVE  \/ AddJob \/ BgSet \/ FgSet \/ ChldDelete \/ ChldStop
           \/ UNCHANGED <<jobs, nextjid, refused>>
<1>1. ASSUME NEW how, Die(how) PROVE UNCHANGED <<jobs, nextjid, refused>>
  BY <1>1 DEF Die
<1>2. CASE MainLine
  BY <1>1, <1>2
  DEF MainLine, ReadRun, Fork, Unblock, WaitScan, WaitCheck, ReadBgfg, BgfgGroup, BgTest,
      BgKill, FgTest, FgKill, Quit
<1>3. CASE Handlers
  BY <1>1, <1>3
  DEF Handlers, ChldWait, IntFgpid, TstpFgpid, Fgpid, IntDeref, IntGroup, IntKill, TstpTest,
      TstpGroup, TstpKill, sigquit_handler
<1>4. CASE Interrupts \/ Outside \/ UNCHANGED vars
  BY <1>4
  DEF Interrupts, Deliver, Outside, ChildSetpgid, ChildExit, ChildStop, ChildContinue, Type,
      OutsideUnchanged, vars
<1> QED BY <1>2, <1>3, <1>4 DEF Next

\* The ways a step changes the list: one slot is filled, cleared or marked.
Others(i) == \A k \in Slots \ {i} : jobs'[k] = jobs[k]
Fills(i) ==
    /\ jobs[i].pid = 0
    /\ jobs'[i] = [pid |-> pid["main"], jid |-> nextjid,
                   state |-> IF cmd = "run_fg" THEN "FG" ELSE "BG"]
    /\ nextjid' = IF nextjid + 1 > MAXJOBS THEN 1 ELSE nextjid + 1
    /\ Others(i)
Clears(i) ==
    /\ jobs[i].pid = pid["CHLD"]
    /\ jobs'[i] = clearjob
    /\ \A k \in Slots : jobs'[k].jid < nextjid'
    /\ Others(i)
Marks(i, s) ==
    /\ jobs'[i] = [pid |-> jobs[i].pid, jid |-> jobs[i].jid, state |-> s]
    /\ nextjid' = nextjid
    /\ Others(i)

\* What the steps that change the list do to it.
LEMMA ListSteps ==
    ASSUME IInv, [Next]_vars
    PROVE  \/ AddJob /\ refused' = refused /\ \E i \in Slots : Fills(i)
           \/ /\ AddJob /\ UNCHANGED <<jobs, nextjid>>
              /\ refused' = refused \cup {pid["main"]}
           \/ ChldDelete /\ refused' = refused /\ \E i \in Slots : Clears(i)
           \/ BgSet /\ refused' = refused /\ Marks(ptr["main"], "BG")
           \/ FgSet /\ refused' = refused /\ Marks(ptr["main"], "FG")
           \/ /\ ChldStop /\ refused' = refused
              /\ \E i \in Slots : jobs[i].pid = pid["CHLD"] /\ Marks(i, "ST")
           \/ UNCHANGED <<jobs, nextjid, refused>>
<1> USE DEF IInv, TypeOK, ListTypeOK
<1>1. ASSUME NEW i \in Slots, NEW s, setstate(i, s) PROVE Marks(i, s)
  BY <1>1 DEF setstate, Marks, Others, job_t
<1>2. CASE AddJob
  <2>1. ASSUME NEW i \in Slots, StopsAt(Holding(0), i),
               jobs' = [jobs EXCEPT ![i] = [pid |-> pid["main"], jid |-> nextjid,
                            state |-> IF cmd = "run_fg" THEN "FG" ELSE "BG"]],
               nextjid' = IF nextjid + 1 > MAXJOBS THEN 1 ELSE nextjid + 1
        PROVE  refused' = refused /\ Fills(i)
    BY <1>2, <2>1 DEF StopsAt, Holding, Fills, Others, AddJob
  <2> QED BY <1>2, <2>1 DEF AddJob, addjob, listVars
<1>3. CASE ChldDelete
  <2>1. refused' = refused
    BY <1>3 DEF ChldDelete
  <2>2. ASSUME NEW i \in Slots, getjobpid(pid["CHLD"], i),
               jobs' = [jobs EXCEPT ![i] = clearjob],
               NEW m, maxjid(jobs', m), nextjid' = m + 1
        PROVE  Clears(i)
    <3>1. jobs[i].pid = pid["CHLD"] /\ jobs'[i] = clearjob /\ Others(i)
      BY <2>2 DEF getjobpid, StopsAt, Holding, Others
    <3>2. ASSUME NEW k \in Slots PROVE jobs'[k].jid \in Nat
      BY <2>2 DEF clearjob, job_t
    <3>3. m \in Nat
      BY <2>2, <3>2 DEF maxjid
    <3> QED BY <2>2, <3>1, <3>2, <3>3 DEF maxjid, Clears
  <2> QED BY <1>3, <2>1, <2>2 DEF ChldDelete, deletejob, listVars
<1>4. CASE BgSet
  BY <1>1, <1>4 DEF BgSet, At, PointersSet
<1>5. CASE FgSet
  BY <1>1, <1>5 DEF FgSet, At, PointersSet
<1>6. CASE ChldStop
  <2>1. refused' = refused
    BY <1>6 DEF ChldStop, Die
  <2>2. ASSUME NEW i \in Slots, getjobpid(pid["CHLD"], i), setstate(i, "ST")
        PROVE  jobs[i].pid = pid["CHLD"] /\ Marks(i, "ST")
    BY <1>1, <2>2 DEF getjobpid, StopsAt, Holding
  <2> QED BY <1>6, <2>1, <2>2 DEF ChldStop, Die
<1> QED BY <1>2, <1>3, <1>4, <1>5, <1>6, ListFrame

\* Children are not unborn, nor do the dead return.
LEMMA ProcSteps ==
    ASSUME IInv, [Next]_vars
    PROVE  \A p \in Pids :
              /\ proc[p] = "reaped" => proc'[p] = "reaped"
              /\ proc[p] # "none" => proc'[p] # "none"
              /\ proc[p] # "none" /\ proc[p] # "reaped" /\ proc'[p] = "reaped" =>
                    ChldWait /\ pc'["CHLD"] = "deletejob" /\ pid'["CHLD"] = p
<1> USE DEF IInv, TypeOK
<1>0. "CHLD" \in Contexts
  BY DEF Contexts, Signals
<1>1. CASE Fork
  BY <1>1 DEF Fork
<1>2. CASE AddJob \/ ChldDelete
  BY <1>2 DEF AddJob, ChldDelete, kernelVars
<1>3. CASE ChldWait
  BY <1>0, <1>3 DEF ChldWait, Goto
<1>4. CASE Quiet
  BY <1>4 DEF Quiet
<1> QED BY <1>1, <1>2, <1>3, <1>4, QuietSteps

\* While the main line does not move, a slot is marked ST or loses its job,
\* which has been reaped; nothing else happens to it.
LEMMA Drift ==
    ASSUME IInv, [Next]_vars, ~MainLine
    PROVE  /\ refused' = refused
           /\ \A i \in Slots :
                 \/ /\ jobs'[i].pid = jobs[i].pid /\ jobs'[i].jid = jobs[i].jid
                    /\ jobs'[i].state \in {jobs[i].state, "ST"}
                 \/ /\ jobs'[i] = clearjob
                    /\ jobs[i].pid \in Pids /\ proc[jobs[i].pid] = "reaped"
<1> USE DEF IInv, TypeOK, ListTypeOK
<1>1. ~AddJob /\ ~BgSet /\ ~FgSet
  BY DEF MainLine
<1>2. CASE ChldDelete /\ refused' = refused /\ \E i \in Slots : Clears(i)
  BY <1>2 DEF ChldDelete, At, DeletesReaped, Clears, Others, job_t
<1>3. CASE ChldStop /\ refused' = refused
           /\ \E i \in Slots : jobs[i].pid = pid["CHLD"] /\ Marks(i, "ST")
  BY <1>3 DEF Marks, Others, job_t
<1>4. CASE UNCHANGED <<jobs, nextjid, refused>>
  BY <1>4
<1> QED BY <1>1, <1>2, <1>3, <1>4, ListSteps

----------------------------------------------------------------------------
(* Each part of JInv is kept by every step.                                *)

\* A job keeps a state, a free slot no id.
LEMMA NextSlots ==
    ASSUME IInv, ListedHaveStates, FreeHaveNoId, [Next]_vars
    PROVE  ListedHaveStates' /\ FreeHaveNoId'
<1> USE DEF ListedHaveStates, FreeHaveNoId
<1>1. ASSUME AddJob, NEW i \in Slots, Fills(i)
      PROVE  ListedHaveStates' /\ FreeHaveNoId'
  <2>1. pid["main"] \in Pids /\ 0 \notin Pids
    BY <1>1, PidsAssumption DEF AddJob, At, IInv, PointersSet
  <2> QED BY <1>1, <2>1 DEF Fills, Others
<1>2. ASSUME NEW i \in Slots, Clears(i) PROVE ListedHaveStates' /\ FreeHaveNoId'
  BY <1>2 DEF Clears, Others, clearjob
<1>3. ASSUME NEW i \in Slots, NEW s \in {"FG", "BG", "ST"}, Marks(i, s)
      PROVE  ListedHaveStates' /\ FreeHaveNoId'
  BY <1>3 DEF Marks, Others
<1>4. BgSet \/ FgSet => ptr["main"] \in Slots
  BY DEF BgSet, FgSet, At, IInv, PointersSet
<1>5. CASE UNCHANGED jobs
  BY <1>5
<1> QED BY <1>1, <1>2, <1>3, <1>4, <1>5, ListSteps

\* The id about to be given stays above the ids in use.
LEMMA NextAscends ==
    ASSUME IInv, FreeHaveNoId, NextJidAscends, [Next]_vars
    PROVE  NextJidAscends'
<1> USE MAXJOBSAssumption DEF IInv, TypeOK, ListTypeOK, job_t, NextJidAscends
<1>1. ASSUME NEW i \in Slots, Fills(i) PROVE NextJidAscends'
  <2>1. SUFFICES ASSUME \A k \in Slots : jobs'[k].jid < MAXJOBS
                 PROVE  \A k \in Slots : jobs'[k].jid < nextjid'
    OBVIOUS
  <2>2. jobs[i].jid = 0 /\ jobs'[i].jid = nextjid /\ nextjid' = nextjid + 1
    BY <1>1, <2>1 DEF Fills, FreeHaveNoId
  <2>3. \A k \in Slots \ {i} : jobs'[k].jid = jobs[k].jid
    BY <1>1 DEF Fills, Others
  <2>4. \A k \in Slots : jobs[k].jid < MAXJOBS
    <3>1. \A k \in Slots \ {i} : jobs[k].jid < MAXJOBS
      BY <2>1, <2>3
    <3> QED BY <2>2, <3>1
  <2>5. \A k \in Slots : jobs[k].jid < nextjid
    BY <2>4
  <2> QED BY <2>2, <2>3, <2>5, SMTT(40)
<1>2. ASSUME NEW i \in Slots, Clears(i) PROVE NextJidAscends'
  BY <1>2 DEF Clears
<1>3. ASSUME NEW i \in Slots, NEW s, Marks(i, s) PROVE NextJidAscends'
  <2>1. \A k \in Slots : jobs'[k].jid = jobs[k].jid
    BY <1>3 DEF Marks, Others
  <2> QED BY <1>3, <2>1 DEF Marks
<1>4. BgSet \/ FgSet => ptr["main"] \in Slots
  BY DEF BgSet, FgSet, At, PointersSet
<1>5. CASE UNCHANGED <<jobs, nextjid>>
  BY <1>5
<1> QED BY <1>1, <1>2, <1>3, <1>4, <1>5, ListSteps

\* A refused child stays out of the list.
LEMMA NextRefused ==
    ASSUME IInv, RefusedUnlisted, [Next]_vars
    PROVE  RefusedUnlisted'
<1> USE DEF IInv, TypeOK, RefusedUnlisted
<1>0. "main" \in Contexts
  BY DEF Contexts
<1>1. \A p \in Pids : proc[p] # "none" => proc'[p] # "none"
  BY ProcSteps
<1>2. CASE Fork
  <2>1. PICK p \in Pids : proc[p] = "none" /\ pid' = [pid EXCEPT !["main"] = p]
    BY <1>2 DEF Fork
  <2> QED BY <1>0, <1>1, <1>2, <2>1 DEF Fork, Listed
<1>3. CASE AddJob
  <2>1. /\ pid["main"] \in Pids /\ pid["main"] \notin Listed /\ pid["main"] \notin refused
        /\ proc[pid["main"]] # "none"
        /\ pc'["main"] = "unblock"
    BY <1>0, <1>3 DEF AddJob, At, Goto, PointersSet, ChildForked, Unreaped
  <2>2. ASSUME NEW i \in Slots, Fills(i) PROVE Listed' \subseteq Listed \cup {pid["main"]}
    BY <2>2 DEF Fills, Others, Listed
  <2>3. CASE refused' = refused /\ \E i \in Slots : Fills(i)
    BY <1>1, <2>1, <2>2, <2>3
  <2>4. CASE UNCHANGED jobs /\ refused' = refused \cup {pid["main"]}
    BY <1>1, <2>1, <2>4 DEF Listed
  <2>5. ~ChldDelete /\ ~BgSet /\ ~FgSet /\ ~ChldStop
    BY <1>3 DEF AddJob, ChldDelete, BgSet, FgSet, ChldStop, At
  <2>6. jobs' # jobs \/ nextjid' # nextjid \/ refused' # refused \/ Holding(0) # {}
    BY <1>3, <2>1 DEF AddJob
  <2>7. Holding(0) # {} => jobs' # jobs
    <3>1. ASSUME NEW i \in Slots, StopsAt(Holding(0), i),
                 jobs' = [jobs EXCEPT ![i] = [pid |-> pid["main"], jid |-> nextjid,
                              state |-> IF cmd = "run_fg" THEN "FG" ELSE "BG"]]
          PROVE  jobs' # jobs
      BY <2>1, <3>1, PidsAssumption DEF StopsAt, Holding, ListTypeOK, job_t
    <3> QED BY <1>3, <3>1 DEF AddJob, addjob
  <2> QED BY <1>3, <2>3, <2>4, <2>5, <2>6, <2>7, ListSteps
<1>4. CASE ChldWait
  <2>1. UNCHANGED <<jobs, refused>> /\ pc'["main"] = pc["main"] /\ pid'["main"] = pid["main"]
    BY <1>0, <1>4 DEF ChldWait, Goto, Return
  <2> QED BY <1>1, <2>1 DEF Listed
<1>5. CASE ChldDelete
  <2>1. refused' = refused /\ pc'["main"] = pc["main"] /\ pid'["main"] = pid["main"]
    BY <1>0, <1>5 DEF ChldDelete, Return
  <2>2. Listed' \subseteq Listed
    <3>1. ~MainLine
      BY <1>5, MainFrame DEF ChldDelete, At, Signals
    <3>2. \A i \in Slots : jobs'[i].pid \in {0, jobs[i].pid}
      BY <3>1, Drift DEF clearjob
    <3> QED BY <3>2, SMTT(30) DEF Listed
  <2> QED BY <1>1, <2>1, <2>2
<1>6. CASE Quiet
  <2>1. Listed' = Listed /\ refused' = refused
    BY <1>6 DEF Quiet, Listed
  <2> QED BY <1>1, <1>6, <2>1 DEF Quiet
<1> QED BY <1>2, <1>3, <1>4, <1>5, <1>6, QuietSteps

\* do_bgfg keeps to its command, and bg to a job that is stopped.
LEMMA NextBgfg ==
    ASSUME IInv, BgfgTracks, [Next]_vars
    PROVE  BgfgTracks'
<1> USE DEF IInv, TypeOK, BgfgTracks, BgfgSteps, Goto
<1>0. "main" \in Contexts
  BY DEF Contexts
<1>1. ASSUME NEW how, Die(how) PROVE BgfgTracks'
  BY <1>1 DEF Die, shellVars
<1>2. CASE ReadRun \/ Fork \/ AddJob \/ Unblock \/ WaitScan \/ WaitCheck
  BY <1>0, <1>2 DEF ReadRun, Fork, AddJob, Unblock, WaitScan, WaitCheck
<1>3. CASE ReadBgfg \/ BgfgGroup \/ BgTest \/ FgTest
  BY <1>0, <1>3 DEF ReadBgfg, BgfgGroup, BgTest, FgTest, Leave, At
<1>4. CASE BgSet \/ FgSet
  BY <1>0, <1>4 DEF BgSet, FgSet, Leave, At
<1>5. CASE BgKill \/ FgKill \/ Quit
  BY <1>0, <1>1, <1>5 DEF BgKill, FgKill, Quit, Leave, At
<1>6. CASE ~MainLine
  <2>1. Stays("main") /\ cmd' = cmd
    BY <1>6, HandlerFrame
  <2>2. pc["main"] = "bg_set" =>
           jobs'[ptr["main"]].pid = 0 \/ jobs'[ptr["main"]].state = "ST"
    BY <1>6, Drift DEF clearjob, PointersSet
  <2> QED BY <2>1, <2>2 DEF Stays
<1> QED BY <1>2, <1>3, <1>4, <1>5, <1>6 DEF MainLine

\* A child whose stop sigchld_handler records has not been reaped.
LEMMA NextStopReported ==
    ASSUME IInv, StopReported, [Next]_vars
    PROVE  StopReported'
<1> USE DEF IInv, TypeOK, StopReported, Unreaped
<1>0. "CHLD" \in Contexts /\ "CHLD" \in Signals
  BY DEF Contexts, Signals
<1>1. CASE ChldWait
  BY <1>0, <1>1 DEF ChldWait, Goto, Return, ProcStates
<1>2. CASE ChldDelete
  BY <1>0, <1>2 DEF ChldDelete, Return
<1>3. CASE ChldStop /\ ~Stays("CHLD")
  BY <1>0, <1>3 DEF ChldStop, Die, shellVars, Return, Stays
<1>4. CASE Deliver("CHLD")
  BY <1>0, <1>4 DEF Deliver, Entry
<1>5. CASE ~ChldWait /\ Stays("CHLD")
  BY <1>5, ProcSteps DEF Stays
<1>6. MainLine => Stays("CHLD") /\ ~ChldWait
  BY <1>0, MainFrame DEF ChldWait, At
<1> QED BY <1>1, <1>2, <1>3, <1>4, <1>5, <1>6, HandlerFrame DEF ChldSteps

\* The pid fgpid returns is that of the only slot with it.
LEMMA FgpidSlot ==
    ASSUME TypeOK, PidsDistinct, NEW p \in Pids, fgpid(p)
    PROVE  /\ p \in Listed
           /\ \A i \in Slots : jobs[i].pid = p => jobs[i].state = "FG"
<1>1. PICK i \in Slots : StopsAt(Foreground, i) /\ p = jobs[i].pid
  BY PidsAssumption DEF fgpid
<1>2. jobs[i].state = "FG" /\ p # 0
  BY <1>1, PidsAssumption DEF StopsAt, Foreground
<1> QED BY <1>1, <1>2 DEF PidsDistinct, Listed

\* The group a handler asks for is one it may aim at.
LEMMA GroupAims == ASSUME NEW p \in Pids PROVE Aims(getpgid(p), p)
BY DEF Aims, getpgid

\* What sigint_handler holds stays true until it sends.
LEMMA NextInt ==
    ASSUME IInv, IntTracks, [Next]_vars
    PROVE  IntTracks'
<1> USE DEF IInv, TypeOK, IntTracks
<1>0. "INT" \in Contexts /\ "INT" \in Signals
  BY DEF Contexts, Signals
<1>1. CASE MainLine
  BY <1>0, <1>1, MainFrame DEF Stays
<1>2. CASE ~MainLine /\ Stays("INT")
  <2>1. SUFFICES ASSUME pc["INT"] \in {"deref", "getpgid", "kill"} PROVE IntTracks'
    BY <1>2 DEF Stays
  <2>2. pid["INT"] \in Listed' \/ proc'[pid["INT"]] = "reaped"
    <3>1. ASSUME NEW i \in Slots, jobs[i].pid = pid["INT"], proc[pid["INT"]] # "reaped"
          PROVE  jobs'[i].pid = pid["INT"]
      BY <1>2, <3>1, Drift
    <3> QED BY <2>1, <3>1, ProcSteps DEF Listed
  <2>3. \A i \in Slots : jobs'[i].pid = pid["INT"] => jobs'[i].state # "BG"
    BY <1>2, <2>1, Drift, PidsAssumption DEF clearjob
  <2>4. proc[pid["INT"]] = "reaped" => proc'[pid["INT"]] = "reaped"
    BY <2>1, ProcSteps
  <2> QED BY <1>2, <2>1, <2>2, <2>3, <2>4 DEF Stays, Aims
<1>3. CASE IntFgpid
  <2>1. PICK p \in Pids \cup {0} :
           /\ fgpid(p) /\ pid' = [pid EXCEPT !["INT"] = p]
           /\ IF p = 0 THEN Return("INT") ELSE Goto("INT", "deref")
    BY <1>3 DEF IntFgpid, Fgpid
  <2>2. UNCHANGED <<jobs, proc>>
    BY <1>3 DEF IntFgpid, Fgpid, kernelVars
  <2>3. CASE p = 0
    BY <1>0, <2>1, <2>3 DEF Return
  <2>4. CASE p # 0
    BY <1>0, <2>1, <2>2, <2>4, FgpidSlot DEF Goto, Listed
  <2> QED BY <2>3, <2>4
<1>4. CASE IntDeref /\ ~Stays("INT")
  BY <1>0, <1>4 DEF IntDeref, Die, shellVars, Goto, Stays, Listed, kernelVars, At
<1>5. CASE IntGroup
  BY <1>0, <1>5, GroupAims DEF IntGroup, Goto, Listed, kernelVars, At, Aims
<1>6. CASE IntKill /\ ~Stays("INT")
  BY <1>0, <1>6 DEF IntKill, Die, shellVars, Finish, Return, Stays
<1>7. CASE Deliver("INT")
  BY <1>0, <1>7 DEF Deliver, Entry
<1> QED BY <1>1, <1>2, <1>3, <1>4, <1>5, <1>6, <1>7, HandlerFrame DEF IntSteps

\* The same of sigtstp_handler.
LEMMA NextTstp ==
    ASSUME IInv, TstpTracks, [Next]_vars
    PROVE  TstpTracks'
<1> USE DEF IInv, TypeOK, TstpTracks
<1>0. "TSTP" \in Contexts /\ "TSTP" \in Signals
  BY DEF Contexts, Signals
<1>1. CASE MainLine
  BY <1>0, <1>1, MainFrame DEF Stays
<1>2. CASE ~MainLine /\ Stays("TSTP")
  <2>1. pc["TSTP"] = "getpgid" => jobs'[ptr["TSTP"]].pid \in {0, pid["TSTP"]}
    BY <1>2, Drift DEF clearjob, PointersSet
  <2>2. pc["TSTP"] = "kill" /\ proc[pid["TSTP"]] = "reaped" => proc'[pid["TSTP"]] = "reaped"
    BY ProcSteps
  <2> QED BY <1>2, <2>1, <2>2 DEF Stays, Aims
<1>3. CASE TstpFgpid
  BY <1>0, <1>3 DEF TstpFgpid, Fgpid, Return, Goto
<1>4. CASE TstpTest
  BY <1>0, <1>4
  DEF TstpTest, Goto, Finish, Return, kernelVars, At, getjobpid, StopsAt, Holding
<1>5. CASE TstpGroup
  <2>1. pid["TSTP"] \in Pids /\ Aims(getpgid(jobs[ptr["TSTP"]].pid), pid["TSTP"])
    BY <1>5, GroupAims DEF TstpGroup, At, getpgid, Aims
  <2> QED BY <1>0, <1>5, <2>1 DEF TstpGroup, Goto, kernelVars, Aims
<1>6. CASE TstpKill /\ ~Stays("TSTP")
  BY <1>0, <1>6 DEF TstpKill, Die, shellVars, Finish, Return, Stays
<1>7. CASE Deliver("TSTP")
  BY <1>0, <1>7 DEF Deliver, Entry
<1> QED BY <1>1, <1>2, <1>3, <1>4, <1>5, <1>6, <1>7, HandlerFrame DEF TstpSteps

\* The shell that has ended takes no step.
LEMMA EndIsEnd ==
    ASSUME [Next]_vars, outcome # "up"
    PROVE  UNCHANGED vars
<1>1. ~MainLine
  BY DEF MainLine, At, ReadRun, Fork, AddJob, Unblock, WaitScan, WaitCheck, ReadBgfg,
         BgfgGroup, BgTest, BgSet, BgKill, FgTest, FgKill, FgSet, Quit
<1>2. ~Handlers
  BY DEF Handlers, At, ChldWait, ChldDelete, ChldStop, IntFgpid, TstpFgpid, Fgpid,
         IntDeref, IntGroup, IntKill, TstpTest, TstpGroup, TstpKill, sigquit_handler
<1>3. ~Interrupts /\ ~Outside
  BY DEF Interrupts, Deliver, Outside, ChildSetpgid, ChildExit, ChildStop, ChildContinue, Type
<1> QED BY <1>1, <1>2, <1>3 DEF Next

\* The steps that may end the shell; when they do, nothing else changes.
LEMMA EndSteps ==
    ASSUME [Next]_vars, outcome' # outcome
    PROVE  /\ UNCHANGED <<jobs, proc, stack, pc, pid, refused>>
           /\ \/ outcome' \in {"exit", "killed"}
              \/ (BgKill \/ FgKill) /\ outcome' = "kill_error"
              \/ ChldStop /\ getjobpidNull(pid["CHLD"]) /\ outcome' = "chld_null"
              \/ IntDeref /\ getjobpidNull(pid["INT"]) /\ outcome' = "int_null"
              \/ IntKill /\ killFails(grp["INT"]) /\ outcome' = "kill_error"
              \/ TstpKill /\ killFails(grp["TSTP"]) /\ outcome' = "kill_error"
<1>1. ~UNCHANGED outcome
  OBVIOUS
<1>2. CASE MainLine
  BY <1>1, <1>2
  DEF MainLine, ReadRun, Fork, AddJob, Unblock, WaitScan, WaitCheck, ReadBgfg, BgfgGroup,
      BgTest, BgSet, BgKill, FgTest, FgKill, FgSet, Quit, Die, shellVars
<1>3. CASE Handlers
  BY <1>1, <1>3
  DEF Handlers, ChldWait, ChldDelete, ChldStop, IntFgpid, TstpFgpid, Fgpid, IntDeref,
      IntGroup, IntKill, TstpTest, TstpGroup, TstpKill, sigquit_handler, Die, shellVars
<1>4. CASE Interrupts \/ Outside \/ UNCHANGED vars
  BY <1>1, <1>4
  DEF Interrupts, Deliver, Outside, ChildSetpgid, ChildExit, ChildStop, ChildContinue,
      Type, OutsideUnchanged, vars
<1> QED BY <1>2, <1>3, <1>4 DEF Next

\* A signal that a handler aims fails only when its child has been reaped.
LEMMA AimFails ==
    ASSUME NEW p \in Pids, NEW g, Aims(g, p), killFails(g)
    PROVE  proc[p] = "reaped"
BY PidsAssumption DEF Aims, killFails, ShellGroup, NoGroup

\* Every end of the shell has the cause it should have.
LEMMA NextEnds ==
    ASSUME IInv, BgfgTracks, StopReported, IntTracks, TstpTracks, EndsHaveCauses, [Next]_vars
    PROVE  EndsHaveCauses'
<1> USE DEF IInv, TypeOK, EndsHaveCauses, At
<1>1. CASE outcome' = outcome /\ outcome # "up"
  BY <1>1, EndIsEnd DEF vars, top
<1>2. CASE outcome' = outcome /\ outcome = "up"
  BY <1>2
<1>3. CASE outcome' # outcome
  <2>1. UNCHANGED <<proc, stack, pid, refused>> /\ top' = top
    BY <1>3, EndSteps DEF top
  <2>2. CASE outcome' \in {"exit", "killed"}
    BY <2>2
  <2>3. CASE (BgKill \/ FgKill) /\ outcome' = "kill_error"
    BY <2>3 DEF BgKill, FgKill, BgfgTracks, BgfgSteps
  <2>4. CASE ChldStop /\ getjobpidNull(pid["CHLD"]) /\ outcome' = "chld_null"
    <3>1. pid["CHLD"] \in Unreaped /\ pc["main"] # "addjob"
      BY <2>4 DEF ChldStop, StopReported, WindowMasked, Active
    <3>2. pid["CHLD"] \notin Listed
      BY <2>4, <3>1, PidsAssumption DEF getjobpidNull, Holding, Listed, Unreaped
    <3> QED BY <2>1, <2>4, <3>1, <3>2 DEF ChildrenAreJobs
  <2>5. CASE IntDeref /\ getjobpidNull(pid["INT"]) /\ outcome' = "int_null"
    <3>1. pid["INT"] \in Pids /\ (pid["INT"] \in Listed \/ proc[pid["INT"]] = "reaped")
      BY <2>5 DEF IntDeref, IntTracks
    <3>2. pid["INT"] \notin Listed
      BY <2>5, <3>1, PidsAssumption DEF getjobpidNull, Holding, Listed
    <3> QED BY <2>1, <2>5, <3>1, <3>2
  <2>6. CASE IntKill /\ killFails(grp["INT"]) /\ outcome' = "kill_error"
    BY <2>1, <2>6, AimFails DEF IntKill, IntTracks
  <2>7. CASE TstpKill /\ killFails(grp["TSTP"]) /\ outcome' = "kill_error"
    BY <2>1, <2>7, AimFails DEF TstpKill, TstpTracks
  <2> QED BY <1>3, <2>2, <2>3, <2>4, <2>5, <2>6, <2>7, EndSteps
<1> QED BY <1>1, <1>2, <1>3

----------------------------------------------------------------------------
(* The theorems that hold whatever the commands are.                       *)

\* JInv holds in every reachable state.
LEMMA JInvariance == Spec => [](IInv /\ JInv)
<1>1. Init => JInv
  <2>1. SUFFICES ASSUME Init PROVE JInv
    OBVIOUS
  <2>2. /\ \A i \in Slots : jobs[i] = clearjob
        /\ nextjid = 1 /\ refused = {} /\ outcome = "up"
        /\ pc["main"] = "prompt"
        /\ pc["CHLD"] = "idle" /\ pc["INT"] = "idle" /\ pc["TSTP"] = "idle"
    BY <2>1 DEF Init, initjobs, Contexts, Signals
  <2>3. ListedHaveStates /\ FreeHaveNoId /\ NextJidAscends
    BY <2>2 DEF ListedHaveStates, FreeHaveNoId, NextJidAscends, clearjob
  <2> QED BY <2>2, <2>3 DEF JInv, RefusedUnlisted, BgfgTracks, BgfgSteps, StopReported,
                            IntTracks, TstpTracks, EndsHaveCauses
<1>2. IInv /\ JInv /\ [Next]_vars => IInv' /\ JInv'
  BY NextIInv, NextSlots, NextRefused, NextBgfg, NextStopReported, NextInt, NextTstp,
     NextAscends, NextEnds DEF JInv
<1> QED BY InitIInv, <1>1, <1>2, PTL DEF Spec

\* As long as no id has reached MAXJOBS, addjob gives an id above all others,
\* although deletejob winds nextjid back and bg or fg may mark a free slot.
THEOREM JidsAscend == Spec => []NextJidAscends
BY JInvariance, PTL DEF JInv

\* The shell ends by itself only for the causes EndsHaveCauses names.
THEOREM EndsAreCaused == Spec => []EndsHaveCauses
BY JInvariance, PTL DEF JInv

\* A job leaves the list only after its child was reaped, and a slot is given
\* away only when it is free.
THEOREM LeavesAreReaped == Spec => JobsLeaveReaped
<1>1. IInv /\ [Next]_vars => LeavesReaped
  <2>1. SUFFICES ASSUME IInv, [Next]_vars, NEW i \in Slots,
                        jobs[i].pid # 0, jobs'[i].pid # jobs[i].pid
                 PROVE  jobs'[i].pid = 0 /\ proc[jobs[i].pid] = "reaped"
    BY DEF LeavesReaped
  <2>2. ASSUME NEW k \in Slots, Fills(k) PROVE FALSE
    BY <2>1, <2>2 DEF Fills, Others
  <2>3. ASSUME NEW k \in Slots, NEW s, Marks(k, s) PROVE FALSE
    BY <2>1, <2>3 DEF Marks, Others
  <2>4. ASSUME ChldDelete, NEW k \in Slots, Clears(k)
        PROVE  jobs'[i].pid = 0 /\ proc[jobs[i].pid] = "reaped"
    BY <2>1, <2>4 DEF Clears, Others, ChldDelete, At, IInv, DeletesReaped, clearjob
  <2>5. BgSet \/ FgSet => ptr["main"] \in Slots
    BY <2>1 DEF BgSet, FgSet, At, IInv, PointersSet
  <2>6. CASE UNCHANGED jobs
    BY <2>1, <2>6
  <2> QED BY <2>1, <2>2, <2>3, <2>4, <2>5, <2>6, ListSteps
<1> QED BY Invariance, <1>1, PTL DEF Spec, JobsLeaveReaped

\* ctrl-c kills no job that is in the background, whatever bg or fg does while
\* sigint_handler runs.
THEOREM BackgroundIsSpared == Spec => CtrlCSparesBackground
<1>1. IInv /\ JInv /\ [Next]_vars => KillsForeground
  <2>1. SUFFICES ASSUME IInv, JInv, [Next]_vars,
                        top = "INT", pc["INT"] = "kill", pc'["INT"] = "idle",
                        NEW p \in Pids, proc[p] \in Alive, proc'[p] = "zombie"
                 PROVE  \A i \in Slots : jobs[i].pid = p => jobs[i].state # "BG"
    BY DEF KillsForeground
  <2> USE DEF IInv, TypeOK
  <2>2. ~MainLine
    BY <2>1, MainFrame DEF Signals, Stays
  <2>3. ~Stays("INT") /\ ~Deliver("INT")
    BY <2>1 DEF Stays, Deliver, Entry, Contexts, Signals
  <2>4. IntKill
    BY <2>1, <2>2, <2>3, HandlerFrame DEF IntSteps, IntFgpid, Fgpid, IntDeref, IntGroup, At
  <2>5. grp["INT"] \in Pids /\ proc' = [proc EXCEPT ![grp["INT"]] = "zombie"]
    <3>1. grp["INT"] \in Groups
      BY <2>1 DEF Contexts, Signals
    <3> QED BY <2>1, <2>4, <3>1
            DEF IntKill, Die, shellVars, killFails, Groups, Becomes, NothingSent, Alive
  <2>6. p = grp["INT"]
    BY <2>1, <2>5 DEF Alive
  <2>7. p = pid["INT"]
    BY <2>1, <2>6, PidsAssumption DEF JInv, IntTracks, Aims, ShellGroup, NoGroup
  <2> QED BY <2>1, <2>7 DEF JInv, IntTracks
<1> QED BY JInvariance, <1>1, PTL DEF Spec, CtrlCSparesBackground

----------------------------------------------------------------------------
(* Theorems about shells without the command fg, or without bg and fg.     *)
(* fg marks its job without looking, and so can leave two in the           *)
(* foreground, or one that nobody waits for.                               *)

\* Every step of a shell without fg keeps the foreground to one job, which the
\* main line waits for.
LEMMA NextOneWaitedFor ==
    ASSUME "fg" \notin Commands, IInv, JInv, OneWaitedFor, [Next]_vars
    PROVE  OneWaitedFor'
<1> USE DEF IInv, TypeOK, OneWaitedFor, BgfgSteps
<1>0. "main" \in Contexts
  BY DEF Contexts
<1>1. ASSUME jobs' = jobs PROVE Foreground' = Foreground
  BY <1>1 DEF Foreground
<1>2. ASSUME NEW how, Die(how) PROVE OneWaitedFor'
  BY <1>1, <1>2 DEF Die, shellVars
<1>3. CASE ReadRun \/ Fork \/ Unblock
  BY <1>0, <1>1, <1>3 DEF ReadRun, Fork, Unblock, At, Goto
<1>4. CASE AddJob
  <2>1. pid["main"] # 0 /\ Foreground = {} /\ pc'["main"] = "unblock" /\ cmd' = cmd
    BY <1>0, <1>4, PidsAssumption DEF AddJob, At, Goto, PointersSet
  <2>2. ASSUME NEW i \in Slots, Fills(i)
        PROVE  /\ Foreground' \subseteq {i} /\ jobs'[i].pid # 0
               /\ cmd # "run_fg" => Foreground' = {}
    BY <2>1, <2>2 DEF Fills, Others, Foreground
  <2>3. ~ChldDelete /\ ~BgSet /\ ~FgSet /\ ~ChldStop
    BY <1>4 DEF AddJob, ChldDelete, BgSet, FgSet, ChldStop, At
  <2>4. UNCHANGED jobs \/ \E i \in Slots : Fills(i)
    BY <2>3, ListSteps
  <2> QED BY <1>1, <2>1, <2>2, <2>4
<1>5. CASE WaitScan
  <2>1. PICK p \in Pids \cup {0} :
           /\ fgpid(p) /\ pid' = [pid EXCEPT !["main"] = p]
           /\ Goto("main", IF p = 0 THEN "prompt" ELSE "wait_check")
    BY <1>5 DEF WaitScan
  <2>2. jobs' = jobs
    BY <1>5 DEF WaitScan
  <2>3. p = 0 => Foreground = {}
    BY <2>1 DEF fgpid, StopsAt
  <2>4. \A i \in Foreground : jobs[i].pid = p
    BY <2>1 DEF fgpid, StopsAt
  <2> QED BY <1>0, <1>1, <2>1, <2>2, <2>3, <2>4 DEF Goto
<1>6. CASE WaitCheck
  <2>1. jobs' = jobs /\ pc["main"] = "wait_check"
    BY <1>6 DEF WaitCheck, At
  <2>2. getjobpidNull(pid["main"]) => Foreground = {}
    BY <2>1 DEF getjobpidNull, Holding, Foreground
  <2>3. ASSUME NEW i \in Slots, getjobpid(pid["main"], i), jobs[i].state # "FG"
        PROVE  Foreground = {}
    BY <2>1, <2>3 DEF getjobpid, StopsAt, Holding, Foreground, PidsDistinct
  <2> QED BY <1>0, <1>1, <1>6, <2>1, <2>2, <2>3 DEF WaitCheck, Goto
<1>7. CASE ReadBgfg \/ BgfgGroup \/ BgTest \/ BgKill \/ Quit
  BY <1>0, <1>1, <1>2, <1>7, PidsAssumption
  DEF ReadBgfg, BgfgGroup, BgTest, BgKill, Quit, At, Goto, Leave, JInv, BgfgTracks
<1>8. CASE BgSet
  <2>1. ptr["main"] \in Slots /\ Foreground = {} /\ pc'["main"] = "bg_kill"
    BY <1>0, <1>8 DEF BgSet, At, Goto, PointersSet
  <2>2. Marks(ptr["main"], "BG") \/ UNCHANGED jobs
    BY <1>8, ListSteps DEF BgSet, AddJob, FgSet, ChldDelete, ChldStop, At
  <2>3. Foreground' = {}
    BY <2>1, <2>2 DEF Marks, Others, Foreground
  <2> QED BY <2>1, <2>3
<1>9. CASE FgTest \/ FgKill \/ FgSet
  BY <1>9 DEF FgTest, FgKill, FgSet, At, JInv, BgfgTracks
<1>10. CASE ~MainLine
  <2>1. Stays("main") /\ cmd' = cmd
    BY <1>10, HandlerFrame
  <2>2. \A i \in Foreground' : i \in Foreground /\ jobs'[i].pid = jobs[i].pid
    BY <1>10, Drift DEF Foreground, clearjob
  <2> QED BY <2>1, <2>2 DEF Stays
<1> QED BY <1>3, <1>4, <1>5, <1>6, <1>7, <1>8, <1>9, <1>10 DEF MainLine

\* Without fg, the foreground is waited for in every reachable state.
LEMMA ForegroundIsWaitedFor ==
    ASSUME "fg" \notin Commands PROVE Spec => []OneWaitedFor
<1>1. Init => OneWaitedFor
  BY DEF Init, initjobs, OneWaitedFor, Foreground, clearjob
<1>2. IInv /\ JInv /\ OneWaitedFor /\ [Next]_vars => OneWaitedFor'
  BY NextOneWaitedFor
<1> QED BY JInvariance, <1>1, <1>2, PTL DEF Spec

\* "At most 1 job can be in the FG state" (tsh.c:35), as long as nobody types
\* fg: eval starts a foreground job only once waitfg has seen none.
THEOREM OneForeground ==
    ASSUME "fg" \notin Commands PROVE Spec => []AtMostOneFG
<1>1. OneWaitedFor => AtMostOneFG
  <2>1. SUFFICES ASSUME OneWaitedFor PROVE Cardinality(Foreground) <= 1
    BY DEF AtMostOneFG
  <2>2. CASE Foreground = {}
    BY <2>2, FS_EmptySet
  <2>3. ASSUME NEW i \in Foreground PROVE Cardinality(Foreground) <= 1
    <3>1. Foreground = {i}
      BY <2>1, <2>3 DEF OneWaitedFor
    <3> QED BY <3>1, FS_Singleton
  <2> QED BY <2>2, <2>3
<1> QED BY ForegroundIsWaitedFor, <1>1, PTL

\* The prompt does not come back while a job is in the foreground.
THEOREM PromptAlone ==
    ASSUME "fg" \notin Commands PROVE Spec => []NoFGAtPrompt
<1>1. OneWaitedFor => NoFGAtPrompt
  BY DEF OneWaitedFor, NoFGAtPrompt, At
<1> QED BY ForegroundIsWaitedFor, <1>1, PTL

\* A stop is reported by waitpid, to sigchld_handler.
LEMMA StopSteps ==
    ASSUME IInv, [Next]_vars, NEW p \in Pids, proc[p] # "stopped", proc'[p] = "stopped"
    PROVE  ChldWait /\ pc'["CHLD"] = "stopjob" /\ pid'["CHLD"] = p
<1> USE DEF IInv, TypeOK
<1>0. "CHLD" \in Contexts
  BY DEF Contexts, Signals
<1>1. proc' # proc
  OBVIOUS
<1>2. ASSUME NEW q, NEW s, Becomes(q, s), s # "stopped" PROVE FALSE
  BY <1>2 DEF Becomes
<1>3. CASE MainLine
  BY <1>1, <1>2, <1>3
  DEF MainLine, ReadRun, Fork, AddJob, Unblock, WaitScan, WaitCheck, ReadBgfg, BgfgGroup,
      BgTest, BgSet, BgKill, FgTest, FgKill, FgSet, Quit, Die, kernelVars, Continue, NothingSent
<1>4. CASE ChldWait
  BY <1>0, <1>1, <1>4 DEF ChldWait, Goto
<1>5. CASE Handlers /\ ~ChldWait
  BY <1>1, <1>2, <1>5
  DEF Handlers, ChldDelete, ChldStop, IntFgpid, TstpFgpid, Fgpid, IntDeref, IntGroup, IntKill,
      TstpTest, TstpGroup, TstpKill, sigquit_handler, Die, kernelVars, NothingSent
<1>6. CASE Interrupts \/ Outside \/ UNCHANGED vars
  BY <1>1, <1>2, <1>6
  DEF Interrupts, Deliver, Outside, ChildSetpgid, ChildExit, ChildStop, ChildContinue,
      Type, OutsideUnchanged, vars
<1> QED BY <1>3, <1>4, <1>5, <1>6 DEF Next

\* Every step of a shell without bg and fg keeps the jobs stopped marked.
LEMMA NextStopsMarked ==
    ASSUME Commands \cap {"bg", "fg"} = {}, IInv, JInv, StopsMarked, [Next]_vars
    PROVE  StopsMarked'
<1> USE DEF IInv, TypeOK, ListTypeOK, job_t, StopsMarked
<1>0. /\ {"main", "CHLD"} \subseteq Contexts /\ "CHLD" \in Signals
  BY DEF Contexts, Signals
<1>1. ~BgSet /\ ~FgSet
  BY DEF BgSet, FgSet, At, JInv, BgfgTracks, BgfgSteps
<1>2. pc'["main"] = "addjob" => proc'[pid'["main"]] # "stopped"
  <2>1. CASE Fork
    BY <1>0, <2>1 DEF Fork
  <2>2. CASE ~Fork
    <3>1. pc'["main"] = "addjob" => pc["main"] = "addjob" /\ pid'["main"] = pid["main"]
      BY <1>0, <2>2, QuietSteps
      DEF AddJob, ChldWait, ChldDelete, Quiet, Goto, Return
    <3>2. pc["main"] = "addjob" => pc["CHLD"] = "idle"
      BY DEF WindowMasked, Active
    <3> QED BY <3>1, <3>2, StopSteps DEF PointersSet, ChldWait, At
  <2> QED BY <2>1, <2>2
<1> DEFINE Marked(i) == jobs[i].pid # 0 /\ proc[jobs[i].pid] = "stopped" =>
                 jobs[i].state = "ST" \/ (pc["CHLD"] = "stopjob" /\ pid["CHLD"] = jobs[i].pid)
<1> SUFFICES ASSUME NEW i \in Slots PROVE Marked(i)'
  BY <1>2
<1>3. Marked(i)
  OBVIOUS
<1>4. \/ Stays("CHLD") /\ ~ChldWait
      \/ ChldSteps
      \/ Deliver("CHLD") /\ pc["CHLD"] = "idle"
  BY <1>0, MainFrame, HandlerFrame DEF ChldSteps, ChldWait, Deliver, Blocked, Active, At
<1>5. CASE AddJob
  <2>1. /\ UNCHANGED proc /\ Stays("CHLD") /\ pid["main"] \in Pids
        /\ proc[pid["main"]] # "stopped"
    BY <1>0, <1>5 DEF AddJob, At, Goto, kernelVars, Stays, PointersSet
  <2>2. ASSUME NEW k \in Slots, Fills(k) PROVE Marked(i)'
    BY <1>3, <2>1, <2>2 DEF Fills, Others, Stays
  <2>3. CASE UNCHANGED jobs
    BY <1>3, <2>1, <2>3 DEF Stays
  <2> QED BY <1>1, <1>5, <2>2, <2>3, ListSteps DEF AddJob, ChldDelete, ChldStop, At
<1>6. CASE ChldDelete
  <2>1. pc["CHLD"] = "deletejob" /\ UNCHANGED proc
    BY <1>6 DEF ChldDelete, At, kernelVars
  <2>2. ~MainLine
    BY <1>0, <2>1, MainFrame
  <2> QED BY <1>3, <2>1, <2>2, Drift DEF clearjob
<1>7. CASE ChldStop
  <2>1. pc["CHLD"] = "stopjob" /\ UNCHANGED proc
    BY <1>7 DEF ChldStop, At, Die, kernelVars
  <2>2. CASE Die("chld_null")
    BY <1>3, <2>2 DEF Die, shellVars
  <2>3. ASSUME NEW k \in Slots, jobs[k].pid = pid["CHLD"], Marks(k, "ST") PROVE Marked(i)'
    <3>1. CASE i = k
      BY <2>3, <3>1 DEF Marks
    <3>2. CASE i # k
      <4>1. jobs'[i] = jobs[i] /\ (jobs[i].pid # 0 => jobs[i].pid # pid["CHLD"])
        BY <2>3, <3>2 DEF Marks, Others, PidsDistinct
      <4> QED BY <1>3, <2>1, <4>1
    <3> QED BY <3>1, <3>2
  <2>4. ASSUME NEW k \in Slots, getjobpid(pid["CHLD"], k), setstate(k, "ST")
        PROVE  jobs[k].pid = pid["CHLD"] /\ Marks(k, "ST")
    BY <2>4 DEF getjobpid, StopsAt, Holding, setstate, Marks, Others
  <2> QED BY <1>7, <2>2, <2>3, <2>4 DEF ChldStop
<1>8. CASE ~AddJob /\ ~ChldDelete /\ ~ChldStop
  <2>1. jobs' = jobs
    BY <1>1, <1>8, ListSteps
  <2>2. CASE ChldWait
    <3>1. pc["CHLD"] = "waitpid"
      BY <2>2 DEF ChldWait, At
    <3> QED BY <1>3, <2>1, <3>1, StopSteps
  <2>3. CASE ~ChldWait
    BY <1>3, <1>4, <1>8, <2>1, <2>3, StopSteps DEF ChldSteps, Stays
  <2> QED BY <2>2, <2>3
<1> QED BY <1>5, <1>6, <1>7, <1>8

\* Without bg and fg, a job whose stop waitpid has reported is marked ST, or
\* sigchld_handler is about to mark it.
THEOREM StopsListed ==
    ASSUME Commands \cap {"bg", "fg"} = {} PROVE Spec => []StopsAreListed
<1>1. Init => StopsMarked
  BY DEF Init, initjobs, StopsMarked, clearjob, Contexts
<1>2. IInv /\ JInv /\ StopsMarked /\ [Next]_vars => StopsMarked'
  BY NextStopsMarked
<1>3. StopsMarked => StopsAreListed
  BY DEF StopsMarked, StopsAreListed
<1> QED BY JInvariance, <1>1, <1>2, <1>3, PTL DEF Spec

----------------------------------------------------------------------------
(* The shell implements JobControl.                                        *)

\* Where a pid is in one slot, that slot is the first with it.
LEMMA FirstSlot ==
    ASSUME NEW J, NEW p, p # 0, NEW i \in Slots, J[i].pid = p,
           \A k \in Slots : J[k].pid = p => k = i
    PROVE  (CHOOSE k \in Slots : p # 0 /\ k \in {m \in Slots : J[m].pid = p}
                                 /\ \A l \in {m \in Slots : J[m].pid = p} : k <= l) = i
<1>1. i \in Int
  BY MAXJOBSAssumption DEF Slots
<1> DEFINE First(k) == p # 0 /\ k \in {m \in Slots : J[m].pid = p}
                       /\ \A l \in {m \in Slots : J[m].pid = p} : k <= l
<1>2. First(i)
  BY <1>1
<1>3. \A k \in Slots : First(k) => k = i
  OBVIOUS
<1> HIDE DEF First
<1>4. (CHOOSE k \in Slots : First(k)) = i
  BY <1>2, <1>3
<1> QED BY <1>4 DEF First

\* The job of a pid: what its only slot says, or whether it is over.
LEMMA JobOfIs ==
    ASSUME PidsDistinct, NEW p \in Pids
    PROVE  /\ \A i \in Slots : jobs[i].pid = p => JobOf(p) = jobs[i].state
           /\ p \notin Listed =>
                 JobOf(p) = IF proc[p] = "reaped" /\ p \notin refused THEN "gone" ELSE "none"
<1>1. ASSUME NEW i \in Slots, jobs[i].pid = p PROVE JobOf(p) = jobs[i].state
  <2>1. p # 0 /\ \A k \in Slots : jobs[k].pid = p => k = i
    BY <1>1, PidsAssumption DEF PidsDistinct
  <2>2. (CHOOSE k \in Slots : getjobpid(p, k)) = i
    BY <1>1, <2>1, FirstSlot DEF getjobpid, StopsAt, Holding
  <2> QED BY <1>1, <2>1, <2>2 DEF JobOf, Listed
<1> QED BY <1>1 DEF JobOf

LEMMA JobOfIsNext ==
    ASSUME PidsDistinct', NEW p \in Pids
    PROVE  /\ \A i \in Slots : jobs'[i].pid = p => JobOf(p)' = jobs'[i].state
           /\ p \notin Listed' =>
                 JobOf(p)' = IF proc'[p] = "reaped" /\ p \notin refused' THEN "gone" ELSE "none"
<1>1. ASSUME NEW i \in Slots, jobs'[i].pid = p PROVE JobOf(p)' = jobs'[i].state
  <2>1. p # 0 /\ \A k \in Slots : jobs'[k].pid = p => k = i
    BY <1>1, PidsAssumption DEF PidsDistinct
  <2>2. (CHOOSE k \in Slots : getjobpid(p, k)') = i
    BY <1>1, <2>1, FirstSlot DEF getjobpid, StopsAt, Holding
  <2> QED BY <1>1, <2>1, <2>2 DEF JobOf, Listed
<1> QED BY <1>1 DEF JobOf

\* A job stays as it is when its slot does and it does not end.
LEMMA JobOfSame ==
    ASSUME IInv, IInv', NEW p \in Pids,
           \A i \in Slots : jobs'[i].pid = p <=> jobs[i].pid = p,
           \A i \in Slots : jobs[i].pid = p => jobs'[i].state = jobs[i].state,
           p \notin Listed =>
              ((proc'[p] = "reaped" /\ p \notin refused')
                  <=> (proc[p] = "reaped" /\ p \notin refused))
    PROVE  JobOf(p)' = JobOf(p)
<1>1. CASE p \in Listed
  <2>1. PICK i \in Slots : jobs[i].pid = p
    BY <1>1 DEF Listed
  <2> QED BY <2>1, JobOfIs, JobOfIsNext DEF IInv
<1>2. CASE p \notin Listed
  <2>1. p \notin Listed'
    BY <1>2, PidsAssumption DEF Listed
  <2> QED BY <1>2, <2>1, JobOfIs, JobOfIsNext DEF IInv
<1> QED BY <1>1, <1>2

\* The steps that mark a slot change the job in it, if any, and no other.
LEMMA MarkedJob ==
    ASSUME IInv, IInv', NEW i \in Slots, NEW s, Marks(i, s), UNCHANGED <<proc, refused>>
    PROVE  \A q \in Pids :
              IF q = jobs[i].pid THEN JobOf(q) = jobs[i].state /\ JobOf(q)' = s
              ELSE JobOf(q)' = JobOf(q)
<1>1. \A k \in Slots : jobs'[k].pid = jobs[k].pid
  BY DEF Marks, Others
<1>2. ASSUME NEW q \in Pids, q # jobs[i].pid PROVE JobOf(q)' = JobOf(q)
  <2>1. \A k \in Slots : jobs[k].pid = q => jobs'[k].state = jobs[k].state
    BY <1>2 DEF Marks, Others
  <2> QED BY <1>1, <2>1, JobOfSame
<1>3. ASSUME NEW q \in Pids, q = jobs[i].pid
      PROVE  JobOf(q) = jobs[i].state /\ JobOf(q)' = s
  BY <1>1, <1>3, JobOfIs, JobOfIsNext DEF Marks, IInv
<1> QED BY <1>2, <1>3

\* The abstract state.
JobMap == [p \in Pids |-> JobOf(p)]

\* A change of the job p alone is a change of JobMap at p.
LEMMA JobMapTurns ==
    ASSUME NEW p \in Pids, NEW to, JobOf(p)' = to,
           \A q \in Pids : q # p => JobOf(q)' = JobOf(q)
    PROVE  /\ [q \in Pids |-> JobOf(q)][p] = JobOf(p)
           /\ [q \in Pids |-> JobOf(q)]' = [[q \in Pids |-> JobOf(q)] EXCEPT ![p] = to]
<1>1. [q \in Pids |-> JobOf(q)'] = [[q \in Pids |-> JobOf(q)] EXCEPT ![p] = to]
  OBVIOUS
<1> QED BY <1>1

\* Each step of the shell is one of JobControl, or changes no job.
LEMMA StepImplements ==
    ASSUME IInv, JInv, IInv', [Next]_vars
    PROVE  JC!Next \/ UNCHANGED JobMap
<1> USE DEF IInv, TypeOK, ListTypeOK, job_t
<1>0. ASSUME \A q \in Pids : JobOf(q)' = JobOf(q) PROVE UNCHANGED JobMap
  BY <1>0 DEF JobMap
<1>1. ASSUME AddJob, refused' = refused, NEW i \in Slots, Fills(i) PROVE JC!Next
  <2>0. PICK p \in Pids : p = pid["main"]
    BY <1>1 DEF AddJob, At, PointersSet
  <2>1. /\ p \notin Listed /\ proc[p] # "reaped" /\ UNCHANGED proc
        /\ jobs[i].pid = 0 /\ jobs'[i].pid = p
    BY <1>1, <2>0 DEF AddJob, At, ChildForked, Unreaped, kernelVars, Fills
  <2>2. \A q \in Pids : q # p => JobOf(q)' = JobOf(q)
    BY <1>1, <2>1, JobOfSame, PidsAssumption DEF Fills, Others
  <2>3. JobOf(p) \in {"none"}
    BY <2>1, JobOfIs
  <2>4. JobOf(p)' = "FG" \/ JobOf(p)' = "BG"
    BY <1>1, <2>1, JobOfIsNext DEF Fills
  <2>5. JC!Turns(p, {"none"}, "FG") \/ JC!Turns(p, {"none"}, "BG")
    BY <2>2, <2>3, <2>4, JobMapTurns DEF JC!Turns
  <2> QED BY <2>5 DEF JC!Next, JC!Start
<1>2. ASSUME AddJob, UNCHANGED jobs, refused' = refused \cup {pid["main"]}
      PROVE  UNCHANGED JobMap
  <2>1. proc[pid["main"]] # "reaped" /\ UNCHANGED proc
    BY <1>2 DEF AddJob, At, PointersSet, ChildForked, Unreaped, kernelVars
  <2> QED BY <1>0, <1>2, <2>1, JobOfSame
<1>3. ASSUME ChldDelete, refused' = refused, NEW i \in Slots, Clears(i) PROVE JC!Next
  <2>0. PICK p \in Pids : p = pid["CHLD"]
    BY <1>3 DEF ChldDelete, At, DeletesReaped
  <2>1. /\ proc[p] = "reaped" /\ UNCHANGED proc
        /\ jobs[i].pid = p /\ jobs'[i].pid = 0 /\ p # 0
    BY <1>3, <2>0, PidsAssumption DEF ChldDelete, At, DeletesReaped, kernelVars, Clears, clearjob
  <2>2. \A q \in Pids : q # p => JobOf(q)' = JobOf(q)
    BY <1>3, <2>1, JobOfSame, PidsAssumption DEF Clears, Others
  <2>3. JobOf(p) \in {"FG", "BG", "ST"}
    BY <2>1, JobOfIs DEF JInv, ListedHaveStates
  <2>4. p \notin Listed' /\ p \notin refused'
    <3>1. ASSUME NEW k \in Slots PROVE jobs'[k].pid # p
      <4>1. CASE k = i
        BY <2>1, <4>1
      <4>2. CASE k # i
        <5>1. jobs[k].pid # p
          BY <1>3, <2>1, <4>2 DEF PidsDistinct
        <5>2. jobs'[k] = jobs[k]
          BY <1>3, <4>2 DEF Clears, Others
        <5> QED BY <5>1, <5>2
      <4> QED BY <4>1, <4>2
    <3>2. p \in Listed
      BY <2>1 DEF Listed
    <3> QED BY <1>3, <3>1, <3>2 DEF Listed, JInv, RefusedUnlisted
  <2>5. JobOf(p)' = "gone"
    BY <2>1, <2>4, JobOfIsNext
  <2>6. JC!Turns(p, {"FG", "BG", "ST"}, "gone")
    BY <2>2, <2>3, <2>5, JobMapTurns DEF JC!Turns
  <2> QED BY <2>6 DEF JC!Next, JC!End
<1>4. ASSUME BgSet, Marks(ptr["main"], "BG"), refused' = refused
      PROVE  JC!Next \/ UNCHANGED JobMap
  <2> DEFINE i == ptr["main"]
  <2>1. i \in Slots /\ UNCHANGED proc /\ (jobs[i].pid = 0 \/ jobs[i].state = "ST")
    BY <1>4 DEF BgSet, At, kernelVars, PointersSet, JInv, BgfgTracks
  <2>2. ASSUME NEW p \in Pids, p = jobs[i].pid PROVE JC!Next
    <3>1. JobOf(p) \in {"ST"} /\ JobOf(p)' = "BG"
      BY <1>4, <2>1, <2>2, MarkedJob, PidsAssumption
    <3>2. \A q \in Pids : q # p => JobOf(q)' = JobOf(q)
      BY <1>4, <2>1, <2>2, MarkedJob
    <3>3. JC!Turns(p, {"ST"}, "BG")
      BY <3>1, <3>2, JobMapTurns DEF JC!Turns
    <3> QED BY <3>3 DEF JC!Next, JC!Bg
  <2>3. CASE jobs[i].pid \notin Pids
    BY <1>0, <1>4, <2>1, <2>3, MarkedJob
  <2> QED BY <2>2, <2>3
<1>5. ASSUME FgSet, Marks(ptr["main"], "FG"), refused' = refused
      PROVE  JC!Next \/ UNCHANGED JobMap
  <2> DEFINE i == ptr["main"]
  <2>1. i \in Slots /\ UNCHANGED proc
    BY <1>5 DEF FgSet, At, kernelVars, PointersSet
  <2>2. ASSUME NEW p \in Pids, p = jobs[i].pid, jobs[i].state # "FG" PROVE JC!Next
    <3>1. jobs[i].state \in {"ST", "BG"}
      BY <2>1, <2>2, PidsAssumption DEF JInv, ListedHaveStates
    <3>2. JobOf(p) \in {"ST", "BG"} /\ JobOf(p)' = "FG"
      BY <1>5, <2>1, <2>2, <3>1, MarkedJob, SMTT(30)
    <3>3. \A q \in Pids : q # p => JobOf(q)' = JobOf(q)
      BY <1>5, <2>1, <2>2, MarkedJob
    <3>4. JC!Turns(p, {"ST", "BG"}, "FG")
      BY <3>2, <3>3, JobMapTurns DEF JC!Turns
    <3> QED BY <3>4 DEF JC!Next, JC!Fg
  <2>3. CASE jobs[i].pid \notin Pids \/ jobs[i].state = "FG"
    BY <1>0, <1>5, <2>1, <2>3, MarkedJob
  <2> QED BY <2>2, <2>3
<1>6. ASSUME ChldStop, NEW i \in Slots, jobs[i].pid = pid["CHLD"], Marks(i, "ST"),
             refused' = refused
      PROVE  JC!Next \/ UNCHANGED JobMap
  <2>1. UNCHANGED proc /\ pid["CHLD"] \in Pids
    BY <1>6 DEF ChldStop, At, Die, kernelVars, JInv, StopReported, Unreaped
  <2>2. jobs[i].state \in {"FG", "BG", "ST"}
    BY <1>6, <2>1, PidsAssumption DEF JInv, ListedHaveStates
  <2>3. CASE jobs[i].state \in {"FG", "BG"}
    <3>1. PICK p \in Pids : p = jobs[i].pid
      BY <1>6, <2>1
    <3>2. JobOf(p) \in {"FG", "BG"} /\ JobOf(p)' = "ST"
      BY <1>6, <2>1, <2>3, <3>1, MarkedJob
    <3>3. \A q \in Pids : q # p => JobOf(q)' = JobOf(q)
      BY <1>6, <2>1, <3>1, MarkedJob
    <3>4. JC!Turns(p, {"FG", "BG"}, "ST")
      BY <3>2, <3>3, JobMapTurns DEF JC!Turns
    <3> QED BY <3>4 DEF JC!Next, JC!Stop
  <2>4. CASE jobs[i].state = "ST"
    BY <1>0, <1>6, <2>1, <2>4, MarkedJob
  <2> QED BY <2>2, <2>3, <2>4
<1>7. ASSUME UNCHANGED <<jobs, refused>> PROVE UNCHANGED JobMap
  <2>1. ASSUME NEW q \in Pids, q \notin Listed, q \notin refused
        PROVE  proc'[q] = "reaped" <=> proc[q] = "reaped"
    <3>1. ASSUME proc[q] # "reaped", proc'[q] = "reaped" PROVE FALSE
      <4>1. CASE proc[q] = "none"
        BY <3>1, <4>1, QuietSteps
        DEF Fork, AddJob, ChldWait, ChldDelete, Quiet, kernelVars
      <4>2. CASE proc[q] # "none"
        <5>1. ChldWait
          BY <3>1, <4>2, ProcSteps
        <5>2. pc["main"] # "addjob"
          BY <5>1 DEF ChldWait, At, WindowMasked, Active
        <5> QED BY <2>1, <3>1, <4>2, <5>2 DEF ChildrenAreJobs, Unreaped
      <4> QED BY <4>1, <4>2
    <3> QED BY <3>1, ProcSteps
  <2> QED BY <1>0, <1>7, <2>1, JobOfSame
<1> QED BY <1>1, <1>2, <1>3, <1>4, <1>5, <1>6, <1>7, ListSteps

\* The shell implements the job control of tsh.c:20-36, for every number of
\* slots, pids, commands and keys, whatever handler runs between two steps.
THEOREM JobControlImplemented == Spec => ImplementsJobControl
<1>1. Init => JC!Init
  <2>1. SUFFICES ASSUME Init PROVE [p \in Pids |-> JobOf(p)] = [p \in Pids |-> "none"]
    BY DEF JC!Init
  <2>2. \A i \in Slots : jobs[i].pid = 0
    BY <2>1 DEF Init, initjobs, clearjob
  <2>3. ASSUME NEW p \in Pids PROVE JobOf(p) = "none"
    BY <2>1, <2>2, PidsAssumption DEF JobOf, Listed, Init
  <2> QED BY <2>3
<1>2. IInv /\ JInv /\ IInv' /\ [Next]_vars => [JC!Next]_JobMap
  BY StepImplements
<1>3. QED BY JInvariance, <1>1, <1>2, PTL DEF Spec, ImplementsJobControl, JC!Spec, JobMap
=============================================================================
