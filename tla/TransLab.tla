------------------------------ MODULE TransLab ------------------------------
(***************************************************************************)
(* The evaluation of the transpose functions: test-trans.c starts tracegen *)
(* under valgrind and then the reference simulator, once for each function *)
(* that is registered, and reads what they leave in files; driver.py (or a *)
(* user) starts test-trans once for each shape.                            *)
(*                                                                         *)
(* A file is known by what is in it: the set of the runs <<k, f>>, of      *)
(* function f in the k-th test-trans, whose tracegen has written to it or, *)
(* for .csim_results, whose accesses were counted.  {Old} is a count that  *)
(* lay there before (.csim_results is in the repository).                  *)
(*                                                                         *)
(* alarm(120) ends test-trans but not the child it waits for.  Such an     *)
(* orphan goes on at its own pace, whatever starts meanwhile.  (Where the  *)
(* shell of system() waits for it, the shell holds the pipe of driver.py,  *)
(* which then waits too; a shell that has become the command does not.)    *)
(*                                                                         *)
(* Outside src/, or binary: valgrind, which may be missing, and csim-ref,  *)
(* which may fail.  Shapes the options refuse end test-trans at once and   *)
(* are left out, as are the points driver.py gives for a count.            *)
(***************************************************************************)
EXTENDS Trans, Sequences

CONSTANTS
    func_list,      \* the functions registered, in order
    Sessions,       \* the shapes, one after the other, a test-trans for each
    Unreliable,     \* which of valgrind and csim-ref may fail
    MaxAlarms       \* bound on the alarms that strike

ASSUME TransLabAssumption ==
    /\ func_list \in Seq(Functions)
    /\ Sessions \subseteq Seq([m : Side, n : Side])
    /\ Unreliable \subseteq {"valgrind", "csim-ref"}
    /\ MaxAlarms \in Nat

VARIABLES
    session,
    k,                  \* the test-trans that runs, or ran last
    pc,                 \* its step; "off" when none runs
    f,                  \* i of eval_perf
    results,            \* what is to be printed of the submission
    printed,            \* what each test-trans printed: TEST_TRANS_RESULTS
    trace_tmp, trace_f, csim_results,       \* the files
    orphans,            \* children whose test-trans is gone
    alarms,             \* number of alarms that struck
    valid,              \* ghost: the runs whose function transposed,
    simFailed,          \* those csim-ref failed in,
    disturbed           \* and those whose files an orphan wrote to meanwhile

ghosts == <<valid, simFailed, disturbed>>
files == <<trace_tmp, trace_f, csim_results>>
labVars == <<session, k, pc, f, results, printed, files, orphans, alarms, ghosts>>
vars == <<transVars, labVars>>

Nobody == 0
Old == <<0, 0>>
INT_MAX == {<<0, 1>>}
Zero == {<<0, 2>>}      \* the count a handler prints
FirstResults == [funcid |-> Nobody, correct |-> 0, misses |-> INT_MAX]

Init ==
    /\ session \in Sessions
    /\ k = 0 /\ pc = "off" /\ f = 1
    /\ results = FirstResults
    /\ printed = <<>>
    /\ trace_tmp = {} /\ trace_f = [x \in DOMAIN func_list |-> {}]
    /\ csim_results = {Old}
    /\ orphans = {} /\ alarms = 0
    /\ valid = {} /\ simFailed = {} /\ disturbed = {}
    /\ M = 0 /\ N = 0 /\ fn = "trans"
    /\ A = FilledA(0, 0) /\ B = FilledB(0, 0)
    /\ i = 0 /\ j = 0 /\ row = 0 /\ col = 0 /\ step = "idle"

----------------------------------------------------------------------------
\* main, up to eval_perf; results and func_list are fresh.
Start ==
    /\ pc = "off" /\ k < Len(session)
    /\ k' = k + 1 /\ f' = 1 /\ results' = FirstResults
    /\ pc' = "eval"
    /\ UNCHANGED <<transVars, session, printed, files, orphans, alarms, ghosts>>

IsSubmission == func_list[f] = "transpose_submit"

\* The shell empties trace.tmp; tracegen starts: registerFunctions, initMatrix,
\* .marker.  Without valgrind the exit status is that of a failure.
Tracegen ==
    /\ pc = "eval" /\ f \in DOMAIN func_list
    /\ results' = IF IsSubmission THEN [results EXCEPT !.funcid = f] ELSE results
    /\ trace_tmp' = {<<k, f>>}
    /\ \/ /\ Call(session[k].m, session[k].n, func_list[f])
          /\ pc' = "tracegen"
          /\ UNCHANGED f
       \/ "valgrind" \in Unreliable /\ f' = f + 1 /\ UNCHANGED <<transVars, pc>>
    /\ UNCHANGED <<session, k, printed, trace_f, csim_results, orphans, alarms, ghosts>>

\* tracegen calls the function.
Loop == pc = "tracegen" /\ TransNext /\ UNCHANGED labVars

\* Fault: the exit status is not looked at.
Validate_Ignored ==
    /\ pc = "tracegen" /\ step = "done"
    /\ pc' = "filter"
    /\ valid' = IF validate THEN valid \cup {<<k, f>>} ELSE valid
    /\ UNCHANGED <<transVars, session, k, f, results, printed, files, orphans, alarms, simFailed,
                   disturbed>>

\* tracegen ends; its exit status says whether the function transposed, and
\* if not, eval_perf goes on with the next function (75).
Validate ==
    /\ pc = "tracegen" /\ step = "done"
    /\ \/ /\ validate
          /\ valid' = valid \cup {<<k, f>>}
          /\ pc' = "filter"
          /\ UNCHANGED f
       \/ /\ ~validate
          /\ pc' = "eval" /\ f' = f + 1
          /\ UNCHANGED valid
    /\ UNCHANGED <<transVars, session, k, results, printed, files, orphans, alarms, simFailed,
                   disturbed>>

\* What lies between the markers is copied to trace.f<i>.
Filter ==
    /\ pc = "filter"
    /\ results' = IF results.funcid = f THEN [results EXCEPT !.correct = 1] ELSE results
    /\ trace_f' = [trace_f EXCEPT ![f] = trace_tmp]
    /\ pc' = "csim"
    /\ UNCHANGED <<transVars, session, k, f, printed, trace_tmp, csim_results, orphans, alarms,
                   ghosts>>

\* csim-ref; whether it succeeds is not looked at (142).
Csim ==
    /\ pc = "csim"
    /\ \/ csim_results' = trace_f[f] /\ UNCHANGED simFailed
       \/ /\ "csim-ref" \in Unreliable
          /\ simFailed' = simFailed \cup {<<k, f>>}
          /\ UNCHANGED csim_results
    /\ pc' = "collect"
    /\ UNCHANGED <<transVars, session, k, f, results, printed, trace_tmp, trace_f, orphans,
                   alarms, valid, disturbed>>

\* Fault: the misses of every function are recorded.
Collect_Any ==
    /\ pc = "collect"
    /\ results' = [results EXCEPT !.misses = csim_results]
    /\ f' = f + 1 /\ pc' = "eval"
    /\ UNCHANGED <<transVars, session, k, printed, files, orphans, alarms, ghosts>>

\* (What fscanf leaves in misses when the file is empty is of no run.)
Collect ==
    /\ pc = "collect"
    /\ results' = IF results.funcid = f THEN [results EXCEPT !.misses = csim_results] ELSE results
    /\ f' = f + 1 /\ pc' = "eval"
    /\ UNCHANGED <<transVars, session, k, printed, files, orphans, alarms, ghosts>>

\* What driver.py parses (72, 79, 86).
PrintResults(correct, misses) ==
    printed' = Append(printed, [correct |-> correct, misses |-> misses])

Summary ==
    /\ pc = "eval" /\ f \notin DOMAIN func_list
    /\ IF results.funcid = Nobody THEN PrintResults(0, Zero)
       ELSE PrintResults(results.correct, results.misses)
    /\ pc' = "off"
    /\ UNCHANGED <<transVars, session, k, f, results, files, orphans, alarms, ghosts>>

\* The child test-trans waits for, if any: what it does, the file it reads, and
\* what it is to write.
Child ==
    IF pc = "tracegen" THEN {[does |-> "trace", f |-> f, of |-> {<<k, f>>}]}
    ELSE IF pc = "csim" THEN {[does |-> "count", f |-> f, of |-> trace_f[f]]}
    ELSE {}

sigalrm_handler ==
    /\ pc # "off" /\ alarms < MaxAlarms
    /\ alarms' = alarms + 1
    /\ orphans' = orphans \cup Child
    /\ PrintResults(0, Zero)
    /\ pc' = "off"
    /\ UNCHANGED <<transVars, session, k, f, results, files, ghosts>>

\* An orphan writes to a file: it disturbs the run that is to read it.
Disturbs(readers) ==
    disturbed' = IF pc \in readers THEN disturbed \cup {<<k, f>>} ELSE disturbed

\* An orphan tracegen writes, into whatever trace.tmp has become.
OrphanTraces ==
    \E o \in orphans :
        /\ o.does = "trace"
        /\ trace_tmp' = trace_tmp \cup o.of
        /\ Disturbs({"tracegen", "filter"})
        /\ UNCHANGED <<transVars, session, k, pc, f, results, printed, trace_f, csim_results,
                       orphans, alarms, valid, simFailed>>

\* An orphan csim-ref reads on, also what has replaced its trace; then its
\* printSummary opens .csim_results, which empties it, and writes the counts.
OrphanReads ==
    \E o \in orphans :
        /\ o.does = "count"
        /\ orphans' = (orphans \ {o}) \cup {[o EXCEPT !.of = @ \cup trace_f[o.f]]}
        /\ UNCHANGED <<transVars, session, k, pc, f, results, printed, files, alarms, ghosts>>

OrphanOpens ==
    \E o \in orphans :
        /\ o.does = "count"
        /\ orphans' = (orphans \ {o}) \cup {[o EXCEPT !.does = "print"]}
        /\ csim_results' = {}
        /\ Disturbs({"collect"})
        /\ UNCHANGED <<transVars, session, k, pc, f, results, printed, trace_tmp, trace_f,
                       alarms, valid, simFailed>>

OrphanPrints ==
    \E o \in orphans :
        /\ o.does = "print"
        /\ orphans' = orphans \ {o}
        /\ csim_results' = o.of
        /\ Disturbs({"collect"})
        /\ UNCHANGED <<transVars, session, k, pc, f, results, printed, trace_tmp, trace_f,
                       alarms, valid, simFailed>>

\* An orphan ends: a tracegen that has written all, or one that fails.
OrphanEnds ==
    \E o \in orphans :
        /\ orphans' = orphans \ {o}
        /\ UNCHANGED <<transVars, session, k, pc, f, results, printed, files, alarms, ghosts>>

Orphan == OrphanTraces \/ OrphanReads \/ OrphanOpens \/ OrphanPrints \/ OrphanEnds

Next == Start \/ Tracegen \/ Loop \/ Validate \/ Filter \/ Csim \/ Collect \/ Summary
        \/ sigalrm_handler \/ Orphan

Spec == Init /\ [][Next]_vars

----------------------------------------------------------------------------
(* Properties.                                                             *)

Submissions == {x \in DOMAIN func_list : func_list[x] = "transpose_submit"}
TimedOut(n) == printed[n] = [correct |-> 0, misses |-> Zero]

\* correct is 1 exactly when the submission was seen to transpose this shape,
\* in this run (74-90); no other function and no earlier run counts.
CorrectIsValidated ==
    \A n \in DOMAIN printed, x \in Submissions :
        ~TimedOut(n) =>
            (printed[n].correct = 1 <=> <<n, x>> \in valid)

\* test-trans "records the results for their official submitted version"
\* (test-trans.c:3-4): the misses printed for a correct submission are those of
\* its own trace in this run.  They need not be: .csim_results holds other
\* counts after a csim-ref that failed, or an orphan that has written since.
CountsAreOwn ==
    \A n \in DOMAIN printed, x \in Submissions :
        printed[n].correct = 1 => printed[n].misses = {<<n, x>>}

\* These are the only ways.  The misses are of another function, another run or
\* several only if csim-ref failed for the submission in this very run, or an
\* orphan wrote to trace.tmp between the start of its tracegen and Filter, or to
\* .csim_results between its csim-ref and Collect.  An orphan that lives on
\* meanwhile, reads, or writes at any other time does no harm.
CountsOwnUndisturbed ==
    \A n \in DOMAIN printed, x \in Submissions :
        printed[n].correct = 1 /\ <<n, x>> \notin simFailed \cup disturbed =>
            printed[n].misses = {<<n, x>>}
=============================================================================
