------------------------------- MODULE Fsecs -------------------------------
(***************************************************************************)
(* How mdriver times a run of f (fsecs.c), in the three ways config.h      *)
(* chooses from: the K-best scheme of fcyc.c over the cycle counter of     *)
(* Clock, and the averages of ftimer.c over the interval timer and over    *)
(* gettimeofday.                                                           *)
(*                                                                         *)
(* f takes some cycles of its own.  Samples are kept in units of 1/SCALE   *)
(* cycles, epsilon in percent.  The interval timer and the time of day     *)
(* count seconds of USEC units; here a unit is a cycle.  The clock rate,   *)
(* by which fsecs divides, is left out.                                    *)
(***************************************************************************)
EXTENDS Clock, FiniteSets, Sequences

CONSTANTS
    Works,          \* cycles f may take
    kbest, maxsamples, epsilon,     \* set by init_fsecs: 3, 20, 1%
    Runs,           \* runs that ftimer takes the average of (10)
    USEC, MAX_ETIME

ASSUME FsecsAssumption ==
    /\ Works \subseteq Nat \ {0}
    /\ {kbest, maxsamples, Runs, USEC, MAX_ETIME} \subseteq Nat \ {0} /\ epsilon \in Nat

VARIABLES
    method,         \* the USE_ constant of config.h
    compensate,     \* of fcyc
    values, samplecount,
    sample,         \* cyc
    runs,           \* i of the ftimer functions
    start,          \* what the first reading of the clock gave
    tmeas,          \* the difference of the two readings
    taken,          \* ghost: all samples since init_sampler
    own,            \* ghost: cycles between the readings, but for ticks
    begun           \* ghost: when ftimer read the clock first

sampler == <<values, samplecount, sample, taken, own>>
ftimer == <<runs, start, tmeas, begun>>
vars == <<clockVars, pc, method, compensate, sampler, ftimer>>

Init ==
    /\ ClockInit
    /\ \/ method = "FCYC" /\ compensate \in BOOLEAN /\ pc = "init_sampler"
       \/ method \in {"ITIMER", "GETTOD"} /\ compensate = FALSE /\ pc = "first"
    /\ values = <<>> /\ samplecount = 0 /\ sample = 0
    /\ runs = 0 /\ start = <<0, 0>> /\ tmeas = 0
    /\ taken = <<>> /\ own = 0 /\ begun = 0

----------------------------------------------------------------------------
(* fcyc.                                                                   *)

init_sampler ==
    /\ Step("init_sampler", "sample")
    /\ values' = [p \in 1..kbest |-> 0] /\ samplecount' = 0
    /\ taken' = <<>>
    /\ UNCHANGED <<clockVars, method, compensate, sample, own, ftimer>>

\* clear_cache; start_comp_counter callibrates when it has not yet.
Begin ==
    /\ pc = "sample"
    /\ pc' = IF ~compensate THEN "start"
             ELSE IF cyc_per_tick = 0 THEN "cal_times" ELSE "comp_times"
    /\ UNCHANGED <<clockVars, method, compensate, sampler, ftimer>>

Counted ==
    /\ Callibrate \/ CompTimes
    /\ UNCHANGED <<method, compensate, sampler, ftimer>>

StartCounter ==
    /\ Step("start", "f")
    /\ start_counter
    /\ UNCHANGED <<offset, cyc_per_tick, start_tick, cal, method, compensate, sampler, ftimer>>
    /\ Elapse(1)

CallF ==
    /\ Step("f", "get")
    /\ \E w \in Works : Elapse(w)
    /\ UNCHANGED <<offset, counter, cyc_per_tick, start_tick, cal, method, compensate,
                   sampler, ftimer>>

GetCounter ==
    /\ Step("get", IF compensate THEN "get_times" ELSE "add")
    /\ sample' = get_counter * SCALE
    /\ own' = (now - started) - (utime - startTicks) * TickCost
    /\ UNCHANGED <<offset, counter, cyc_per_tick, start_tick, cal, method, compensate,
                   values, samplecount, taken, ftimer>>
    /\ Elapse(1)

GetTimes ==
    /\ Step("get_times", "add")
    /\ sample' = Compensated(sample \div SCALE)
    /\ UNCHANGED <<offset, counter, cyc_per_tick, start_tick, cal, method, compensate,
                   values, samplecount, taken, own, ftimer>>
    /\ Elapse(1)

\* Insertion sort: the values above val move up one place, from place pos.
Inserted(val, pos) ==
    LET p == CHOOSE q \in 1..pos :
                 /\ q = pos \/ values[q] > val
                 /\ \A r \in 1..(q - 1) : values[r] <= val
    IN  [q \in 1..kbest |-> IF q = p THEN val
                            ELSE IF p < q /\ q <= pos THEN values[q - 1] ELSE values[q]]

\* Fault: a sample that is not among the best replaces the worst of them.
add_sample_Always(val) ==
    /\ values' = Inserted(val, IF samplecount < kbest THEN samplecount + 1 ELSE kbest)
    /\ samplecount' = samplecount + 1

add_sample(val) ==
    /\ values' = IF samplecount < kbest THEN Inserted(val, samplecount + 1)
                 ELSE IF val < values[kbest] THEN Inserted(val, kbest)
                 ELSE values
    /\ samplecount' = samplecount + 1

has_converged(v, n) == n >= kbest /\ (100 + epsilon) * v[1] >= 100 * v[kbest]

\* fcyc returns values[0] when it has converged or given up.
AddSample ==
    /\ pc = "add"
    /\ add_sample(sample)
    /\ taken' = Append(taken, sample)
    /\ pc' = IF has_converged(values', samplecount') \/ samplecount' >= maxsamples
             THEN "done" ELSE "sample"
    /\ UNCHANGED <<clockVars, method, compensate, sample, own, ftimer>>

----------------------------------------------------------------------------
(* ftimer_itimer and ftimer_gettod.                                        *)

Time(t) == <<t \div USEC, t % USEC>>

\* What is left on the timer init_etime set, and the time of day.
Reading == IF method = "ITIMER" THEN Time(MAX_ETIME * USEC - (now - begun))
           ELSE Time(offset + now)

\* init_etime and the first get_etime, or the first gettimeofday.
First ==
    /\ Step("first", "runs")
    /\ begun' = now
    /\ start' = IF method = "ITIMER" THEN <<MAX_ETIME, 0>> ELSE Reading
    /\ runs' = 0
    /\ UNCHANGED <<offset, counter, cyc_per_tick, start_tick, cal, method, compensate, sampler,
                   tmeas>>
    /\ Elapse(1)

Run ==
    /\ pc = "runs" /\ runs < Runs
    /\ runs' = runs + 1
    /\ \E w \in Works : Elapse(w)
    /\ UNCHANGED <<offset, counter, cyc_per_tick, start_tick, cal, pc, method, compensate,
                   sampler, start, tmeas, begun>>

\* Fault: the difference of the units is taken without its sign.
Difference_Unsigned(from, to) ==
    (to[1] - from[1]) * USEC + (IF to[2] >= from[2] THEN to[2] - from[2] ELSE from[2] - to[2])
Difference(from, to) == (to[1] - from[1]) * USEC + (to[2] - from[2])

\* The interval timer counts down.
Last ==
    /\ runs >= Runs /\ Step("runs", "done")
    /\ tmeas' = IF method = "ITIMER" THEN Difference(Reading, start)
                ELSE Difference(start, Reading)
    /\ UNCHANGED <<clockVars, method, compensate, sampler, runs, start, begun>>

----------------------------------------------------------------------------
Next == init_sampler \/ Begin \/ Counted \/ StartCounter \/ CallF \/ GetCounter \/ GetTimes
        \/ AddSample \/ First \/ Run \/ Last

Spec == Init /\ [][Next]_vars

----------------------------------------------------------------------------
(* Properties.                                                             *)

\* values holds the kbest least samples in ascending order, or as many as
\* there are: the m-th has fewer than m samples below it, and m up to it.
\* fcyc returns the first, the least of all.
KBest ==
    \A m \in DOMAIN values :
        m <= Len(taken) =>
            /\ Cardinality({x \in DOMAIN taken : taken[x] < values[m]}) < m
            /\ Cardinality({x \in DOMAIN taken : taken[x] <= values[m]}) >= m

\* Once callibrate has seen a tick, a compensated sample never exceeds the
\* cycles that were not spent on ticks: the cost of a tick is not set too low,
\* whenever the ticks come, and no tick between the readings is missed.
NeverAbove ==
    pc = "add" /\ compensate /\ cyc_per_tick # 0 => sample <= own * SCALE

\* What ftimer divides by the number of runs is the time between its two
\* readings, across borrows of seconds.
RunsAreTimed ==
    [][method # "FCYC" /\ pc = "runs" /\ pc' = "done" => tmeas' = now - begun]_vars
=============================================================================
