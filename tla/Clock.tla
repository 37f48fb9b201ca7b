------------------------------- MODULE Clock -------------------------------
(***************************************************************************)
(* The cycle counter of clock.c, and its compensation for timer ticks.     *)
(*                                                                         *)
(* The counter of the processor is read as two halves of Base values each  *)
(* (2^32) and wraps around; get_counter subtracts with a borrow.  (The     *)
(* difference goes into a double, clock.c:66, exact up to 2^53 cycles, a   *)
(* month at 3 GHz; that last rounding is left out.)  Reading a clock takes *)
(* time: every step of the program lets time pass, and in it               *)
(* a timer tick may come, which takes TickCost cycles of the program and   *)
(* adds one to its user time (times), or another process may run, which    *)
(* takes Away cycles and adds nothing.  From one tick to the next it takes *)
(* Gap cycles, or up to Late more.                                         *)
(*                                                                         *)
(* Cycles per tick are kept in units of 1/SCALE: cpt is a quotient by a    *)
(* small number of ticks.                                                  *)
(***************************************************************************)
EXTENDS Integers

CONSTANTS
    Base,
    Offsets,        \* what the counter may show at the start
    TickCost, Gap, Late, Away,
    THRESHOLD, RECORDTHRESH, NEVENT,        \* of callibrate
    MaxAway         \* bound on the times another process runs

ASSUME ClockAssumption ==
    /\ Base \in Nat \ {0, 1} /\ Offsets \subseteq 0..(Base * Base - 1)
    /\ {TickCost, Gap, Late, Away, THRESHOLD, RECORDTHRESH, NEVENT, MaxAway} \subseteq Nat

SCALE == 60     \* a multiple of 1, ..., 6: no interval has more ticks

VARIABLES
    now,            \* cycles since the start
    offset,
    utime,          \* tms_utime
    lastTick,       \* when the last tick came
    away,           \* number of times another process ran
    cyc_hi, cyc_lo, \* the counter at start_counter
    cyc_per_tick, start_tick,
    oldt, newt, oldc, e,    \* of callibrate
    pc,             \* the next step of the program
    started, startTicks     \* ghosts: when start_counter read the counter, and
                            \* the user time then

machine == <<now, utime, lastTick, away>>
cal == <<oldt, newt, oldc, e>>
counter == <<cyc_hi, cyc_lo, started, startTicks>>
clockVars == <<machine, offset, counter, cyc_per_tick, start_tick, cal>>

ClockInit ==
    /\ now = 0 /\ offset \in Offsets
    /\ utime = 0 /\ lastTick \in -Gap..0 /\ away = 0
    /\ cyc_hi = 0 /\ cyc_lo = 0 /\ started = -offset /\ startTicks = 0
    /\ cyc_per_tick = 0 /\ start_tick = 0
    /\ oldt = 0 /\ newt = 0 /\ oldc = 0 /\ e = 0

\* A step takes d cycles and what comes in between.
Elapse(d) ==
    \/ /\ now - lastTick < Gap + Late
       /\ now' = now + d
       /\ UNCHANGED <<utime, lastTick, away>>
    \/ /\ now - lastTick >= Gap
       /\ now' = now + d + TickCost /\ utime' = utime + 1 /\ lastTick' = now
       /\ UNCHANGED away
    \/ /\ now - lastTick < Gap + Late /\ away < MaxAway
       /\ now' = now + d + Away /\ away' = away + 1
       /\ UNCHANGED <<utime, lastTick>>

----------------------------------------------------------------------------
(* The counter.                                                            *)

\* access_counter (rdtsc).
tsc == (offset + now) % (Base * Base)
Hi == tsc \div Base
Lo == tsc % Base

start_counter == cyc_hi' = Hi /\ cyc_lo' = Lo /\ started' = now /\ startTicks' = utime

\* Fault: no borrow.
get_counter_NoBorrow ==
    LET lo == (Lo - cyc_lo) % Base
        hi == (Hi - cyc_hi) % Base
    IN  hi * Base + lo

get_counter ==
    LET lo == (Lo - cyc_lo) % Base
        borrow == IF lo > Lo THEN 1 ELSE 0
        hi == (Hi - cyc_hi - borrow) % Base
    IN  hi * Base + lo

----------------------------------------------------------------------------
(* callibrate, one step for each clock it reads.                           *)

Step(from, to) == pc = from /\ pc' = to

CalTimes ==
    /\ Step("cal_times", "cal_start")
    /\ oldc' = utime /\ e' = 0
    /\ UNCHANGED <<offset, counter, cyc_per_tick, start_tick, oldt, newt>>
    /\ Elapse(1)

CalStart ==
    /\ Step("cal_start", "cal_old")
    /\ start_counter
    /\ UNCHANGED <<offset, cyc_per_tick, start_tick, cal>>
    /\ Elapse(1)

CalOld ==
    /\ Step("cal_old", "cal_loop")
    /\ oldt' = get_counter
    /\ UNCHANGED <<offset, counter, cyc_per_tick, start_tick, newt, oldc, e>>
    /\ Elapse(1)

\* The counter is read until THRESHOLD cycles went by since oldt.
CalLoop ==
    /\ pc = "cal_loop" /\ e < NEVENT
    /\ newt' = get_counter
    /\ pc' = IF newt' - oldt >= THRESHOLD THEN "cal_event" ELSE "cal_loop"
    /\ UNCHANGED <<offset, counter, cyc_per_tick, start_tick, oldt, oldc, e>>
    /\ Elapse(1)

\* Fault: what is recorded need not exceed RECORDTHRESH.
CalEvent_NoRecordThresh ==
    /\ Step("cal_event", "cal_loop")
    /\ IF utime > oldc
       THEN LET cpt == ((newt - oldt) * SCALE) \div (utime - oldc) IN
            /\ cyc_per_tick' = IF cyc_per_tick = 0 \/ cyc_per_tick > cpt THEN cpt ELSE cyc_per_tick
            /\ e' = e + 1 /\ oldc' = utime
       ELSE UNCHANGED <<cyc_per_tick, e, oldc>>
    /\ oldt' = newt
    /\ UNCHANGED <<offset, counter, start_tick, newt>>
    /\ Elapse(1)

\* If the ticks of that time are new, it is an event; the least cost of a
\* tick above RECORDTHRESH is kept.
CalEvent ==
    /\ Step("cal_event", "cal_loop")
    /\ IF utime > oldc
       THEN LET cpt == ((newt - oldt) * SCALE) \div (utime - oldc) IN
            /\ cyc_per_tick' = IF /\ cyc_per_tick = 0 \/ cyc_per_tick > cpt
                                  /\ cpt > RECORDTHRESH * SCALE
                               THEN cpt ELSE cyc_per_tick
            /\ e' = e + 1 /\ oldc' = utime
       ELSE UNCHANGED <<cyc_per_tick, e, oldc>>
    /\ oldt' = newt
    /\ UNCHANGED <<offset, counter, start_tick, newt>>
    /\ Elapse(1)

CalEnd ==
    /\ e >= NEVENT /\ Step("cal_loop", "comp_times")
    /\ UNCHANGED clockVars

----------------------------------------------------------------------------
(* start_comp_counter (after callibrate) and get_comp_counter.             *)

CompTimes ==
    /\ Step("comp_times", "start")
    /\ start_tick' = utime
    /\ UNCHANGED <<offset, counter, cyc_per_tick, cal>>
    /\ Elapse(1)

\* Cycles, in units of 1/SCALE, less those of the ticks seen.
Compensated(time) == time * SCALE - (utime - start_tick) * cyc_per_tick

Callibrate == CalTimes \/ CalStart \/ CalOld \/ CalLoop \/ CalEvent \/ CalEnd

----------------------------------------------------------------------------
(* Properties.                                                             *)

\* get_counter gives the cycles since start_counter (clock.c:52), whatever
\* the two halves were, as long as the counter has not gone around.
ExactCycles == now - started < Base * Base => get_counter = now - started
=============================================================================
