---------------------------- MODULE FsecsProofs ----------------------------
(***************************************************************************)
(* Proofs about the timers: the cycle counter is read exactly across the   *)
(* borrow of its halves and once around, what ftimer divides is the time   *)
(* between its readings, fcyc keeps the best samples, and compensation     *)
(* never takes off too little.                                             *)
(***************************************************************************)
EXTENDS Fsecs, NumberLemmas

----------------------------------------------------------------------------
(* The counter.                                                            *)

\* What the counter shows is below Base * Base; its halves are below Base.
LEMMA Halves ==
    ASSUME NEW x \in Int
    PROVE  LET t == x % (Base * Base) IN
           /\ t \in 0..(Base * Base - 1)
           /\ t \div Base \in 0..(Base - 1) /\ t % Base \in 0..(Base - 1)
           /\ (t \div Base) * Base + (t % Base) = t
<1> DEFINE t == x % (Base * Base)
<1>1. Base \in Nat \ {0} /\ Base * Base \in Nat \ {0}
  BY ClockAssumption
<1>2. t \in 0..(Base * Base - 1) /\ t \in Int
  <2> DEFINE BB == Base * Base
  <2>1. BB \in Nat \ {0}
    BY <1>1
  <2> HIDE DEF BB
  <2>2. x % BB \in 0..(BB - 1)
    BY <2>1, DivMod
  <2> QED BY <2>1, <2>2 DEF BB
<1> HIDE DEF t
<1> DEFINE q == t \div Base
<1>3. q \in Int /\ t % Base \in 0..(Base - 1) /\ t = Base * q + (t % Base)
  BY <1>1, <1>2, DivMod
<1> HIDE DEF q
<1>4. \A s \in Int : (q <= s => Base * q <= Base * s) /\ (s <= q => Base * s <= Base * q)
  BY <1>1, <1>3, Grows
<1>5. q >= 0
  <2>1. q <= -1 => Base * q <= Base * (-1)
    BY <1>4
  <2> QED BY <1>1, <1>2, <1>3, <2>1
<1>6. q <= Base - 1
  <2>1. Base <= q => Base * Base <= Base * q
    BY <1>1, <1>4
  <2> QED BY <1>1, <1>2, <1>3, <2>1
<1> QED BY <1>1, <1>2, <1>3, <1>5, <1>6 DEF t, q

\* What start_counter kept is what the counter showed then.
CounterInv ==
    /\ now \in Nat /\ offset \in 0..(Base * Base - 1)
    /\ started \in (-offset)..now
    /\ cyc_hi \in 0..(Base - 1) /\ cyc_lo \in 0..(Base - 1)
    /\ cyc_hi * Base + cyc_lo = (offset + started) % (Base * Base)

\* The borrow: get_counter takes the two halves apart and puts them together
\* again.
LEMMA Borrows ==
    ASSUME CounterInv
    PROVE  LET d == tsc - (cyc_hi * Base + cyc_lo) IN
           get_counter = IF d >= 0 THEN d ELSE d + Base * Base
<1> DEFINE lo == (Lo - cyc_lo) % Base
           borrow == IF lo > Lo THEN 1 ELSE 0
           hi == (Hi - cyc_hi - borrow) % Base
<1>1. /\ Base \in Nat \ {0, 1} /\ cyc_hi \in 0..(Base - 1) /\ cyc_lo \in 0..(Base - 1)
      /\ Hi \in 0..(Base - 1) /\ Lo \in 0..(Base - 1) /\ tsc = Hi * Base + Lo
  BY ClockAssumption, Halves DEF CounterInv, tsc, Hi, Lo
<1> HIDE DEF lo, borrow, hi
<1>10. get_counter = hi * Base + lo
  BY DEF get_counter, lo, borrow, hi
<1> HIDE DEF lo, borrow, hi
<1>0. \A y \in Int : -Base <= y /\ y < Base => y % Base = IF y >= 0 THEN y ELSE y + Base
  BY <1>1, Wrapped
<1>2. lo = IF Lo >= cyc_lo THEN Lo - cyc_lo ELSE Lo - cyc_lo + Base
  <2>1. Lo - cyc_lo \in Int /\ -Base <= Lo - cyc_lo /\ Lo - cyc_lo < Base
    BY <1>1
  <2> QED BY <1>0, <1>1, <2>1 DEF lo
<1>3. borrow = IF Lo >= cyc_lo THEN 0 ELSE 1
  BY <1>1, <1>2 DEF borrow
<1>4. lo = Lo - cyc_lo + borrow * Base /\ lo \in 0..(Base - 1) /\ borrow \in 0..1
  BY <1>1, <1>2, <1>3
<1> DEFINE x == Hi - cyc_hi - borrow
<1>5. x \in Int /\ -Base <= x /\ x < Base
  BY <1>1, <1>3
<1>6. hi = IF x >= 0 THEN x ELSE x + Base
  BY <1>0, <1>5 DEF hi
<1>7. tsc - (cyc_hi * Base + cyc_lo) = x * Base + lo
  BY <1>1, <1>4
<1> HIDE DEF x
<1> DEFINE d == tsc - (cyc_hi * Base + cyc_lo)
<1>8. d = x * Base + lo
  BY <1>7
<1> HIDE DEF d
<1>9. CASE x >= 0
  <2>1. x * Base + lo >= 0
    BY <1>1, <1>4, <1>5, <1>9
  <2> QED BY <1>6, <1>8, <1>9, <1>10, <2>1 DEF d
<1>11. CASE x < 0
  <2>1. x * Base <= -Base
    BY <1>1, <1>5, <1>11
  <2>2. x * Base + lo < 0
    BY <1>1, <1>4, <1>5, <2>1
  <2>3. (x + Base) * Base + lo = x * Base + lo + Base * Base
    BY <1>1, <1>4, <1>5
  <2>4. hi = x + Base
    BY <1>5, <1>6, <1>11
  <2>5. ~(d >= 0) /\ get_counter = d + Base * Base
    BY <1>8, <1>10, <2>2, <2>3, <2>4
  <2> QED BY <2>5 DEF d
<1> QED BY <1>5, <1>9, <1>11

LEMMA CounterIsExact == ASSUME CounterInv PROVE ExactCycles
<1> DEFINE BB == Base * Base
           d == now - started
           S == offset + started
           Y == S + d
           q == S \div BB
           r == S % BB
<1>1. BB \in Nat \ {0} /\ S \in Nat /\ d \in Nat /\ Y \in Nat
  BY ClockAssumption DEF CounterInv
<1>2. tsc = Y % BB /\ cyc_hi * Base + cyc_lo = r
  BY <1>1 DEF tsc, CounterInv
<1>3. get_counter = IF tsc - r >= 0 THEN tsc - r ELSE tsc - r + BB
  BY <1>2, Borrows
<1>4. q \in Int /\ r \in 0..(BB - 1) /\ S = BB * q + r
  <2> HIDE DEF BB, S
  <2> QED BY <1>1, DivMod
<1>5. Y = BB * q + r + d
  BY <1>1, <1>4
<1> HIDE DEF BB, d, S, Y, q, r
<1>6. \A s \in Int : BB * s <= Y /\ Y < BB * s + BB => tsc = Y - BB * s
  <2> SUFFICES ASSUME NEW s \in Int, BB * s <= Y, Y < BB * s + BB PROVE Y % BB = Y - BB * s
    BY <1>2
  <2>1. Y \in Int
    BY <1>1
  <2> QED BY <1>1, <2>1, Remainder
<1> SUFFICES ASSUME d < BB PROVE get_counter = d
  BY DEF ExactCycles, BB, d
<1>7. BB * q \in Int /\ BB * (q + 1) = BB * q + BB
  BY <1>1, <1>4
<1>8. CASE r + d < BB
  <2>1. tsc = Y - BB * q
    <3>1. BB * q <= Y /\ Y < BB * q + BB
      BY <1>1, <1>4, <1>5, <1>7, <1>8
    <3> QED BY <1>4, <1>6, <3>1
  <2>2. tsc = r + d
    BY <1>1, <1>4, <1>5, <1>7, <2>1
  <2> QED BY <1>1, <1>3, <1>4, <2>2
<1>9. CASE r + d >= BB
  <2>1. tsc = Y - BB * (q + 1)
    <3>1. q + 1 \in Int /\ BB * (q + 1) <= Y /\ Y < BB * (q + 1) + BB
      BY <1>1, <1>4, <1>5, <1>7, <1>9
    <3> QED BY <1>6, <3>1
  <2>2. tsc = r + d - BB
    BY <1>1, <1>4, <1>5, <1>7, <2>1
  <2> QED BY <1>1, <1>3, <1>4, <2>2
<1> QED BY <1>1, <1>4, <1>8, <1>9

----------------------------------------------------------------------------
(* The steps.                                                              *)

\* Time goes on while a step takes place.
LEMMA Elapses ==
    ASSUME CounterInv, NEW d \in Nat, Elapse(d) PROVE now' \in Nat /\ now' >= now
<1>1. TickCost \in Nat /\ Away \in Nat /\ now \in Nat
  BY ClockAssumption DEF CounterInv
<1> QED BY <1>1 DEF Elapse

\* f takes time, and so does reading a clock.
LEMMA Durations == 1 \in Nat /\ \A w \in Works : w \in Nat
BY FsecsAssumption

\* The steps of the clock that read it.
LEMMA StepsTaken ==
    ASSUME Next
    PROVE  UNCHANGED <<now, offset, counter>> \/
           (\E d \in Nat : Elapse(d) /\ offset' = offset
                           /\ (UNCHANGED counter \/ start_counter))
BY Durations
DEF Next, init_sampler, Begin, Counted, Callibrate, CalTimes, CalStart, CalOld, CalLoop, CalEvent,
    CalEnd, CompTimes, StartCounter, CallF, GetCounter, GetTimes, AddSample, First, Run, Last,
    clockVars, machine

LEMMA NextCounterInv == ASSUME CounterInv, [Next]_vars PROVE CounterInv'
<1>1. CASE UNCHANGED <<now, offset, counter>>
  BY <1>1 DEF CounterInv, counter
<1>2. CASE UNCHANGED <<offset, counter>> /\ now' \in Nat /\ now' >= now
  BY <1>2 DEF CounterInv, counter
<1>3. CASE offset' = offset /\ now' \in Nat /\ now' >= now /\ start_counter
  <2>1. started' = now /\ started' \in (-offset')..now'
    BY <1>3 DEF start_counter, CounterInv
  <2>2. offset + now \in Int
    BY DEF CounterInv
  <2>3. /\ cyc_hi' \in 0..(Base - 1) /\ cyc_lo' \in 0..(Base - 1)
        /\ cyc_hi' * Base + cyc_lo' = (offset + now) % (Base * Base)
    BY <1>3, <2>2, Halves DEF start_counter, Hi, Lo, tsc
  <2> QED BY <1>3, <2>1, <2>3 DEF CounterInv
<1> QED BY <1>1, <1>2, <1>3, StepsTaken, Elapses DEF vars, clockVars, machine

LEMMA InitCounterInv == ASSUME Init PROVE CounterInv
<1>1. Base \in Nat \ {0, 1} /\ offset \in 0..(Base * Base - 1) /\ offset \in Int
  BY ClockAssumption DEF Init, ClockInit
<1>2. 0 % (Base * Base) = 0
  <2> DEFINE BB == Base * Base
  <2>1. BB \in Nat \ {0}
    BY <1>1
  <2> HIDE DEF BB
  <2>2. 0 % BB = 0
    BY <2>1
  <2> QED BY <2>2 DEF BB
<1>3. offset + (-offset) = 0 /\ 0 * Base + 0 = 0
  BY <1>1
<1> QED BY <1>1, <1>2, <1>3 DEF Init, ClockInit, CounterInv

\* get_counter gives the cycles since start_counter, for every size of the
\* halves and wherever the counter stood.
THEOREM CounterExact == Spec => []ExactCycles
<1>1. Spec => []CounterInv
  BY InitCounterInv, NextCounterInv, PTL DEF Spec
<1> QED BY <1>1, CounterIsExact, PTL

----------------------------------------------------------------------------
(* ftimer.                                                                 *)

\* start is what the clock of the method gave at begun.
Started ==
    method # "FCYC" /\ pc = "runs" =>
        /\ begun \in Nat
        /\ start = IF method = "ITIMER" THEN <<MAX_ETIME, 0>> ELSE Time(offset + begun)

\* Seconds and their units make up a time.
LEMMA Seconds ==
    ASSUME NEW x \in Int
    PROVE  Time(x)[1] \in Int /\ Time(x)[2] \in Int /\ Time(x)[1] * USEC + Time(x)[2] = x
<1>1. USEC \in Nat \ {0}
  BY FsecsAssumption
<1>2. x \div USEC \in Int /\ x % USEC \in Int /\ x = USEC * (x \div USEC) + (x % USEC)
  BY <1>1, DivMod
<1> QED BY <1>1, <1>2 DEF Time

\* A difference of two readings, whether or not it borrows a second.
LEMMA Differences ==
    ASSUME NEW from, NEW to, NEW x \in Int, NEW y \in Int,
           from[1] \in Int, from[2] \in Int, from[1] * USEC + from[2] = x,
           to[1] \in Int, to[2] \in Int, to[1] * USEC + to[2] = y
    PROVE  Difference(from, to) = y - x
<1>1. USEC \in Int
  BY FsecsAssumption
<1>2. \A a, b, u \in Int : (a - b) * u = a * u - b * u
  OBVIOUS
<1>3. (to[1] - from[1]) * USEC = to[1] * USEC - from[1] * USEC
  BY <1>1, <1>2
<1>4. to[1] * USEC \in Int /\ from[1] * USEC \in Int
  BY <1>1
<1> QED BY <1>3, <1>4 DEF Difference

LEMMA NextStarted == ASSUME CounterInv, Started, [Next]_vars PROVE Started'
<1>1. CASE First
  <2>1. /\ method' = method /\ offset' = offset /\ begun' = now
        /\ start' = IF method = "ITIMER" THEN <<MAX_ETIME, 0>> ELSE Reading
    BY <1>1 DEF First
  <2>2. now \in Nat
    BY DEF CounterInv
  <2> QED BY <2>1, <2>2 DEF Started, Reading, Time
<1>2. CASE Run
  BY <1>2 DEF Run, Started, Time
<1>3. CASE UNCHANGED vars
  BY <1>3 DEF vars, clockVars, ftimer, Started, Time
<1>4. CASE ~First /\ ~Run /\ Next
  <2>1. pc' # "runs"
    BY <1>4 DEF Next, init_sampler, Begin, Counted, Callibrate, CalTimes, CalStart, CalOld, CalLoop,
        CalEvent, CalEnd, CompTimes, StartCounter, CallF, GetCounter, GetTimes, AddSample, Last, Step
  <2> QED BY <2>1 DEF Started
<1> QED BY <1>1, <1>2, <1>3, <1>4

\* The last reading less the first, or the other way around for a timer that
\* counts down.
LEMMA LastIsTimed ==
    ASSUME CounterInv, Started, Last, method # "FCYC" PROVE tmeas' = now - begun
<1>1. now \in Nat /\ begun \in Nat /\ offset \in Int /\ MAX_ETIME \in Nat /\ USEC \in Nat
  BY FsecsAssumption DEF CounterInv, Started, Last, Step
<1>2. CASE method = "ITIMER"
  <2> DEFINE x == MAX_ETIME * USEC - (now - begun)
             y == MAX_ETIME * USEC
  <2>1. x \in Int /\ y \in Int /\ y - x = now - begun
    BY <1>1
  <2>2. start = <<MAX_ETIME, 0>> /\ Reading = Time(x) /\ tmeas' = Difference(Reading, start)
    BY <1>2 DEF Last, Step, Started, Reading
  <2>3. start[1] \in Int /\ start[2] \in Int /\ start[1] * USEC + start[2] = y
    BY <1>1, <2>2
  <2> HIDE DEF x, y
  <2>4. /\ Reading[1] \in Int /\ Reading[2] \in Int
        /\ Reading[1] * USEC + Reading[2] = x
    BY <2>1, <2>2, Seconds
  <2> QED BY <2>1, <2>2, <2>3, <2>4, Differences
<1>3. CASE method # "ITIMER"
  <2> DEFINE x == offset + begun
             y == offset + now
  <2>1. x \in Int /\ y \in Int /\ y - x = now - begun
    BY <1>1
  <2>2. start = Time(x) /\ Reading = Time(y) /\ tmeas' = Difference(start, Reading)
    BY <1>3 DEF Last, Step, Started, Reading
  <2> HIDE DEF x, y
  <2>3. /\ start[1] \in Int /\ start[2] \in Int /\ start[1] * USEC + start[2] = x
        /\ Reading[1] \in Int /\ Reading[2] \in Int /\ Reading[1] * USEC + Reading[2] = y
    BY <2>1, <2>2, Seconds
  <2> QED BY <2>1, <2>2, <2>3, Differences
<1> QED BY <1>2, <1>3

\* What ftimer divides by the number of runs is the time between its two
\* readings, for every length of a second and of a run.
THEOREM RunsTimed == Spec => RunsAreTimed
<1>1. Init => CounterInv /\ Started
  BY InitCounterInv DEF Init, Started
<1>2. CounterInv /\ Started /\ [Next]_vars => (CounterInv /\ Started)'
  BY NextCounterInv, NextStarted
<1>3. CounterInv /\ Started /\ [Next]_vars =>
          [method # "FCYC" /\ pc = "runs" /\ pc' = "done" => tmeas' = now - begun]_vars
  <2> SUFFICES ASSUME CounterInv, Started, Next, method # "FCYC", pc = "runs", pc' = "done"
               PROVE  tmeas' = now - begun
    OBVIOUS
  <2>1. Last
    BY DEF Next, init_sampler, Begin, Counted, Callibrate, CalTimes, CalStart, CalOld, CalLoop,
        CalEvent, CalEnd, CompTimes, StartCounter, CallF, GetCounter, GetTimes, AddSample, First,
        Run, Step
  <2> QED BY <2>1, LastIsTimed
<1> QED BY <1>1, <1>2, <1>3, PTL DEF Spec, RunsAreTimed

----------------------------------------------------------------------------
(* The K-best scheme.                                                      *)

\* How many samples of s are at most v, and v being the m-th least of them.
UpTo(s, v) == Cardinality({x \in DOMAIN s : s[x] <= v})
Ranked(s, v, m) == UpTo(s, v - 1) < m /\ UpTo(s, v) >= m

LEMMA UpToType ==
    ASSUME NEW s \in Seq(Int), NEW v \in Int
    PROVE  /\ UpTo(s, v) \in Nat /\ UpTo(s, v) <= Len(s)
           /\ IsFiniteSet({x \in DOMAIN s : s[x] <= v})
<1> DEFINE S == {x \in DOMAIN s : s[x] <= v}
<1>1. DOMAIN s = 1..Len(s) /\ Len(s) \in Nat
  OBVIOUS
<1>2. IsFiniteSet(1..Len(s)) /\ Cardinality(1..Len(s)) = Len(s)
  BY <1>1, FS_Interval, SMTT(40)
<1>3. S \in SUBSET (1..Len(s))
  BY <1>1
<1>4. IsFiniteSet(S) /\ Cardinality(S) <= Len(s)
  BY <1>2, <1>3, FS_Subset
<1>5. Cardinality(S) \in Nat
  BY <1>4, FS_CardinalityType
<1> QED BY <1>4, <1>5 DEF UpTo

\* There are more of them up to more.
LEMMA UpToGrows ==
    ASSUME NEW s \in Seq(Int), NEW v \in Int, NEW w \in Int, v <= w
    PROVE  UpTo(s, v) <= UpTo(s, w)
<1>1. {x \in DOMAIN s : s[x] <= v} \in SUBSET {x \in DOMAIN s : s[x] <= w}
  <2>1. \A x \in DOMAIN s : s[x] \in Int
    OBVIOUS
  <2> QED BY <2>1
<1> QED BY <1>1, UpToType, FS_Subset DEF UpTo

\* A sample adds one to the counts of all that it is not above.
LEMMA UpToAppend ==
    ASSUME NEW s \in Seq(Int), NEW val \in Int, NEW v \in Int
    PROVE  UpTo(Append(s, val), v) = IF val <= v THEN UpTo(s, v) + 1 ELSE UpTo(s, v)
<1> DEFINE S == {x \in DOMAIN s : s[x] <= v}
           n == Len(s)
           T == {x \in DOMAIN Append(s, val) : Append(s, val)[x] <= v}
<1>1. /\ n \in Nat /\ DOMAIN s = 1..n
      /\ DOMAIN Append(s, val) = 1..(n + 1) /\ Append(s, val)[n + 1] = val
      /\ \A x \in 1..n : Append(s, val)[x] = s[x]
  OBVIOUS
<1>2. 1..(n + 1) = (1..n) \cup {n + 1} /\ n + 1 \notin 1..n
  BY <1>1
<1>3. T = IF val <= v THEN S \cup {n + 1} ELSE S
  BY <1>1, <1>2
<1>4. IsFiniteSet(S) /\ n + 1 \notin S
  BY <1>1, <1>2, UpToType
<1> QED BY <1>3, <1>4, FS_AddElement DEF UpTo

\* What is ranked higher is not less.
LEMMA RanksOrder ==
    ASSUME NEW s \in Seq(Int), NEW v \in Int, NEW w \in Int, NEW q \in Int, NEW r \in Int,
           q <= r, Ranked(s, v, q), Ranked(s, w, r)
    PROVE  v <= w
<1> SUFFICES ASSUME w <= v - 1 PROVE FALSE
  OBVIOUS
<1>1. UpTo(s, w) <= UpTo(s, v - 1)
  BY UpToGrows
<1>2. UpTo(s, w) \in Nat /\ UpTo(s, v - 1) \in Nat
  <2>1. v - 1 \in Int
    OBVIOUS
  <2> QED BY <2>1, UpToType
<1> QED BY <1>1, <1>2 DEF Ranked

\* KBest in these terms.
LEMMA KBestRanks ==
    ASSUME NEW t \in Seq(Int), NEW u \in [1..kbest -> Int], kbest \in Nat
    PROVE  (\A m \in DOMAIN u :
                m <= Len(t) =>
                    /\ Cardinality({x \in DOMAIN t : t[x] < u[m]}) < m
                    /\ Cardinality({x \in DOMAIN t : t[x] <= u[m]}) >= m)
           <=> \A m \in 1..kbest : m <= Len(t) => Ranked(t, u[m], m)
<1>1. ASSUME NEW m \in 1..kbest
      PROVE  {x \in DOMAIN t : t[x] < u[m]} = {x \in DOMAIN t : t[x] <= u[m] - 1}
  <2>1. u[m] \in Int /\ \A x \in DOMAIN t : t[x] \in Int
    OBVIOUS
  <2> QED BY <2>1
<1> QED BY <1>1 DEF Ranked, UpTo

\* The values in ascending order up to n; val put in place p of them.
Ascending(n) == \A q, r \in 1..n : q <= r => values[q] <= values[r]
Put(val, pos, p) ==
    [q \in 1..kbest |-> IF q = p THEN val
                        ELSE IF p < q /\ q <= pos THEN values[q - 1] ELSE values[q]]

\* Insertion finds the place of val and moves up what is above it.
LEMMA Places ==
    ASSUME kbest \in Nat, values \in [1..kbest -> Int], NEW val \in Int, NEW pos \in 1..kbest, Ascending(pos - 1)
    PROVE  \E p \in 1..pos :
               /\ \A r \in 1..(p - 1) : values[r] <= val
               /\ \A r \in p..(pos - 1) : values[r] > val
               /\ Inserted(val, pos) = Put(val, pos, p)
<1>1. pos - 1 \in Nat /\ \A q \in 1..(pos - 1) : q \in 1..kbest /\ values[q] \in Int
  OBVIOUS
<1> DEFINE T == {q \in 1..(pos - 1) : values[q] <= val}
<1>2. PICK c \in 0..(pos - 1) : T = 1..c
  <2>1. ASSUME NEW t \in T, NEW r \in 1..t PROVE r \in T
    <3>1. r \in 1..(pos - 1) /\ values[r] <= values[t] /\ values[t] <= val
      BY <1>1, <2>1 DEF Ascending
    <3> QED BY <1>1, <3>1
  <2>2. T \in SUBSET (1..(pos - 1)) /\ \A t \in T : \A r \in 1..t : r \in T
    BY <2>1
  <2> HIDE DEF T
  <2> QED BY <1>1, <2>2, LowerPart
<1> DEFINE p == c + 1
           Place(q) == /\ q = pos \/ values[q] > val
                       /\ \A r \in 1..(q - 1) : values[r] <= val
<1>3. p \in 1..pos
  BY <1>2
<1>4. \A r \in 1..(p - 1) : values[r] <= val
  BY <1>2
<1>5. ASSUME NEW r \in p..(pos - 1) PROVE values[r] > val
  <2>1. r \notin 1..c /\ r \in 1..(pos - 1)
    BY <1>2, <1>5
  <2> QED BY <1>1, <1>2, <2>1, SMTT(30)
<1>6. Place(p)
  <2>1. p = pos \/ p \in p..(pos - 1)
    BY <1>3
  <2> QED BY <1>4, <1>5, <2>1
<1>7. ASSUME NEW q \in 1..pos, Place(q) PROVE q = p
  <2>1. CASE q < p
    <3>1. q \in 1..(p - 1) /\ q # pos /\ q \in 1..(pos - 1)
      BY <1>3, <2>1
    <3> QED BY <1>1, <1>4, <1>7, <3>1
  <2>2. CASE q > p
    <3>1. p \in 1..(q - 1) /\ p \in p..(pos - 1) /\ p \in 1..(pos - 1)
      BY <1>3, <2>2
    <3> QED BY <1>1, <1>5, <1>7, <3>1
  <2> QED BY <1>3, <2>1, <2>2
<1> HIDE DEF p
<1>8. (CHOOSE q \in 1..pos : Place(q)) = p
  <2> HIDE DEF Place
  <2> QED BY <1>3, <1>6, <1>7
<1>9. Inserted(val, pos) = Put(val, pos, p)
  BY <1>8 DEF Inserted, Put
<1> QED BY <1>3, <1>4, <1>5, <1>9

\* The values in rank order after a sample are so again.
Best(t, u) == \A m \in 1..kbest : m <= Len(t) => Ranked(t, u[m], m)

LEMMA InsertKeepsBest ==
    ASSUME kbest \in Nat, values \in [1..kbest -> Int], taken \in Seq(Int), Best(taken, values),
           NEW val \in Int, NEW pos \in 1..kbest,
           \/ Len(taken) < kbest /\ pos = Len(taken) + 1
           \/ Len(taken) >= kbest /\ pos = kbest /\ val < values[kbest]
    PROVE  Inserted(val, pos) \in [1..kbest -> Int] /\ Best(Append(taken, val), Inserted(val, pos))
<1> DEFINE n == Len(taken)
           u == Inserted(val, pos)
           t == Append(taken, val)
<1>1. n \in Nat /\ Len(t) = n + 1
  OBVIOUS
<1>2. \A q \in 1..(pos - 1) : q \in 1..kbest /\ q <= n /\ values[q] \in Int
                              /\ Ranked(taken, values[q], q)
  BY <1>1 DEF Best
<1>3. Ascending(pos - 1)
  BY <1>2, RanksOrder, SMTT(30) DEF Ascending
<1>4. PICK p \in 1..pos :
          /\ \A r \in 1..(p - 1) : values[r] <= val
          /\ \A r \in p..(pos - 1) : values[r] > val
          /\ Inserted(val, pos) = Put(val, pos, p)
  BY <1>3, Places
<1>8. u = [q \in 1..kbest |-> IF q = p THEN val
                              ELSE IF p < q /\ q <= pos THEN values[q - 1] ELSE values[q]]
  BY <1>4 DEF Put
<1> HIDE DEF u
<1>5. u \in [1..kbest -> Int]
  <2>1. \A q \in 1..kbest : p < q /\ q <= pos => q - 1 \in 1..kbest
    OBVIOUS
  <2> QED BY <1>8, <2>1
<1>6. \A v \in Int : /\ UpTo(taken, v) \in Nat /\ UpTo(taken, v) <= n
                     /\ UpTo(t, v) = IF val <= v THEN UpTo(taken, v) + 1 ELSE UpTo(taken, v)
  <2> SUFFICES ASSUME NEW v \in Int
               PROVE  /\ UpTo(taken, v) \in Nat /\ UpTo(taken, v) <= n
                      /\ UpTo(t, v) = IF val <= v THEN UpTo(taken, v) + 1 ELSE UpTo(taken, v)
    OBVIOUS
  <2>1. UpTo(taken, v) \in Nat /\ UpTo(taken, v) <= n
    BY UpToType
  <2>2. UpTo(t, v) = IF val <= v THEN UpTo(taken, v) + 1 ELSE UpTo(taken, v)
    BY UpToAppend
  <2> QED BY <2>1, <2>2
<1> HIDE DEF t, n
<1>7. ASSUME NEW m \in 1..kbest, m <= n + 1 PROVE Ranked(t, u[m], m)
  <2>1. CASE m < p
    <3>1. m \in 1..(pos - 1) /\ m \in 1..(p - 1)
      BY <2>1
    <3>2. u[m] = values[m] /\ values[m] <= val /\ values[m] \in Int /\ Ranked(taken, values[m], m)
      BY <1>2, <1>4, <1>8, <2>1, <3>1
    <3>3. values[m] - 1 \in Int /\ ~(val <= values[m] - 1)
      BY <3>2
    <3>4. UpTo(t, values[m] - 1) = UpTo(taken, values[m] - 1)
      BY <1>6, <3>3
    <3>5. UpTo(taken, values[m]) \in Nat
          /\ UpTo(t, values[m]) \in {UpTo(taken, values[m]), UpTo(taken, values[m]) + 1}
      BY <1>6, <3>2
    <3> QED BY <3>2, <3>4, <3>5 DEF Ranked
  <2>2. CASE m = p
    <3>1. u[m] = val /\ UpTo(t, val - 1) = UpTo(taken, val - 1)
          /\ UpTo(t, val) = UpTo(taken, val) + 1
      <4>1. val - 1 \in Int /\ ~(val <= val - 1) /\ val <= val
        OBVIOUS
      <4> QED BY <1>4, <1>6, <1>8, <2>2, <4>1
    <3>2. UpTo(taken, val - 1) < p
      <4>1. CASE p = n + 1
        BY <1>1, <1>6, <4>1
      <4>2. CASE p # n + 1
        <5>1. p \in 1..kbest /\ p <= n /\ values[p] > val /\ values[p] \in Int
              /\ Ranked(taken, values[p], p)
          <6>1. p \in p..(pos - 1) \/ p = pos
            OBVIOUS
          <6> QED BY <1>1, <1>4, <4>2, <6>1 DEF n, Best
        <5>2. values[p] - 1 \in Int /\ val - 1 \in Int /\ val - 1 <= values[p] - 1
          BY <5>1
        <5>3. UpTo(taken, val - 1) <= UpTo(taken, values[p] - 1)
          BY <5>2, UpToGrows
        <5>4. UpTo(taken, val - 1) \in Nat /\ UpTo(taken, values[p] - 1) \in Nat
          BY <1>6, <5>2
        <5> QED BY <5>1, <5>3, <5>4 DEF Ranked
      <4> QED BY <4>1, <4>2
    <3>3. UpTo(taken, val) >= p - 1
      <4>1. CASE p = 1
        BY <1>6, <4>1
      <4>2. CASE p # 1
        <5>1. p - 1 \in 1..(p - 1) /\ p - 1 \in 1..(pos - 1)
          BY <4>2
        <5>2. values[p - 1] <= val /\ values[p - 1] \in Int /\ Ranked(taken, values[p - 1], p - 1)
          BY <1>2, <1>4, <5>1
        <5>3. UpTo(taken, values[p - 1]) <= UpTo(taken, val)
          BY <5>2, UpToGrows
        <5>4. UpTo(taken, values[p - 1]) \in Nat /\ UpTo(taken, val) \in Nat
          BY <1>6, <5>2
        <5> QED BY <5>2, <5>3, <5>4 DEF Ranked
      <4> QED BY <4>1, <4>2
    <3>4. UpTo(taken, val) \in Nat
      BY <1>6
    <3> QED BY <2>2, <3>1, <3>2, <3>3, <3>4 DEF Ranked
  <2>3. CASE p < m /\ m <= pos
    <3> DEFINE w == values[m - 1]
    <3>1. m - 1 \in 1..(pos - 1) /\ m - 1 \in p..(pos - 1)
      BY <2>3
    <3>2. u[m] = w /\ w > val /\ w \in Int /\ Ranked(taken, w, m - 1)
      BY <1>2, <1>4, <1>8, <2>3, <3>1
    <3> HIDE DEF w
    <3>3. w - 1 \in Int /\ val <= w - 1 /\ val <= w
      BY <3>2
    <3>4. /\ UpTo(t, w - 1) = UpTo(taken, w - 1) + 1 /\ UpTo(t, w) = UpTo(taken, w) + 1
          /\ UpTo(taken, w - 1) \in Nat /\ UpTo(taken, w) \in Nat
      BY <1>6, <3>2, <3>3
    <3> QED BY <3>2, <3>4, SMTT(40) DEF Ranked
  <2>4. CASE pos < m
    BY <1>1, <1>7, <2>4 DEF n
  <2> QED BY <2>1, <2>2, <2>3, <2>4
<1> QED BY <1>1, <1>5, <1>7 DEF Best, t, u

\* A sample that is not below the worst of them changes nothing.
LEMMA OthersKeepBest ==
    ASSUME kbest \in Nat \ {0}, values \in [1..kbest -> Int], taken \in Seq(Int),
           Best(taken, values), NEW val \in Int, Len(taken) >= kbest, val >= values[kbest]
    PROVE  Best(Append(taken, val), values)
<1> SUFFICES ASSUME NEW m \in 1..kbest PROVE Ranked(Append(taken, val), values[m], m)
  BY DEF Best
<1> DEFINE w == values[m]
<1>1. Len(taken) \in Nat
  OBVIOUS
<1>2. m <= Len(taken) /\ kbest <= Len(taken) /\ kbest \in 1..kbest
  BY <1>1
<1>3. Ranked(taken, w, m) /\ Ranked(taken, values[kbest], kbest) /\ w \in Int
      /\ values[kbest] \in Int
  BY <1>2 DEF Best
<1>4. w <= values[kbest]
  BY <1>3, RanksOrder
<1> HIDE DEF w
<1>5. w - 1 \in Int /\ ~(val <= w - 1)
  BY <1>3, <1>4
<1>6. UpTo(Append(taken, val), w - 1) = UpTo(taken, w - 1)
  BY <1>5, UpToAppend
<1>7. UpTo(taken, w) \in Nat
  BY <1>3, UpToType
<1>8. UpTo(Append(taken, val), w) \in {UpTo(taken, w), UpTo(taken, w) + 1}
  BY <1>3, UpToAppend
<1> QED BY <1>3, <1>6, <1>7, <1>8 DEF Ranked, w

\* The sampler, once init_sampler has run; the times and counts it is fed.
SamplerInv ==
    /\ utime \in Int /\ oldt \in Int /\ newt \in Int /\ oldc \in Int
    /\ cyc_per_tick \in Int /\ start_tick \in Int
    /\ sample \in Int
    /\ taken \in Seq(Int) /\ samplecount = Len(taken)
    /\ IF pc \in {"init_sampler", "first", "runs", "done"} /\ values = <<>>
       THEN taken = <<>>
       ELSE values \in [1..kbest -> Int] /\ Best(taken, values)

LEMMA SamplerBest == ASSUME SamplerInv PROVE KBest
<1>1. kbest \in Nat
  BY FsecsAssumption
<1>2. CASE values = <<>> /\ taken = <<>>
  BY <1>2 DEF KBest
<1>3. CASE values \in [1..kbest -> Int] /\ Best(taken, values)
  <2>1. taken \in Seq(Int)
    BY DEF SamplerInv
  <2> QED BY <1>1, <1>3, <2>1, KBestRanks DEF KBest, Best
<1> QED BY <1>2, <1>3 DEF SamplerInv

\* The counter gives a number of cycles.
LEMMA Counts == ASSUME CounterInv PROVE get_counter \in Int
<1>1. Base \in Nat \ {0} /\ cyc_hi \in Int /\ cyc_lo \in Int /\ offset + now \in Int
  BY ClockAssumption DEF CounterInv
<1>2. tsc \in Int
  BY <1>1, Halves DEF tsc
<1>3. cyc_hi * Base + cyc_lo \in Int /\ Base * Base \in Int
  BY <1>1
<1> QED BY <1>2, <1>3, Borrows

\* The clocks stay numbers.
LEMMA NextNumbers ==
    ASSUME CounterInv, SamplerInv, [Next]_vars
    PROVE  /\ utime' \in Int /\ oldt' \in Int /\ newt' \in Int /\ oldc' \in Int
           /\ cyc_per_tick' \in Int /\ start_tick' \in Int /\ sample' \in Int
<1>0. /\ utime \in Int /\ oldt \in Int /\ newt \in Int /\ oldc \in Int
      /\ cyc_per_tick \in Int /\ start_tick \in Int /\ sample \in Int
      /\ get_counter \in Int
  BY Counts DEF SamplerInv
<1>1. ASSUME NEW d, Elapse(d) PROVE utime' \in Int
  BY <1>0, <1>1 DEF Elapse
<1> DEFINE Same == UNCHANGED <<oldt, newt, oldc, cyc_per_tick, start_tick, sample>>
<1>2. CASE UNCHANGED machine /\ Same
  BY <1>0, <1>2 DEF machine
<1>3. CASE (\E d : Elapse(d)) /\ Same
  BY <1>0, <1>1, <1>3
<1>4. CASE CalTimes /\ UNCHANGED sample
  BY <1>0, <1>1, <1>4 DEF CalTimes
<1>5. CASE (CalOld \/ CalLoop) /\ UNCHANGED sample
  BY <1>0, <1>1, <1>5 DEF CalOld, CalLoop
<1>6. CASE CalEvent /\ UNCHANGED sample
  <2>1. utime > oldc => ((newt - oldt) * SCALE) \div (utime - oldc) \in Int
    <3> DEFINE x == (newt - oldt) * SCALE
               y == utime - oldc
    <3>1. x \in Int /\ y \in Int /\ (utime > oldc => y > 0)
      BY <1>0 DEF SCALE
    <3> HIDE DEF x, y
    <3>2. y > 0 => x \div y \in Int
      BY <3>1, DivMod
    <3> QED BY <3>1, <3>2 DEF x, y
  <2>2. UNCHANGED <<newt, start_tick, sample>> /\ oldt' = newt /\ oldc' \in {oldc, utime}
        /\ utime' \in Int
    BY <1>1, <1>6 DEF CalEvent
  <2>3. cyc_per_tick' \in Int
    <3> DEFINE cpt == ((newt - oldt) * SCALE) \div (utime - oldc)
    <3>1. \/ cyc_per_tick' = cyc_per_tick
          \/ utime > oldc /\ cyc_per_tick' = cpt
      BY <1>6 DEF CalEvent
    <3> QED BY <1>0, <2>1, <3>1
  <2> QED BY <1>0, <2>2, <2>3
<1>7. CASE CompTimes /\ UNCHANGED sample
  BY <1>0, <1>1, <1>7 DEF CompTimes, cal
<1>8. CASE GetCounter
  BY <1>0, <1>1, <1>8 DEF GetCounter, SCALE, cal
<1>9. CASE GetTimes
  BY <1>0, <1>1, <1>9 DEF GetTimes, Compensated, SCALE, cal
<1> QED
  BY <1>2, <1>3, <1>4, <1>5, <1>6, <1>7, <1>8, <1>9
  DEF Next, vars, clockVars, sampler, cal, init_sampler, Begin, Counted, Callibrate, CalStart,
      CalEnd, StartCounter, CallF, AddSample, First, Run, Last

\* add_sample keeps the best, and everything else leaves them alone.
LEMMA NextSampler == ASSUME CounterInv, SamplerInv, [Next]_vars PROVE SamplerInv'
<1> DEFINE Out == {"init_sampler", "first", "runs", "done"}
<1>0. kbest \in Nat \ {0}
  BY FsecsAssumption
<1>1. CASE init_sampler
  <2>1. values' = [p \in 1..kbest |-> 0] /\ samplecount' = 0 /\ taken' = <<>> /\ pc' = "sample"
    BY <1>1 DEF init_sampler, Step
  <2>2. values' \in [1..kbest -> Int] /\ Best(taken', values') /\ taken' \in Seq(Int)
        /\ samplecount' = Len(taken')
    BY <2>1 DEF Best
  <2> QED BY <2>1, <2>2, NextNumbers DEF SamplerInv
<1>2. CASE AddSample
  <2>1. /\ pc = "add" /\ add_sample(sample) /\ taken' = Append(taken, sample)
        /\ values \in [1..kbest -> Int] /\ Best(taken, values) /\ sample \in Int
        /\ taken \in Seq(Int) /\ samplecount = Len(taken) /\ Len(taken) \in Nat
    BY <1>2 DEF AddSample, SamplerInv
  <2>2. samplecount' = Len(taken') /\ taken' \in Seq(Int)
    BY <2>1 DEF add_sample
  <2>3. CASE samplecount < kbest
    <3>1. values' = Inserted(sample, Len(taken) + 1) /\ Len(taken) + 1 \in 1..kbest
      BY <1>0, <2>1, <2>3 DEF add_sample
    <3>2. values' \in [1..kbest -> Int] /\ Best(taken', values')
      BY <1>0, <2>1, <2>3, <3>1, InsertKeepsBest
    <3> QED BY <1>0, <2>2, <3>2, NextNumbers DEF SamplerInv
  <2>4. CASE samplecount >= kbest /\ sample < values[kbest]
    <3>1. values' = Inserted(sample, kbest) /\ kbest \in 1..kbest
      BY <1>0, <2>1, <2>4 DEF add_sample
    <3>2. values' \in [1..kbest -> Int] /\ Best(taken', values')
      BY <1>0, <2>1, <2>4, <3>1, InsertKeepsBest
    <3> QED BY <1>0, <2>2, <3>2, NextNumbers DEF SamplerInv
  <2>5. CASE samplecount >= kbest /\ sample >= values[kbest]
    <3>1. values' = values /\ values[kbest] \in Int
      BY <1>0, <2>1, <2>5 DEF add_sample
    <3>2. Best(taken', values')
      BY <1>0, <2>1, <2>5, <3>1, OthersKeepBest
    <3> QED BY <1>0, <2>1, <2>2, <3>1, <3>2, NextNumbers DEF SamplerInv
  <2>6. values[kbest] \in Int
    BY <1>0, <2>1
  <2> QED BY <1>0, <2>1, <2>3, <2>4, <2>5, <2>6
<1>3. CASE UNCHANGED <<values, samplecount, taken>> /\ (pc \in Out => pc' \in Out)
  <2>1. CASE pc \in Out /\ values = <<>>
    BY <1>3, <2>1, NextNumbers DEF SamplerInv
  <2>2. CASE values \in [1..kbest -> Int] /\ Best(taken, values)
    <3>1. values # <<>>
      BY <1>0, <2>2
    <3> QED BY <1>3, <2>2, <3>1, NextNumbers DEF SamplerInv, Best
  <2> QED BY <2>1, <2>2 DEF SamplerInv
<1> QED
  BY <1>1, <1>2, <1>3
  DEF Next, vars, clockVars, sampler, Begin, Counted, Callibrate, CalTimes, CalStart, CalOld,
      CalLoop, CalEvent, CalEnd, CompTimes, StartCounter, CallF, GetCounter, GetTimes, First, Run,
      Last, Step

\* fcyc keeps the kbest least of its samples, in order, after any number of
\* samples and whatever they are: the first, which it returns, is the least.
THEOREM BestKept == Spec => []KBest
<1>1. Init => CounterInv /\ SamplerInv
  <2>1. <<>> \in Seq(Int) /\ Len(<<>>) = 0
    OBVIOUS
  <2> SUFFICES ASSUME Init PROVE CounterInv /\ SamplerInv
    OBVIOUS
  <2>2. /\ utime = 0 /\ oldt = 0 /\ newt = 0 /\ oldc = 0 /\ cyc_per_tick = 0
        /\ start_tick = 0 /\ sample = 0 /\ taken = <<>> /\ samplecount = 0 /\ values = <<>>
        /\ pc \in {"init_sampler", "first"}
    BY DEF Init, ClockInit
  <2> QED BY <2>1, <2>2, InitCounterInv DEF SamplerInv
<1>2. CounterInv /\ SamplerInv /\ [Next]_vars => (CounterInv /\ SamplerInv)'
  BY NextCounterInv, NextSampler
<1> QED BY <1>1, <1>2, SamplerBest, PTL DEF Spec

----------------------------------------------------------------------------
(* The compensation for ticks.                                             *)

\* The reading at which callibrate notices that nothing came in between.
Patience == IF THRESHOLD > 1 THEN THRESHOLD ELSE 1

\* No other process runs, and two ticks are further apart than callibrate
\* needs to see the first.
Alone == MaxAway = 0 /\ Gap > TickCost + 1 + Patience

\* What callibrate takes for the cost of one tick is no less than that: it is
\* alone, or another process runs for longer than a tick takes, so that it is
\* not mistaken for one, and half of what such an interruption takes, or half of
\* a tick, is not recorded or is more than a tick.
TicksShow ==
    /\ 2 <= RECORDTHRESH /\ THRESHOLD <= RECORDTHRESH
    /\ Gap > TickCost + 1
    /\ \/ Alone
       \/ /\ Away >= TickCost /\ Patience + TickCost <= 2 * RECORDTHRESH
          /\ Away >= 2 * TickCost \/ Patience + Away <= 2 * RECORDTHRESH

\* While callibrate runs the counter does not go around.
NoWrap == pc \in {"cal_old", "cal_loop", "cal_event"} => now - started < Base * Base

TickPriced == cyc_per_tick # 0 => cyc_per_tick >= TickCost * SCALE

\* Ticks that callibrate will see at its next event, cycles since it read oldt,
\* cycles between the readings of oldt and newt, and cycles since the latter.
Seen == utime - oldc
Since == now - (started + oldt)
Apart == newt - oldt
After == now - (started + newt)
Few(x) == x <= THRESHOLD \/ x <= 2

\* In the loop: nothing came; a tick came before oldt was read; a tick came
\* just now; or one came before oldt was read and now another process or
\* another tick.
LoopOK ==
    /\ Since >= 0
    /\ \/ Seen = 0 /\ (Few(Since) \/ Since >= TickCost)
       \/ Seen = 1 /\ Since <= Patience /\ (Alone => now - lastTick <= TickCost + 2 + Since)
       \/ Seen = 1 /\ Since >= TickCost /\ now - lastTick <= TickCost + 1
       \/ Seen = 1 /\ Away <= Since /\ Since <= Patience + Away /\ MaxAway # 0
       \/ /\ Seen = 2 /\ TickCost <= Since /\ Since <= Patience + TickCost /\ ~Alone
          /\ now - lastTick <= TickCost + 1

\* At an event: what is about to be divided by the ticks seen.
EventOK ==
    /\ After = 1 \/ After >= TickCost
    /\ \/ Seen = 0 \/ Few(Apart)
       \/ Seen = 1 /\ Apart >= TickCost
       \/ Seen = 2 /\ Apart <= Patience + TickCost /\ ~Alone
       \/ Seen = 2 /\ Away <= Apart /\ Apart <= Patience + Away /\ MaxAway # 0

CalInv ==
    /\ pc = "cal_start" => Seen = 0 \/ (Seen = 1 /\ now - lastTick <= TickCost + 1)
    /\ pc = "cal_old" => Seen = 0 \/ (Seen = 1 /\ (Alone => now - lastTick <= TickCost + 2))
    /\ pc = "cal_loop" => LoopOK
    /\ pc = "cal_event" => EventOK /\ Seen \in {0, 1, 2}

TimesInv ==
    /\ CounterInv /\ SamplerInv
    /\ lastTick \in Int /\ away \in Nat

\* What may come while a step takes place.
LEMMA Passes ==
    ASSUME TimesInv, NEW d \in Nat, Elapse(d)
    PROVE  \/ now' = now + d /\ utime' = utime /\ lastTick' = lastTick
           \/ now - lastTick >= Gap /\ now' = now + d + TickCost /\ utime' = utime + 1
              /\ lastTick' = now
           \/ MaxAway # 0 /\ now' = now + d + Away /\ utime' = utime /\ lastTick' = lastTick
<1>1. MaxAway \in Nat /\ away \in Nat
  BY ClockAssumption DEF TimesInv
<1> QED BY <1>1 DEF Elapse

LEMMA CostNumbers ==
    /\ TickCost \in Nat /\ Gap \in Nat /\ Away \in Nat /\ MaxAway \in Nat
    /\ THRESHOLD \in Nat /\ RECORDTHRESH \in Nat
BY ClockAssumption

LEMMA NextTimes == ASSUME TimesInv, [Next]_vars PROVE TimesInv'
<1>1. now \in Int
  BY DEF TimesInv, CounterInv
<1>2. ASSUME NEW d, Elapse(d) PROVE lastTick' \in Int /\ away' \in Nat
  BY <1>1, <1>2 DEF Elapse, TimesInv
<1>3. UNCHANGED <<lastTick, away>> \/ \E d : Elapse(d)
  BY DEF Next, vars, clockVars, machine, init_sampler, Begin, Counted, Callibrate, CalTimes, CalStart,
      CalOld, CalLoop, CalEvent, CalEnd, CompTimes, StartCounter, CallF, GetCounter, GetTimes,
      AddSample, First, Run, Last
<1>4. lastTick' \in Int /\ away' \in Nat
  BY <1>2, <1>3 DEF TimesInv
<1> QED BY <1>4, NextCounterInv, NextSampler DEF TimesInv

LEMMA NextCal ==
    ASSUME TimesInv, CalInv, NoWrap, TicksShow, TickCost > RECORDTHRESH, [Next]_vars
    PROVE  CalInv'
<1>0. /\ TickCost \in Nat /\ Gap \in Nat /\ Away \in Nat /\ MaxAway \in Nat
      /\ THRESHOLD \in Nat /\ RECORDTHRESH \in Nat
      /\ now \in Int /\ started \in Int /\ utime \in Int /\ oldt \in Int /\ newt \in Int
      /\ oldc \in Int /\ lastTick \in Int
  BY CostNumbers DEF TimesInv, CounterInv, SamplerInv
<1>1. CASE CalTimes
  <2>1. pc' = "cal_start" /\ oldc' = utime /\ Elapse(1)
    BY <1>1 DEF CalTimes, Step
  <2>2. Seen' = 0 \/ (Seen' = 1 /\ now' - lastTick' <= TickCost + 1)
    BY <1>0, <2>1, Passes DEF Seen
  <2> QED BY <2>1, <2>2 DEF CalInv
<1>2. CASE CalStart
  <2>1. pc = "cal_start" /\ pc' = "cal_old" /\ oldc' = oldc /\ Elapse(1)
    BY <1>2 DEF CalStart, Step, cal
  <2>2. Seen = 0 \/ (Seen = 1 /\ now - lastTick <= TickCost + 1)
    BY <2>1 DEF CalInv
  <2>3. Seen' = 0 \/ (Seen' = 1 /\ (Alone => now' - lastTick' <= TickCost + 2))
    BY <1>0, <2>1, <2>2, Passes DEF Seen, Alone, TicksShow
  <2> QED BY <2>1, <2>3 DEF CalInv
<1>3. CASE CalOld
  <2>1. pc = "cal_old" /\ pc' = "cal_loop" /\ oldt' = get_counter /\ oldc' = oldc
        /\ started' = started /\ Elapse(1)
    BY <1>3 DEF CalOld, Step, counter
  <2>2. Seen = 0 \/ (Seen = 1 /\ (Alone => now - lastTick <= TickCost + 2))
    BY <2>1 DEF CalInv
  <2>3. oldt' = now - started
    BY <2>1, CounterIsExact DEF NoWrap, ExactCycles, TimesInv
  <2>4. Since' = now' - now
    <3>1. now' \in Int
      BY <1>0, <2>1, Passes
    <3> QED BY <1>0, <2>1, <2>3, <3>1 DEF Since
  <2>5. LoopOK'
    <3>1. \A x : Alone' = Alone /\ Few(x)' = Few(x) /\ Patience' = Patience
      BY DEF Alone, Few, Patience
    <3> QED BY <1>0, <2>1, <2>2, <2>4, Passes
            DEF LoopOK, Seen, Alone, TicksShow, Few, Patience
  <2> QED BY <2>1, <2>5 DEF CalInv
<1>4. CASE CalLoop
  <2>1. /\ pc = "cal_loop" /\ newt' = get_counter /\ oldt' = oldt /\ oldc' = oldc
        /\ started' = started /\ Elapse(1)
        /\ pc' = IF newt' - oldt >= THRESHOLD THEN "cal_event" ELSE "cal_loop"
    BY <1>4 DEF CalLoop, counter
  <2>2. LoopOK
    BY <2>1 DEF CalInv
  <2>3. newt' = now - started
    BY <2>1, CounterIsExact DEF NoWrap, ExactCycles, TimesInv
  <2>4. now' \in Int /\ utime' \in Int /\ lastTick' \in Int
    BY <1>0, <2>1, Passes
  <2>5. Since \in Int /\ Since' = Since + (now' - now) /\ Apart' = Since /\ After' = now' - now
    BY <1>0, <2>1, <2>3, <2>4 DEF Since, Apart, After
  <2>6. CASE Since >= THRESHOLD
    <3>1. pc' = "cal_event"
      BY <2>1, <2>5, <2>6 DEF Apart
    <3>2. EventOK' /\ Seen' \in {0, 1, 2}
      BY <1>0, <2>1, <2>2, <2>5, Passes
      DEF EventOK, LoopOK, Seen, Alone, TicksShow, Few, Patience
    <3> QED BY <3>1, <3>2 DEF CalInv
  <2>7. CASE Since < THRESHOLD
    <3>1. pc' = "cal_loop"
      BY <1>0, <2>1, <2>5, <2>7 DEF Apart
    <3>2. /\ 0 <= Since /\ Since < TickCost /\ Since + 1 <= Patience /\ Patience \in Nat
          /\ MaxAway # 0 => Away >= TickCost
          /\ Alone => Gap > TickCost + 1 + Patience
      BY <1>0, <2>2, <2>5, <2>7 DEF LoopOK, TicksShow, Alone, Patience
    <3>3. \/ Seen = 0
          \/ Seen = 1 /\ (Alone => now - lastTick <= TickCost + 2 + Since)
      BY <1>0, <2>2, <2>5, <3>2 DEF LoopOK
    <3>4. LoopOK'
      <4>1. CASE now' = now + 1 /\ utime' = utime /\ lastTick' = lastTick
        BY <1>0, <2>1, <2>5, <2>7, <3>2, <3>3, <4>1 DEF LoopOK, Seen, Few
      <4>2. CASE /\ now - lastTick >= Gap /\ now' = now + 1 + TickCost
                 /\ utime' = utime + 1 /\ lastTick' = now
        <5>1. Seen' = Seen + 1 /\ Since' = Since + 1 + TickCost /\ now' - lastTick' = 1 + TickCost
          BY <1>0, <2>1, <2>5, <4>2 DEF Seen
        <5>2. \/ Seen' = 1 /\ Since' >= TickCost
              \/ Seen' = 2 /\ TickCost <= Since' /\ Since' <= Patience + TickCost /\ ~Alone
          <6>1. Seen = 0 => Seen' = 1 /\ Since' >= TickCost
            BY <1>0, <2>5, <3>2, <5>1
          <6>2. Alone => Seen = 0
            BY <1>0, <2>5, <3>2, <3>3, <4>2
          <6>3. Seen = 1 => Seen' = 2 /\ TickCost <= Since' /\ Since' <= Patience + TickCost
            BY <1>0, <2>5, <3>2, <3>3, <5>1
          <6> QED BY <3>3, <6>1, <6>2, <6>3
        <5>3. Patience' = Patience /\ Alone' = Alone
          BY DEF Patience, Alone
        <5> QED BY <1>0, <5>1, <5>2, <5>3 DEF LoopOK
      <4>3. CASE MaxAway # 0 /\ now' = now + 1 + Away /\ utime' = utime /\ lastTick' = lastTick
        <5>1. Seen' = Seen /\ Since' = Since + 1 + Away
          BY <1>0, <2>1, <2>5, <4>3 DEF Seen
        <5>2. \/ Seen' = 0 /\ Since' >= TickCost
              \/ Seen' = 1 /\ Away <= Since' /\ Since' <= Patience + Away /\ MaxAway # 0
          <6>1. Seen = 0 => Since' >= TickCost
            BY <1>0, <2>5, <3>2, <4>3, <5>1
          <6>2. Seen = 1 => Away <= Since' /\ Since' <= Patience + Away
            BY <1>0, <2>5, <3>2, <3>3, <5>1
          <6> QED BY <3>3, <4>3, <5>1, <6>1, <6>2
        <5>3. Patience' = Patience
          BY DEF Patience
        <5>4. Since' >= 0
          BY <1>0, <2>5, <3>2, <5>1
        <5> QED BY <5>2, <5>3, <5>4 DEF LoopOK
      <4> QED BY <2>1, <4>1, <4>2, <4>3, Passes
    <3> QED BY <3>1, <3>4 DEF CalInv
  <2> QED BY <1>0, <2>5, <2>6, <2>7
<1>5. CASE CalEvent
  <2>1. /\ pc = "cal_event" /\ pc' = "cal_loop" /\ oldt' = newt /\ Elapse(1)
        /\ started' = started /\ oldc' = IF utime > oldc THEN utime ELSE oldc
    BY <1>5 DEF CalEvent, Step, counter
  <2>2. After = 1 \/ After >= TickCost
    BY <2>1 DEF CalInv, EventOK
  <2>3. Seen \in {0, 1, 2}
    BY <2>1 DEF CalInv
  <2>4. now' \in Int /\ utime' \in Int /\ lastTick' \in Int
    BY <1>0, <2>1, Passes
  <2>5. After \in Int /\ Since' = After + (now' - now) /\ Seen' = utime' - utime
    BY <1>0, <2>1, <2>3, <2>4 DEF Since, After, Seen
  <2>6. LoopOK'
    BY <1>0, <2>1, <2>2, <2>5, Passes DEF LoopOK, Seen, Alone, TicksShow, Few, Patience
  <2> QED BY <2>1, <2>6 DEF CalInv
<1>6. CASE UNCHANGED vars
  <2>1. CalInv' = CalInv
    BY <1>6 DEF vars, clockVars, machine, counter, cal, CalInv, LoopOK, EventOK, Seen, Since, Apart,
        After, Few
  <2> QED BY <2>1
<1>7. CASE Next /\ ~(CalTimes \/ CalStart \/ CalOld \/ CalLoop \/ CalEvent)
  <2>1. pc' \notin {"cal_start", "cal_old", "cal_loop", "cal_event"}
    BY <1>7 DEF Next, init_sampler, Begin, Counted, Callibrate, CalEnd, CompTimes, StartCounter,
        CallF, GetCounter, GetTimes, AddSample, First, Run, Last, Step
  <2> QED BY <2>1 DEF CalInv
<1> QED BY <1>1, <1>2, <1>3, <1>4, <1>5, <1>6, <1>7

\* What is recorded is the price of a tick, or more.
LEMMA NextPriced ==
    ASSUME TimesInv, CalInv \/ TickCost <= RECORDTHRESH, TickPriced, TicksShow, [Next]_vars
    PROVE  TickPriced'
<1>0. /\ TickCost \in Nat /\ Away \in Nat /\ THRESHOLD \in Nat /\ RECORDTHRESH \in Nat
      /\ utime \in Int /\ oldt \in Int /\ newt \in Int /\ oldc \in Int
  BY CostNumbers DEF TimesInv, SamplerInv
<1> DEFINE cpt == ((newt - oldt) * SCALE) \div (utime - oldc)
<1>1. \/ cyc_per_tick' = cyc_per_tick
      \/ /\ pc = "cal_event" /\ utime > oldc
         /\ cyc_per_tick' = cpt /\ cpt > RECORDTHRESH * SCALE
  BY DEF Next, vars, clockVars, init_sampler, Begin, Counted, Callibrate, CalTimes, CalStart,
      CalOld, CalLoop, CalEvent, CalEnd, CompTimes, StartCounter, CallF, GetCounter, GetTimes,
      AddSample, First, Run, Last, Step
<1>2. CASE cyc_per_tick' = cyc_per_tick
  BY <1>2 DEF TickPriced
<1> SUFFICES ASSUME pc = "cal_event", utime > oldc, cpt > RECORDTHRESH * SCALE,
                    cyc_per_tick' = cpt
             PROVE  cpt >= TickCost * SCALE
  BY <1>1, <1>2 DEF TickPriced
<1>3. cpt \in Int
  <2>1. PICK x, y : x = (newt - oldt) * SCALE /\ y = utime - oldc
    OBVIOUS
  <2>2. x \in Int /\ y \in Nat \ {0}
    BY <1>0, <2>1 DEF SCALE
  <2>3. x \div y \in Int
    BY <2>2, DivMod
  <2> QED BY <2>1, <2>3
<1>4. CASE TickCost <= RECORDTHRESH
  <2> HIDE DEF cpt
  <2> QED BY <1>0, <1>3, <1>4 DEF SCALE
<1>5. CASE CalInv /\ ~(TickCost <= RECORDTHRESH)
  <2>1. EventOK /\ Seen \in {1, 2}
    BY <1>0, <1>5 DEF CalInv, Seen
  <2>2. PICK x, y : x = Apart * SCALE /\ y = Seen
    OBVIOUS
  <2>3. x \in Int /\ y \in {1, 2} /\ Apart \in Int
    BY <1>0, <2>1, <2>2 DEF SCALE, Apart
  <2>4. cpt = x \div y
    BY <2>2 DEF Apart, Seen
  <2>5. x = y * (x \div y) + (x % y) /\ x % y \in 0..(y - 1)
    BY <2>3, DivMod
  <2> HIDE DEF cpt
  <2>6. CASE y = 1
    <3>1. x = cpt
      BY <1>3, <2>3, <2>4, <2>5, <2>6
    <3>2. Apart >= TickCost
      BY <1>0, <2>1, <2>2, <2>3, <2>6, <3>1 DEF EventOK, Few, TicksShow, SCALE
    <3> QED BY <1>0, <2>2, <2>3, <3>1, <3>2 DEF SCALE
  <2>7. CASE y = 2
    <3>1. PICK r \in 0..1 : x = 2 * cpt + r
      BY <1>3, <2>3, <2>4, <2>5, <2>7
    <3>2. Apart > 2 * RECORDTHRESH
      BY <1>0, <1>3, <2>2, <2>3, <3>1 DEF SCALE
    <3>3. Apart >= 2 * TickCost
      BY <1>0, <1>5, <2>1, <2>2, <2>3, <2>7, <3>2
        DEF EventOK, Few, TicksShow, Alone, Patience
    <3> QED BY <1>0, <1>3, <2>2, <2>3, <3>1, <3>3 DEF SCALE
  <2> QED BY <2>3, <2>6, <2>7
<1> QED BY <1>4, <1>5

\* From the tick count of start_comp_counter to the compensated sample: ticks
\* between the two readings of the counter are among those that times showed.
Sampled(time, n) ==
    /\ sample = time * SCALE /\ own \in Int /\ time <= own + n * TickCost
    /\ n <= utime - startTicks

CompInv ==
    compensate =>
        /\ pc = "start" => start_tick <= utime
        /\ pc \in {"f", "get", "get_times"} =>
               startTicks \in Int /\ start_tick <= startTicks /\ startTicks <= utime
        /\ pc = "get_times" => \E time \in Int, n \in Nat : Sampled(time, n)
        /\ NeverAbove

\* The counter never shows more cycles than went by.
LEMMA CountsAtMost ==
    ASSUME CounterInv PROVE get_counter \in Int /\ get_counter <= now - started
<1>1. PICK B, c, d : B = Base * Base /\ c = cyc_hi * Base + cyc_lo /\ d = tsc - c
  OBVIOUS
<1>2. B \in Nat \ {0} /\ offset + now \in Int /\ offset + started \in Int /\ now - started \in Int
  BY <1>1, ClockAssumption DEF CounterInv
<1>3. tsc \in 0..(B - 1) /\ c \in 0..(B - 1)
  BY <1>1, <1>2, DivMod DEF CounterInv, tsc
<1>4. get_counter = IF d >= 0 THEN d ELSE d + B
  BY <1>1, Borrows
<1>5. get_counter \in 0..(B - 1)
  BY <1>1, <1>2, <1>3, <1>4
<1>6. now - started < B => get_counter = now - started
  BY <1>1, CounterIsExact DEF ExactCycles
<1> QED BY <1>2, <1>5, <1>6

\* Ticks only add up.
LEMMA TicksAdd ==
    ASSUME TimesInv, NEW d \in Nat, Elapse(d) PROVE utime' \in Int /\ utime' >= utime
<1>1. utime \in Int
  BY DEF TimesInv, SamplerInv
<1> QED BY <1>1, Passes

\* What compensation takes off a sample is the cost of its ticks, or more.
LEMMA NeverTooLittle ==
    ASSUME NEW time \in Int, NEW n \in Nat, NEW k \in Int, NEW c \in Int, NEW o \in Int,
           n <= k, c >= TickCost * SCALE, time <= o + n * TickCost
    PROVE  time * SCALE - k * c <= o * SCALE
<1>1. PICK t : t = TickCost * SCALE
  OBVIOUS
<1>2. TickCost \in Nat /\ t \in Nat /\ c \in Nat /\ k \in Nat
  BY <1>1, CostNumbers DEF SCALE
<1>3. t * n <= t * k
  BY <1>2, Grows
<1>4. k * t <= k * c
  BY <1>1, <1>2, Grows
<1>5. PICK p : p = n * TickCost
  OBVIOUS
<1>6. p \in Int
  BY <1>2, <1>5
<1>7. p * SCALE = t * n
  BY <1>1, <1>2, <1>5 DEF SCALE
<1>8. PICK x, y, z : x = t * n /\ y = t * k /\ z = k * c
  OBVIOUS
<1>9. x \in Int /\ y \in Int /\ z \in Int /\ x <= y /\ y <= z
  BY <1>2, <1>3, <1>4, <1>8
<1>10. time <= o + p /\ p * SCALE = x
  BY <1>5, <1>7, <1>8
<1> QED BY <1>6, <1>8, <1>9, <1>10 DEF SCALE

LEMMA NextComp ==
    ASSUME TimesInv, CompInv, TickPriced, [Next]_vars
    PROVE  CompInv'
<1>0. /\ TickCost \in Nat /\ now \in Int /\ started \in Int /\ utime \in Int
      /\ start_tick \in Int /\ sample \in Int /\ cyc_per_tick \in Int
  BY CostNumbers DEF TimesInv, CounterInv, SamplerInv
<1>1. CASE CompTimes
  <2>1. pc' = "start" /\ start_tick' = utime /\ Elapse(1)
    BY <1>1 DEF CompTimes, Step
  <2>2. start_tick' <= utime'
    BY <1>0, <2>1, TicksAdd
  <2> QED BY <2>1, <2>2 DEF CompInv, NeverAbove
<1>2. CASE StartCounter
  <2>1. /\ pc = "start" /\ pc' = "f" /\ startTicks' = utime /\ start_tick' = start_tick
        /\ compensate' = compensate /\ Elapse(1)
    BY <1>2 DEF StartCounter, Step, start_counter
  <2>2. utime' \in Int /\ utime' >= utime
    BY <2>1, TicksAdd
  <2> QED BY <1>0, <2>1, <2>2 DEF CompInv, NeverAbove
<1>3. CASE CallF
  <2>1. /\ pc = "f" /\ pc' = "get" /\ startTicks' = startTicks /\ start_tick' = start_tick
        /\ compensate' = compensate /\ \E w \in Works : Elapse(w)
    BY <1>3 DEF CallF, Step, counter
  <2>2. utime' \in Int /\ utime' >= utime
    BY <2>1, TicksAdd, Durations
  <2> QED BY <1>0, <2>1, <2>2 DEF CompInv, NeverAbove
<1>4. CASE GetCounter
  <2>1. /\ pc = "get" /\ pc' = IF compensate THEN "get_times" ELSE "add"
        /\ startTicks' = startTicks /\ start_tick' = start_tick /\ compensate' = compensate
        /\ sample' = get_counter * SCALE /\ Elapse(1)
        /\ own' = (now - started) - (utime - startTicks) * TickCost
    BY <1>4 DEF GetCounter, Step, counter
  <2>2. utime' \in Int /\ utime' >= utime
    BY <2>1, TicksAdd
  <2> SUFFICES ASSUME compensate PROVE CompInv'
    BY <2>1 DEF CompInv
  <2>3. startTicks \in Int /\ start_tick <= startTicks /\ startTicks <= utime
    BY <2>1 DEF CompInv
  <2>4. PICK n : n = utime - startTicks
    OBVIOUS
  <2>5. n \in Nat /\ n * TickCost \in Int
    BY <1>0, <2>3, <2>4
  <2>6. PICK p : p = n * TickCost
    OBVIOUS
  <2>7. p \in Int /\ own' = (now - started) - p
    BY <2>1, <2>4, <2>5, <2>6
  <2> PICK t : t = get_counter
    OBVIOUS
  <2>8. t \in Int /\ t <= now - started
    BY CountsAtMost DEF TimesInv
  <2>9. own' \in Int /\ t <= own' + p
    BY <1>0, <2>7, <2>8
  <2>10. n <= utime' - startTicks'
    <3>1. startTicks' = startTicks
      BY <2>1
    <3>2. PICK x, y, z : x = utime /\ y = utime' /\ z = startTicks
      OBVIOUS
    <3>3. x \in Int /\ y \in Int /\ z \in Int /\ x <= y
      BY <1>0, <2>2, <2>3, <3>2
    <3>4. x - z <= y - z
      BY ONLY <3>3
    <3> QED BY <2>4, <3>1, <3>2, <3>4
  <2>11. Sampled(t, n)'
    BY <2>1, <2>6, <2>9, <2>10 DEF Sampled, SCALE
  <2>12. \E time \in Int, m \in Nat : Sampled(time, m)'
    BY <2>5, <2>8, <2>11
  <2> QED BY <1>0, <2>1, <2>2, <2>3, <2>12 DEF CompInv, NeverAbove
<1>5. CASE GetTimes
  <2>1. /\ pc = "get_times" /\ pc' = "add" /\ sample' = Compensated(sample \div SCALE)
        /\ own' = own /\ compensate' = compensate /\ cyc_per_tick' = cyc_per_tick
    BY <1>5 DEF GetTimes, Step
  <2> SUFFICES ASSUME compensate, cyc_per_tick # 0 PROVE sample' <= own' * SCALE
    BY <2>1 DEF CompInv, NeverAbove
  <2>2. startTicks \in Int /\ start_tick <= startTicks /\ startTicks <= utime
    BY <2>1 DEF CompInv
  <2>3. PICK time \in Int, n \in Nat : Sampled(time, n)
    BY <2>1 DEF CompInv
  <2>4. sample \div SCALE = time
    <3>1. SCALE \in Nat \ {0} /\ SCALE * time = sample /\ sample < SCALE * time + SCALE
      BY <1>0, <2>3 DEF SCALE, Sampled
    <3>2. SCALE * time <= sample
      BY <1>0, <3>1
    <3> QED BY <1>0, <3>1, <3>2, Quotient
  <2>5. sample' = time * SCALE - (utime - start_tick) * cyc_per_tick
    BY <2>1, <2>4 DEF Compensated
  <2>6. utime - start_tick \in Int /\ n <= utime - start_tick /\ own \in Int
        /\ time <= own + n * TickCost /\ cyc_per_tick >= TickCost * SCALE
    BY <1>0, <2>2, <2>3 DEF Sampled, TickPriced
  <2>7. time * SCALE - (utime - start_tick) * cyc_per_tick <= own * SCALE
    BY <1>0, <2>6, NeverTooLittle
  <2> QED BY <2>1, <2>5, <2>7
<1>6. CASE UNCHANGED vars
  <2>1. CompInv' = CompInv
    BY <1>6 DEF vars, clockVars, machine, counter, sampler, CompInv, Sampled, NeverAbove
  <2> QED BY <2>1
<1>7. CASE Next /\ ~(CompTimes \/ StartCounter \/ CallF \/ GetCounter \/ GetTimes)
  <2>1. /\ compensate' => pc' \notin {"start", "f", "get", "get_times", "add"}
    BY <1>7 DEF Next, init_sampler, Begin, Counted, Callibrate, CalTimes, CalStart, CalOld, CalLoop,
        CalEvent, CalEnd, AddSample, First, Run, Last, Step
  <2> QED BY <2>1 DEF CompInv, NeverAbove
<1> QED BY <1>1, <1>2, <1>3, <1>4, <1>5, <1>6, <1>7

\* A compensated sample never exceeds the cycles that were not spent on ticks,
\* for all costs of a tick and an interruption, thresholds of callibrate and
\* numbers of its events that satisfy TicksShow, whenever the ticks come
\* (callibrate, clock.c:213-248; get_comp_counter, 263-278).
THEOREM StaysBelow ==
    ASSUME TicksShow
    PROVE  Spec /\ []NoWrap => []NeverAbove
<1>1. Init => TimesInv /\ CompInv /\ TickPriced /\ CalInv
  <2> SUFFICES ASSUME Init PROVE TimesInv /\ CompInv /\ TickPriced /\ CalInv
    OBVIOUS
  <2>1. <<>> \in Seq(Int) /\ Len(<<>>) = 0
    OBVIOUS
  <2>2. /\ utime = 0 /\ oldt = 0 /\ newt = 0 /\ oldc = 0 /\ cyc_per_tick = 0
        /\ start_tick = 0 /\ sample = 0 /\ taken = <<>> /\ samplecount = 0 /\ values = <<>>
        /\ pc \in {"init_sampler", "first"} /\ away = 0 /\ lastTick \in (-Gap)..0
    BY DEF Init, ClockInit
  <2>3. SamplerInv
    BY <2>1, <2>2 DEF SamplerInv
  <2>4. lastTick \in Int /\ away \in Nat
    BY <2>2, CostNumbers
  <2> QED BY <2>2, <2>3, <2>4, InitCounterInv
          DEF TimesInv, CompInv, NeverAbove, TickPriced, CalInv
<1>2. CASE TickCost > RECORDTHRESH
  <2> DEFINE Inv == TimesInv /\ CompInv /\ TickPriced /\ CalInv
  <2>1. Inv /\ NoWrap /\ [Next]_vars => Inv'
    BY <1>2, NextTimes, NextComp, NextPriced, NextCal
  <2>2. Inv => NeverAbove
    BY DEF CompInv, NeverAbove
  <2> QED BY <1>1, <2>1, <2>2, PTL DEF Spec
<1>3. CASE TickCost <= RECORDTHRESH
  <2> DEFINE Inv == TimesInv /\ CompInv /\ TickPriced
  <2>1. Inv /\ [Next]_vars => Inv'
    BY <1>3, NextTimes, NextComp, NextPriced
  <2>2. Inv => NeverAbove
    BY DEF CompInv, NeverAbove
  <2> QED BY <1>1, <2>1, <2>2, PTL DEF Spec
<1>4. TickCost > RECORDTHRESH \/ TickCost <= RECORDTHRESH
  BY CostNumbers
<1> QED BY <1>2, <1>3, <1>4
=============================================================================
