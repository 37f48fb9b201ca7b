-------------------------------- MODULE BTest --------------------------------
(***************************************************************************)
(* The test driver of the data lab (01-datalab-lab/btest.c): its options,  *)
(* the choice of test values, the calls of each puzzle of bits.c and of    *)
(* its reference, and the timer that ends a puzzle that loops.             *)
(*                                                                         *)
(* alarm() sends SIGALRM after timeout_limit seconds; the handler jumps to *)
(* where test_function last called sigsetjmp.  Nothing cancels the alarm   *)
(* when a test ends in time: only the next call of alarm replaces it.  So  *)
(* it may strike at any later point, and time is whatever it takes.        *)
(*                                                                         *)
(* What is printed, and the weights (rating, -r), are left out: points are *)
(* the set of the tests that score.  The ranges that test_function never   *)
(* uses, some of them uninitialized (314-319), are left out too.           *)
(***************************************************************************)
EXTENDS Bits, Sequences, SequencesExt

CONSTANTS
    TestRange,      \* TEST_RANGE
    Randoms,        \* values random_val may return
    Loops,          \* puzzles whose solution, in some version of bits.c, loops
    Invocations,    \* command lines, each a sequence of options
    MaxLate         \* bound on the alarms that strike a test that does not loop

ASSUME BTestAssumption ==
    /\ TestRange \in Nat \ {0} /\ Randoms \subseteq TMin..TMax /\ MaxLate \in Nat

VARIABLES
    argv,               \* options not parsed yet
    test_fname,         \* "" for every puzzle
    has_arg, argval,    \* of each argument
    timeout_limit,
    i,                  \* the test in test_set
    arg_test_vals,      \* the values of each argument
    call,               \* calls of the puzzle made
    errors,             \* of the test
    alarm,              \* the test that set the alarm that is due, 0 for none
    blocked, saved,     \* SIGALRM is blocked; was blocked at sigsetjmp
    pc, outcome,
    scored,             \* tests without an error: their ratings are the points
    charged,            \* ghost: <<t, a>>: the alarm that a set ended t
    late                \* number of alarms that struck no loop

opts == <<argv, test_fname, has_arg, argval, timeout_limit>>
ghosts == <<charged, late>>
vars == <<opts, i, arg_test_vals, call, errors, alarm, blocked, saved, pc,
          outcome, scored, ghosts>>

\* The table of decl.c.
Entry(name, args) == [name |-> name, args |-> args, min |-> TMin, max |-> TMax]
FloatEntry(name) == [name |-> name, args |-> 1, min |-> 1, max |-> 1]
test_set ==
    <<Entry("bitXor", 2), Entry("tmin", 0), Entry("isTmax", 1), Entry("allOddBits", 1),
      Entry("negate", 1), Entry("isAsciiDigit", 1), Entry("conditional", 3),
      Entry("isLessOrEqual", 2), Entry("logicalNeg", 1), Entry("howManyBits", 1),
      FloatEntry("floatScale2"), FloatEntry("floatFloat2Int"), FloatEntry("floatPower2")>>
Tests == DOMAIN test_set
Selected(t) == test_fname \in {"", test_set[t].name}

Init ==
    /\ argv \in Invocations
    /\ test_fname = ""
    /\ has_arg = [k \in 1..3 |-> FALSE]
    /\ argval = [k \in 1..3 |-> 0]
    /\ timeout_limit = 10
    /\ i = 1 /\ arg_test_vals = <<>> /\ call = 0 /\ errors = 0
    /\ alarm = 0 /\ blocked = FALSE /\ saved = FALSE
    /\ pc = "parse" /\ outcome = "run"
    /\ scored = {} /\ charged = {} /\ late = 0

----------------------------------------------------------------------------
(* main: the options.                                                      *)

\* For an integer get_num_val tests the value from before (*valp) where it
\* means to test what is left of the string: a second value for an argument
\* is accepted only when the first was 0, and trailing letters always are.
get_num_val(o) == o.fits /\ (o.float \/ argval[o.arg] = 0)

ParseArg(o) ==
    /\ has_arg' = [has_arg EXCEPT ![o.arg] = get_num_val(o)]
    /\ argval' = [argval EXCEPT ![o.arg] = IF get_num_val(o) THEN o.val ELSE @]
    /\ outcome' = IF get_num_val(o) THEN "run" ELSE "bad_argument"
    /\ UNCHANGED <<test_fname, timeout_limit>>

Parse ==
    /\ outcome = "run" /\ pc = "parse" /\ argv # <<>>
    /\ argv' = Tail(argv)
    /\ LET o == Head(argv) IN
          \/ o.opt = "arg" /\ ParseArg(o)
          \/ /\ o.opt = "f" /\ test_fname' = o.val
             /\ UNCHANGED <<has_arg, argval, timeout_limit, outcome>>
          \/ /\ o.opt = "T" /\ timeout_limit' = o.val
             /\ UNCHANGED <<test_fname, has_arg, argval, outcome>>
          \/ /\ o.opt = "usage" /\ outcome' = "usage"
             /\ UNCHANGED <<test_fname, has_arg, argval, timeout_limit>>
    /\ UNCHANGED <<i, arg_test_vals, call, errors, alarm, blocked, saved, pc, scored, ghosts>>

\* Signal(SIGALRM, timeout_handler), then run_tests.
RunTests ==
    /\ outcome = "run" /\ pc = "parse" /\ argv = <<>>
    /\ pc' = "gen"
    /\ UNCHANGED <<opts, i, arg_test_vals, call, errors, alarm, blocked, saved, outcome,
                   scored, ghosts>>

----------------------------------------------------------------------------
(* gen_vals.                                                               *)

MAX_TEST_VALS == 13 * TestRange

\* pow(TEST_RANGE, 0.5), pow(TEST_RANGE, 0.333), and at least 1.
Root(n) == Max({1} \cup {r \in 1..TestRange : r ^ n <= TestRange})
arg_test_range(args) == IF args = 0 THEN 1 ELSE Root(args)

\* Fault: the region above one is tested twice.
float_vals_Twice(range) == [k \in 1..(14 * range + 4) |-> k - 1]

\* Bit patterns of floats, numbered in the order they are tried; the first
\* is 0.  Twelve for each step of the range, and four special ones.
float_vals(range) == [k \in 1..(12 * Min({range, 2 ^ 23}) + 4) |-> k - 1]

OneIf(v, min, max) == IF min <= v /\ v <= max THEN <<v>> ELSE <<>>
Sample(min, max, n, r) ==
    <<min + n, max - n>> \o OneIf(n, min, max) \o OneIf(-n, min, max) \o <<r>>

\* The lists of values gen_vals may make.
gen_vals(min, max, range, k) ==
    IF has_arg[k] THEN {<<argval[k]>>}
    ELSE IF min = 1 /\ max = 1 THEN {float_vals(range)}
    ELSE IF max - MAX_TEST_VALS <= min
         THEN {[n \in 1..(max - min + 1) |-> min + n - 1]}
    ELSE {FlattenSeq([n \in 1..range |-> Sample(min, max, n - 1, r[n])]) :
              r \in [1..range -> Randoms]}

\* run_tests goes to its next test, and test_function makes the values.
Gen ==
    /\ outcome = "run" /\ pc = "gen"
    /\ \/ /\ i \in Tests /\ ~Selected(i)
          /\ i' = i + 1
          /\ UNCHANGED <<arg_test_vals, call, errors, pc>>
       \/ /\ i \in Tests /\ Selected(i)
          /\ LET t == test_set[i]
                 Vals(k) == gen_vals(t.min, t.max, arg_test_range(t.args), k)
             IN  arg_test_vals' \in {v \in [1..t.args -> UNION {Vals(k) : k \in 1..t.args}] :
                                        \A k \in 1..t.args : v[k] \in Vals(k)}
          /\ call' = 0 /\ errors' = 0
          /\ pc' = "setjmp"
          /\ UNCHANGED i
       \/ /\ i \notin Tests
          /\ pc' = "total"
          /\ UNCHANGED <<i, arg_test_vals, call, errors>>
    /\ UNCHANGED <<opts, alarm, blocked, saved, outcome, scored, ghosts>>

----------------------------------------------------------------------------
(* test_function.                                                          *)

SetJmp ==
    /\ outcome = "run" /\ pc = "setjmp"
    /\ saved' = IF timeout_limit > 0 THEN blocked ELSE saved
    /\ pc' = IF timeout_limit > 0 THEN "arm" ELSE "calls"
    /\ UNCHANGED <<opts, i, arg_test_vals, call, errors, alarm, blocked, outcome, scored, ghosts>>

\* Fault: an alarm that is due is left alone.
Arm_Keep ==
    /\ outcome = "run" /\ pc = "arm"
    /\ alarm' = IF alarm = 0 THEN i ELSE alarm
    /\ pc' = "calls"
    /\ UNCHANGED <<opts, i, arg_test_vals, call, errors, blocked, saved, outcome, scored, ghosts>>

\* alarm(): the one that was due is forgotten.
Arm ==
    /\ outcome = "run" /\ pc = "arm"
    /\ alarm' = i
    /\ pc' = "calls"
    /\ UNCHANGED <<opts, i, arg_test_vals, call, errors, blocked, saved, outcome, scored, ghosts>>

Gives(name, a) ==
    CASE name = "bitXor" -> bitXor(a[1], a[2])
      [] name = "tmin" -> tmin
      [] name = "isTmax" -> isTmax(a[1])
      [] name = "allOddBits" -> allOddBits(a[1])
      [] name = "negate" -> negate(a[1])
      [] name = "isAsciiDigit" -> isAsciiDigit(a[1])
      [] name = "conditional" -> conditional(a[1], a[2], a[3])
      [] name = "isLessOrEqual" -> isLessOrEqual(a[1], a[2])
      [] name = "logicalNeg" -> logicalNeg(a[1])
      [] name = "howManyBits" -> howManyBits(a[1])
ShouldBe(name, a) ==
    CASE name = "bitXor" -> test_bitXor(a[1], a[2])
      [] name = "tmin" -> test_tmin
      [] name = "isTmax" -> test_isTmax(a[1])
      [] name = "allOddBits" -> test_allOddBits(a[1])
      [] name = "negate" -> test_negate(a[1])
      [] name = "isAsciiDigit" -> test_isAsciiDigit(a[1])
      [] name = "conditional" -> test_conditional(a[1], a[2], a[3])
      [] name = "isLessOrEqual" -> test_isLessOrEqual(a[1], a[2])
      [] name = "logicalNeg" -> test_logicalNeg(a[1])
      [] name = "howManyBits" -> test_howManyBits(a[1])

\* 2, which a float puzzle gives for 0, is wrong for each of them; no command
\* line here gives a float puzzle another argument.
Wrong(t, v) ==
    IF t.min = 1 THEN v[1] = 0
    ELSE LET a == [k \in DOMAIN v |-> WordOf(v[k])]
         IN  Gives(t.name, a) # ShouldBe(t.name, a)

\* The arguments of a call: the last one varies fastest.
Count(k) == Len(arg_test_vals[k])
Arguments(t) ==
    [k \in 1..t.args |->
        LET block == IF k = t.args THEN 1 ELSE IF k + 1 = t.args THEN Count(t.args)
                     ELSE Count(2) * Count(3)
        IN  arg_test_vals[k][1 + ((call \div block) % Count(k))]]
Calls(t) == IF t.args = 0 THEN 1
            ELSE FoldLeft(LAMBDA n, s : n * Len(s), 1, arg_test_vals)

Looping == pc = "calls" /\ test_set[i].name \in Loops

\* One call of the puzzle and of its reference; the first error ends the test.
Call ==
    /\ outcome = "run" /\ pc = "calls" /\ ~Looping
    /\ LET t == test_set[i] IN
          /\ errors' = IF Wrong(t, Arguments(t)) THEN 1 ELSE 0
          /\ call' = call + 1
          /\ pc' = IF errors' = 1 \/ call' = Calls(t) THEN "score" ELSE "calls"
    /\ UNCHANGED <<opts, i, arg_test_vals, alarm, blocked, saved, outcome, scored, ghosts>>

\* run_tests adds the test up.
Score ==
    /\ outcome = "run" /\ pc = "score"
    /\ scored' = IF errors = 0 THEN scored \cup {i} ELSE scored
    /\ i' = i + 1
    /\ arg_test_vals' = <<>> /\ call' = 0
    /\ pc' = "gen"
    /\ UNCHANGED <<opts, errors, alarm, blocked, saved, outcome, ghosts>>

Total ==
    /\ outcome = "run" /\ pc = "total"
    /\ outcome' = "exit"
    /\ UNCHANGED <<opts, i, arg_test_vals, call, errors, alarm, blocked, saved, pc, scored, ghosts>>

----------------------------------------------------------------------------
(* timeout_handler.                                                        *)

\* Fault: the jump leaves the signal blocked.
timeout_handler_Blocked ==
    /\ outcome = "run" /\ alarm # 0 /\ ~blocked
    /\ Looping \/ late < MaxLate
    /\ late' = IF Looping THEN late ELSE late + 1
    /\ alarm' = 0
    /\ blocked' = TRUE
    /\ \/ /\ pc \in {"arm", "calls", "setjmp", "gen", "score"}
          /\ i \in Tests /\ Selected(i)
          /\ errors' = 1 /\ pc' = "score"
          /\ charged' = charged \cup {<<i, alarm>>}
          /\ UNCHANGED outcome
       \/ /\ pc \notin {"arm", "calls"}
          /\ outcome' = "crash"
          /\ UNCHANGED <<errors, pc, charged>>
    /\ UNCHANGED <<opts, i, arg_test_vals, call, saved, scored>>

\* The handler runs with SIGALRM blocked and jumps to sigsetjmp, which gives
\* the mask back and ends the test with one error.  That is the frame of the
\* test that runs, once sigsetjmp was called (350); before that, and after
\* test_function returned, it is a frame that is gone.  Such a jump is
\* undefined: it crashes, or the stack still holds a return to run_tests and
\* the test at hand gets the error.
timeout_handler ==
    /\ outcome = "run" /\ alarm # 0 /\ ~blocked
    /\ Looping \/ late < MaxLate
    /\ late' = IF Looping THEN late ELSE late + 1
    /\ alarm' = 0
    /\ blocked' = saved
    /\ \/ /\ pc \in {"arm", "calls", "setjmp", "gen", "score"}
          /\ i \in Tests /\ Selected(i)
          /\ errors' = 1 /\ pc' = "score"
          /\ charged' = charged \cup {<<i, alarm>>}
          /\ UNCHANGED outcome
       \/ /\ pc \notin {"arm", "calls"}
          /\ outcome' = "crash"
          /\ UNCHANGED <<errors, pc, charged>>
    /\ UNCHANGED <<opts, i, arg_test_vals, call, saved, scored>>

----------------------------------------------------------------------------
Main == Parse \/ RunTests \/ Gen \/ SetJmp \/ Arm \/ Call \/ Score \/ Total
Next == Main \/ timeout_handler

Spec == Init /\ [][Next]_vars

----------------------------------------------------------------------------
(* Properties.                                                             *)

Solved == {t \in Tests : test_set[t].name \notin
              {"howManyBits", "floatScale2", "floatFloat2Int", "floatPower2"}}

\* A puzzle that is solved scores, whatever values are tried, unless an alarm
\* ended its test; one that is not solved never does.  With a value given for
\* each argument (-1, -2, -3) this compares solution and reference there.
Verdicts ==
    /\ scored \subseteq Solved
    /\ \A t \in Solved :
          t < i /\ Selected(t) /\ outcome # "bad_argument" =>
              t \in scored \/ \E a \in Tests : <<t, a>> \in charged

\* An alarm ends the test that set it, or else the next one tested, before
\* that one has set its own (357): it is never charged further on, nor does
\* one alarm end two tests.
AlarmsStrikeNear ==
    \A c \in charged :
        /\ c[2] <= c[1]
        /\ \A t \in Tests : Selected(t) => ~(c[2] < t /\ t < c[1])
        /\ \A d \in charged : d[2] = c[2] => d = c

\* The values of an argument fit arg_test_vals (btest.c:44-48).
ValuesFit == \A k \in DOMAIN arg_test_vals : Count(k) <= MAX_TEST_VALS

\* With a time limit a puzzle that loops has an alarm due that can end it:
\* its own, and not blocked by the handler of an earlier one.
LoopsAreTimed == Looping /\ timeout_limit > 0 => alarm = i /\ ~blocked
=============================================================================
