# Formal models of the CS:APP lab programs

TLA+ models of the programs of this repository, the TLC configurations that
check them on small instances, and TLAPS proofs about them.  Paths below are
relative to `src/`; a number after a file name is a line.

## The system

The repository holds six independent lab programs and their drivers.

| part | state it keeps | operations | what is hard about it | what makes it correct |
|---|---|---|---|---|
| tiny shell, `05-shell-lab/tsh.c` | job list, `nextjid`, the kernel's view of its children, blocked signals | `eval`, `do_bgfg`, `waitfg`, `sigchld_handler`, `sigint_handler`, `sigtstp_handler` | handlers interrupt the main line and each other; signals do not queue; pointers into the list live across interrupts | list and children agree; one foreground job; the prompt waits for it; stops are recorded; ctrl-c reaches the foreground job only |
| shell driver, `05-shell-lab/sdriver.pl` | two pipes to a shell | sends commands and signals, then echoes output | pipes of finite size | no run blocks for ever |
| allocator, `06-malloc-lab/mm.c`, `memlib.c` | the heap and `mem_brk` | `mm_malloc`, `mm_free`, `mm_realloc`, `mem_sbrk` | size arithmetic, the heap's limit, what realloc copies | blocks aligned, disjoint, inside the heap; realloc keeps the data |
| allocator driver, `06-malloc-lab/mdriver.c` | the trace, the list of live ranges, the utilisation counters | `eval_mm_valid`, `eval_mm_util`, `eval_mm_speed` | whether its checks see every bad allocator | a bad block is reported; utilisation is at most 1 |
| timers, `06-malloc-lab/fcyc.c`, `clock.c`, `ftimer.c`, `fsecs.c` | K best samples, the saved cycle counter, cycles per timer tick | `add_sample`, `has_converged`, `fcyc`, `get_counter`, `callibrate`, `ftimer_itimer`, `ftimer_gettod` | insertion into the K best, borrow between two 32-bit halves, ticks between any two readings | the K smallest in order; the exact difference; ticks taken off a sample |
| cache simulator, `04-cache-lab/csim.c` | per set a linked list of lines in order of use; three counters | `access_cache` for loads, stores, modifies | list surgery for head, middle and tail; shifts by the number of address bits | the list is the LRU stack; counters agree with it |
| transpose, `04-cache-lab/trans.c`, `tracegen.c` | two matrices | `transpose_submit`, `trans`, `validate` | blocks that the shape does not divide | B is the transpose of A; no access outside the arrays |
| cache-lab drivers, `test-trans.c`, `cachelab.c`, `driver.py` | results of the submission; the files `trace.tmp`, `trace.f<i>`, `.csim_results` | `eval_perf`, the alarm, grading of three shapes | files shared between processes, children that outlive an alarm, exit statuses not looked at | what is printed is of this function and this run |
| data lab puzzles, `01-datalab-lab/bits.c`, `tests.c` | none | bit puzzles and reference functions | two's complement at the borders | each solution equals its reference |
| data lab driver, `01-datalab-lab/btest.c`, `decl.c` | options, test values, errors, the alarm | `gen_vals`, `test_function`, `run_tests`, a timeout by `alarm` and `siglongjmp` | an alarm that is never cancelled and strikes late; arrays of test values | a solved puzzle scores; a timeout is charged to the test that ran |
| bomb lab, attack lab | - | a driver without its phases, gadget sources, disassemblies | - | not modelled: see below |

The shell talks to its children by signals and wait statuses, and to its driver
by pipes and signals.  The allocator is called by its driver, which also uses
the timers.  `test-trans.c` starts `tracegen.c`, which runs the functions of
`trans.c`, and then the reference simulator on the trace; `driver.py` starts
`test-trans.c`.  `btest.c` calls the solutions of `bits.c` and the references of
`tests.c`.  The other parts do not interact.

## Plan

1. *Shell* (done): `JobList`, `Tsh` shown to implement `JobControl`, and the proofs
   in `TshProofs`.
2. *Cache simulator* (done): `LruCache`, `Csim` shown to implement it with the proofs
   in `CsimProofs`, `LruInclusion` with the proofs in `LruProofs`.
3. *Allocator and its driver* (done): `MemLib`, `MM`, `Mdriver`, `MdriverMM`, `MdriverAny`
   with the proofs in `MdriverProofs`.
4. *Data lab* (done): `Bits`, `BTest` with the proofs in `BTestProofs`.
5. *Transpose and its evaluation* (done): `Trans`, `TransLab`, `TransProofs`.
6. *Timers* (done): `Clock`, `Fsecs`, `FsecsProofs`.

Every invariant and action property of a passing run is also a theorem; what is left
to TLC alone is liveness.

## The shell

### Modules

* `JobList` - the array `jobs` and `nextjid` with the helpers of tsh.c (521-623).
  A helper that scans the array is a relation on the slot where the scan stops.
* `JobControl` - what the shell promises of a job, without slots and signals: it
  is started once, moves between FG, BG and ST as tsh.c:28-36 says (and from BG to
  ST), and ends once.
* `Tsh` - the shell over `JobList`.  Extends it: the helpers are steps of the
  shell's contexts.
* `MCTsh` - instances for TLC (symmetry under permutations of pids).
* `TshProofs` - the proofs.

### How `Tsh` corresponds to the code

The main line and the three handlers are *contexts*.  `pc[c]` is the next step
of context `c`; its local variables are `pid[c]` (`cpid`, `fg_job_pid`,
`foreground_pid`), `ptr[c]` (`cur_job`, `fg_job`) and `grp[c]` (`groupId`,
`pgid`).  `stack` holds the handlers that run, each interrupted by the next, and
`top` is the context that moves.  `Deliver(h)` starts a handler whose signal is
pending and not blocked; since `sa_mask` is empty (703) a handler blocks only
its own signal and handlers nest.

| code | actions |
|---|---|
| `eval` 174-237 | `ReadRun` (block SIGCHLD and SIGTSTP), `Fork`, `AddJob`, `Unblock` |
| `waitfg` 242-254 | `WaitScan`, `WaitCheck` |
| `do_bgfg` 284-342 | `ReadBgfg`, `BgfgGroup`, `BgTest`, `BgSet`, `BgKill`, `FgTest`, `FgKill`, `FgSet` |
| quit, end of input, SIGQUIT | `Quit`, `sigquit_handler` |
| `sigchld_handler` 369-403 | `ChldWait`, `ChldDelete`, `ChldStop` |
| `sigint_handler` 422-437 | `IntFgpid`, `IntDeref`, `IntGroup`, `IntKill` |
| `sigtstp_handler` 444-457 | `TstpFgpid`, `TstpTest`, `TstpGroup`, `TstpKill` |
| the child's `setpgid` 204, its end, stops from `mystop.c` | `ChildSetpgid`, `ChildExit`, `ChildStop`, `ChildContinue` |
| ctrl-c and ctrl-z, or the driver's `kill` | `Type` |

A step is a system call or an access to the list.  `addjob` and `deletejob`
are one step each: only handlers that merely read the list can interrupt them,
and a half-written or half-cleared slot reads like an unused one (its pid is
written first and cleared first, and `fgpid` answers with the pid, 0).

The shell ends in five ways, recorded in `outcome`: `exit` (quit), `chld_null`
and `int_null` (a NULL job pointer is dereferenced), `kill_error` (`Kill` calls
`unix_error`, which exits) and `killed` (SIGKILL to its own group).  After
that nothing moves, which is why the runs do not check for deadlock: the shell
may stop.

### Assumptions about the outside

A job is one process with its own group once it has called `setpgid`.  Pids are
not used twice.  Before `setpgid` no signal stops or ends the child.  Keys reach
the shell as signals to its pid, as `sdriver.pl` sends them.  `kill(-getpgid)`
of a group that is gone fails, and so does the signal to process 1.  `fork`
and `sigprocmask` succeed.

### The refinement

`Tsh` implements `JobControl` under the mapping `JobOf`: the state of a job is that
of the slot with its pid; a child that was reaped and is in no slot is gone.  A
slot without a pid is nobody's job, also when `do_bgfg`, whose pointer a handler
has outrun, marks it FG: at the level of jobs that is a stutter.  All commands
are on in the run that checks it, and every handler may come between any two
steps of `do_bgfg`.  `JobControl` does not say that at most one job is FG, since
with `fg` that is false: see below.

### Fairness

`FairSpec` assumes: the shell's own steps and deliveries of signals are strongly
fair (signals come at a finite rate, so an interrupted context moves in the
end), and a forked child reaches its `setpgid`.  Nothing is assumed of
the user's commands, and no child has to end.

### Runs

| run | instance | what it shows |
|---|---|---|
| `tsh_run` | 3 children, 2 slots, no bg/fg, 2 keys | one foreground job; the prompt waits; stops recorded; causes of death; ids ascend |
| `tsh_bgfg` | 2 children, 2 slots, all commands, 1 key | list and children agree with bg and fg interrupted anywhere; jobs leave when reaped; ctrl-c spares the background; `JobControl` is implemented |
| `tsh_live` | 2 children, FairSpec | `waitfg` ends; ctrl-c ends the foreground job |
| `tsh_zombie` | 2 children, FairSpec | **violation**: a zombie stays |

Bounds: `Pids` is also the number of children ever forked (`ReadRun` needs an
unused pid), `MaxKeys` the number of keys typed.  Three children on two slots
reach a refused `addjob`, the reuse of a slot and a wrap of `nextjid`; two keys
reach a handler nested in the other and a key that comes while its handler runs;
two children are enough for a lost SIGCHLD.

What the violation run found is listed under "findings" in `PROJECT.json` with
the comment of the source that it contradicts.  Four relatives have no run:
"At most 1 job can be in the FG state" (tsh.c:35) is false once `fg` is used
(`AtMostOneFG` with `fg` among the commands), since `do_bgfg` marks a slot FG (334)
without blocking SIGCHLD: a slot whose job has ended since stays marked, and
`fgpid` then answers 0 while another job is in the foreground; after a wrap of `nextjid` two jobs can get the same id, so that `getjobjid`
finds only the first; `fg` on a job that stops between the test of its state
(330) and the assignment (334) leaves a stopped job marked FG; and a ctrl-c
handled before the child has called `setpgid` (204) finds it in the shell's own
group and kills the shell (`IntKill`, outcome `killed`).

## The cache simulator

* `LruCache` - the promise: per set a sequence of at most E blocks in order of
  use, and three counters.
* `Csim` - the code: `head_line`, `tail_line`, `next` and `tag` of each line, as
  `access_cache` (149-176) and the functions below it change them.  A set is
  found by index, which stands for the walk of `get_set_by_index`.
* `LruInclusion` - two LRU caches with Small and Large lines per set, under the
  same accesses: two runs of csim with different `-E` on one trace.
* `MCCsim`, `MCLruInclusion` - instances for TLC.

`access_cache` walks the list of the set from its head to NULL; the walk is the
sequence q with `IsList(q, i)`, and a list that does not end has none, which
leaves the access stuck and `ListsSound` false.  `Hit`, `Fill` and `Evict` are
the three branches of `access_cache`, `move_line_to_tail` has a disjunct for each
of tail, head and middle.  A record of the trace is `Record`; `Again` is the
second access of a modify.  `holds` is no variable of the code: it remembers the
block a line was filled with, from which the refinement mapping `Order` and the
property that no set holds another set's block are made.

Shifts are taken as x86 does, modulo the word size.  For s = b = 0 the mask in
`get_line_tag` (318) is `(1 << 32) - 1`, which is undefined in C and 0 on x86,
so that every access but the first hits, although the messages (82, 96) allow
these values; `OptionsAssumption` excludes them, and values of s for which `1 << s`
is no positive int.

| run | instance | what it shows |
|---|---|---|
| `csim` | 4-bit addresses, 2 sets of 3 lines of 2 bytes, 7 accesses | types, lists sound, the store of a modify hits, and `Csim` implements `LruCache` |
| `lru_inclusion` | 3 and 4 lines per set, 6 blocks in 2 sets, 12 accesses | the small cache holds the end of the large one; it never has more hits |

Three lines per set give a head, a middle and a tail; four blocks of one set
force evictions, seven accesses a hit on every place of a full list after one.
The runs end when the trace does, so deadlock is not checked.

## The allocator and its driver

* `MemLib` - the heap: the break and what every byte holds; `mem_sbrk` with
  its sum of pointer and int modulo the size of an address (the Makefile builds
  with `-m32`).
* `MM` - `mm_malloc`, `mm_free`, `mm_realloc` as functions from a heap to a pointer
  and the heap after the call: sizes are rounded in size_t and stored in an int
  (61), the size is kept in a header, realloc copies what the header says.
* `Mdriver` - `main` from `read_trace` to `fsecs`, with the range list, the arrays
  `blocks` and `block_sizes`, and the totals of `eval_mm_util`.  The result of the
  allocator's call is a parameter of the actions.
* `MdriverMM`, `MdriverAny` - the driver on `mm.c`, and `eval_mm_valid` on an
  allocator that returns any pointer.
* `MCMdriverMM`, `MCMdriverAny` - instances for TLC; `MdriverProofs` - the proofs.

| code | actions |
|---|---|
| `read_trace` 474-555 | `ReadRequest` |
| `eval_mm_valid` 577-685 | `StartValid`, `ValidAlloc`, `ValidRealloc`, `ValidFree` (with `Accept`, `Reject`) |
| `eval_mm_util` 698-778 | `StartUtil`, `UtilAlloc`, `UtilRealloc`, `UtilFree` |
| `eval_mm_speed` 785-826 | `StartSpeed` (any number of times), `SpeedCall`, `SpeedFree`, `EndSpeed` |

When the allocator returns NULL in one of the last two passes the driver exits
(`app_error`); no action is enabled then, and `PassesAgree` says it does not happen.
A trace is any sequence that a correct trace file can hold: an id is allocated,
then reallocated or freed.  `Fill` is the byte `eval_mm_valid` writes (625, 662); it is read back through
a `char` pointer, whose values are signed on x86 (`Char`).

| run | instance | what it shows |
|---|---|---|
| `mdriver_mm` | heap of 14 bytes, aligned to 2, in the upper half of 64 addresses; sizes 1, 4, 28, which carries the break past the last address, and 31, whose rounded size is negative; traces of up to 5 and 2 requests | blocks disjoint with their headers, contents kept, totals exact, no error but for a full heap, later passes agree with the first, the break falls only by a wrap |
| `mdriver_any` | heap of 5 bytes, sizes 1 and 3, 4 requests, 3 ids | the range list is exact whatever the allocator does; accepted payloads overlap only if one lies strictly inside the other |

The heap holds three small blocks, so the fourth request that allocates fails,
also as a realloc; the second trace starts on what the first has left.  The heap
lies in the upper half of the address space, as one malloc of 20 MB may in the
`-m32` build.  There a negative increment would pass the test against the end of
the heap if its sign were not looked at, and an increment near 2^31 does pass it:
`mem_brk + incr` runs past the address space, and the break moves below the heap
(62, 67), although "the heap cannot be shrunk" (56).  TLC shows this with `MCMdriverWrap.cfg`
(`HeapNeverShrinks`); `BreakFallsOnlyByWrap` says that it is the only way and does no harm in `eval_mm_valid`:
the block such a request gets is refused by `add_range` at once, so no later pass
sees that heap.  What `mm_malloc` and `mm_realloc` then write beyond the heap (a header,
copied bytes) is left out.

Two statements of `mdriver.c` are not true of it.  "We use the range list to detect
any overlapping allocated blocks" (371): `add_range` compares only the two ends of a
new block with the ranges in the list (409), so a block that contains another in
its middle is accepted; `OverlapsAreNested` says that this is all that is missed.
"mm_realloc did not preserve the data from old block" (657) is also said of data
that were preserved: an index whose low byte is 128 or more is compared as a
number from 0 to 255 with a signed char (656), so every realloc of such a block
is an error.  `RejectsOnlyFull` is checked for smaller indices; `MCMdriverChar.cfg` has one of 128,
and TLC finds the false error.

## The data lab

* `Bits` - the solutions of `bits.c` and the references of `tests.c` on words of W
  bits.  A word is the set of positions that hold a 1; `&`, `|`, `^`, `~` and
  shifts are set operations, `+` is defined by its carries.  The references are
  on integers where the code's are.
* `BTest` - `btest.c`: options (`Parse`, `RunTests`), the next test and its values
  (`Gen`), `sigsetjmp` and `alarm` (`SetJmp`, `Arm`), a call of puzzle and
  reference (`Call`), the end of a test (`Score`), `timeout_handler`.
* `MCBTest` - the instance: no options, wrong options, and each integer puzzle on
  every argument of seven bits.

The alarm is set at the start of a test and never cancelled, and time is not
bounded: an alarm that is due may strike at any step until another one replaces
it.  If it strikes when `test_function` has returned, the jump goes to a frame
that is gone, which is undefined: the model lets it crash, or return again and
charge the test at hand.  `late` counts the strikes that hit no loop and is bounded
by `MaxLate`.  Some version of `bits.c` loops: `Loops` are its puzzles that do.

| run | instance | what it shows |
|---|---|---|
| `btest` | 7-bit words, test range 4, two puzzles that loop, 2 late alarms | solved puzzles score on all values and unsolved ones do not; an alarm ends the test that set it or the next one tested; no array of test values overflows; a loop always has its own alarm due and not blocked |

Seven bits are the fewest in which 0x39 is positive; every argument of a puzzle
is tried with the options that fix it, two values of a third.  With a test
range of 4 the sampled values of every kind occur.  `LoopsAreTimed` is the
safety part of "a loop is ended within the limit"; that the alarm then strikes
is the kernel's part.  The exhaustive branch of `gen_vals` (198) needs a range
that no entry of `decl.c` has.  The driver stops after its last test, so
deadlock is not checked.

`get_num_val` (496) tests the value from before, `!*valp`, where it means to test
what `strtoll` has left of the string: trailing letters are accepted, and a second
`-1` only if the first was 0.  The model does as the code does.

## The transpose and its evaluation

* `Trans` - `transpose_submit` and `trans`, an action per assignment, on the arrays
  of `tracegen.c`; `Dim` stands for 256 and `Block` for 4.  Arrays are cells with the
  row length of the call, so that a block that runs over a row meets the cell
  that the code meets.
* `TransLab` - `eval_perf`: `Tracegen` and `Loop` (step 1), `Validate`, `Filter`, `Csim`
  (step 2), `Collect`, `Summary`; `sigalrm_handler`; `OrphanTraces`, `OrphanReads`,
  `OrphanOpens`, `OrphanPrints`, `OrphanEnds` for a child an alarm has left behind;
  `Start` is the next `test-trans`, of `driver.py` or of a user.
* `MCTransLab` - the instances.

A file is known by the runs and functions whose tracegen wrote to it, or whose
trace was counted.  An orphan goes on at its own pace, also while the next
`test-trans` runs: it writes to `trace.tmp`, or it reads its trace and whatever
replaces it, empties `.csim_results` and prints its counts there.  Nothing holds
the next `test-trans` back.  `driver.py` reads until its pipe is closed, and a shell
that waits for the orphan keeps it open; but the orphan's own output goes to
`trace.tmp` or `/dev/null`, and a `/bin/sh` that has become the command holds no pipe.

`CountsAreOwn` is what one expects of the misses that are printed, and is not true.
The simulator's exit status is not looked at (142), so the counts of an earlier
function or shape, or those that lie in the repository, are printed when it
fails (`MCTransStale.cfg`); and an orphan can change a file between its writing and its
reading (`MCTransOrphan.cfg`).  `CountsOwnUndisturbed` says that these are the only ways:
`simFailed` has the runs csim-ref failed in, `disturbed` those that were inside such
a window when an orphan wrote.  An orphan that is merely there, or writes outside
the windows, is no excuse.

| run | instance | what it shows |
|---|---|---|
| `translab` | all shapes up to 8 x 8, blocks of 4; 4 x 4, 8 x 8 and 5 x 7 one after the other, 2 alarms | blocks stay in the arrays; they transpose when N is a multiple of 4; correctness printed is of the submission and this run, and so are the misses but for the two ways |
| `trans_odd` | 5 x 7 | **violation**: `transpose_submit` does not transpose |

Two blocks in each direction are the fewest in which a last block overruns and
an earlier one does not.  5 x 7 leaves, like the graded shape 61 x 67,
a remainder in both directions; there the code leaves 60 cells of B wrong.
Two alarms leave two orphans in the third `test-trans`, one of which may be a
tracegen and one a csim-ref.

## The timers

* `Clock` - time, with timer ticks and other processes between any two steps
  (`Elapse`); `start_counter`, `get_counter` on a counter of two halves; `callibrate` and
  the compensated counter.
* `Fsecs` - `fcyc` with its K best samples, and the two functions of `ftimer.c`; the
  method of `config.h` is chosen at the start.
* `MCFsecs` - the instance.

| run | instance | what it shows |
|---|---|---|
| `timers` | halves of 8 values, ticks of 5 cycles every 12 or 13, another process once, 2 best of at most 4 samples | the counter is exact until it has gone around; the best samples are the least ones in order; compensation takes off at least the ticks; averages are of the time between the readings |

The counter goes through several borrows and once around in a run; a tick falls
between every two readings of clock and counter in some run.  A tick costs
more than `RECORDTHRESH` and a step less than `THRESHOLD`, which is what the constants
of `clock.c` are for (207-210); `NeverAbove` depends on both.  The cycles per tick are kept
in sixtieths.

`NeverAbove` is not true of all sizes.  `callibrate` reads the ticks (219) before
it starts the counter: a tick that comes in between is counted but takes none
of the cycles, so that the price of the next tick is halved if another process
runs in between and pushes that tick to the first reading.  `RECORDTHRESH` refuses such
a half if it is small; with `TickCost = 12`, `Gap = 30`, `Away = 40` and `RECORDTHRESH = 4`
TLC finds a tick priced at half its cost, and a sample too high.  The hypothesis of
the theorem about it, `TicksShow`, is what excludes this, and the constants of the
run satisfy it.

## Proofs

Every theorem holds for all values of the constants that satisfy the `ASSUME`s of
the module it is about; further hypotheses are named in the theorem.
`NumberLemmas` has what several proofs cite: quotients and remainders, powers of two,
sums over finite sets, and induction.  The library's induction theorems take
an operator as a parameter, which the backends cannot instantiate; `SetInduction`
says the same of a set of numbers, and is proved from the cardinality of an
interval.  With it the sums of `eval_mm_util` and the weights of a word are summed
by induction on the set, which `SumAdd`, `SumSame` and `SumEmpty` state once.

### The shell

`TshProofs` proves for every MAXJOBS, set of pids, commands and keys:

* `TypeCorrect`: the type invariant;
* `PidsAreDistinct`: no pid is in two slots;
* `JobsTrackChildren`: every job is a child not yet reaped, or one between
  `waitpid` and `deletejob`;
* `ChildrenTracked`: every child not yet reaped is a job, or about to be one, or
  was refused by `addjob`.

The invariant `IInv` adds to these what makes them inductive: pointers held by a
context point to a slot (`PointersSet`); the stack holds exactly the handlers
that are half way, each once (`StackSound`), so that the main line moves only
when no handler does; between fork and the end of the window SIGCHLD is blocked
and its handler not half way (`WindowMasked`); the child between fork and
`addjob` exists and is not listed (`ChildForked`); `deletejob` is called for a
reaped child (`DeletesReaped`).  Without the mask of `eval` (193) the proof of
`WindowMasked` fails, and so does TLC (the mutant `ReadRun_NoMask`).

It goes on from `IInv` to the jobs:

* `JobControlImplemented`: the refinement of `JobControl`;
* `LeavesAreReaped`, `BackgroundIsSpared`: the action properties
  `JobsLeaveReaped` and `CtrlCSparesBackground`;
* `JidsAscend`, `EndsAreCaused`: `NextJidAscends` and `EndsHaveCauses`;
* `OneForeground`, `PromptAlone`: `AtMostOneFG` and `NoFGAtPrompt` if "fg" is not
  among the commands;
* `StopsListed`: `StopsAreListed` if neither "bg" nor "fg" is.

The hypotheses on the commands are those of the run `tsh_run`, for the code does
not do better: `do_bgfg` looks a job up before it changes its state, and a
handler that runs in between makes the state stale (the hazard at `tsh.c:334`).
The invariant `JInv` says what each step of a handler or of `do_bgfg` may rely on
when it goes on (`IntTracks`, `TstpTracks`, `BgfgTracks`, `StopReported`): that
the pid it has looked up was a child's, and what can have become of that child
since.  `OneWaitedFor` makes `AtMostOneFG` inductive: the job in the foreground,
if there is one, is the one the main line is waiting for or about to.
`StopsMarked` does so for stops.  The refinement takes each way to change the list (a
slot is filled, cleared or marked, `ListSteps`) to the step of `JobControl` it
is, and everything else to a stutter.

### The cache simulator

`CsimProofs` proves for every word size, every `-s`, `-E` and `-b` of
`OptionsAssumption` and every trace:

* `TypeCorrect`: the type invariant;
* `ListsStaySound`: `ListsSound`;
* `StoresHit`: `ModifyHits`;
* `LruImplemented`: the refinement of `LruCache`.

The first lemmas (`Parts`, `SetAndTag`) show that the shifts and masks of
`get_set_index` and `get_line_tag` take the block number apart into remainder and
quotient by 2^s, also when b + s is the word size and a mask is of no bits.  The
invariant `IInv` says that there is an assignment of lists to sets such that a
walk along `next` from the head of a set meets its list, the tail is its last
line, tags are distinct and belong to the blocks the lines were filled with, and
every line that `malloc` has given is on one of the lists.  The last part is why
the lines suffice: a set with room means that malloc has not yet given all
(`Room`, a counting argument).  `MoveWalk` and `NewWalk` are the surgery on the
pointers; `OneWalk` says that the walk which `find_line_in_set` makes finds this
list and no other, so that `Order`, chosen by the walk, is what the lists hold.

`LruProofs` proves for every two sizes with Small at most Large, every set of
blocks and every split of it into sets (`SizesAssumption`, `BlocksAssumption`):

* `InclusionHolds`: the small cache holds the end of the large one;
* `MoreLinesNeverFewerHits`: it has no more hits.

The invariant `IInv` says of each set, besides `Inclusion`, that no block is in
it twice (else the place of a hit would differ) and that a small set with room
has lost nothing (else it could fill while the large one hits a block further
down).  The lemmas say what append, loss of the first element and a move to the
end do to "p is the end of q", one for each pair of branches the two caches
can take.

### The transpose and its evaluation

`TransProofs` proves for every side `Dim` of the arrays and block that divides it,
every shape, list of functions and session:

* `ArraysSuffice`: `StaysInArrays`;
* `Transposes`: `TransposedWhenRowsFit`;
* `CorrectMeansValidated` and `CountsOfTheRun`: `CorrectIsValidated` and
  `CountsOwnUndisturbed`, if at most one function is registered as the submission
  (`OneSubmission`; with two, `results` speaks of the first and the second in
  turn, and the driver of the course registers one).

`LoopInv` says that every cell already visited by the loops holds the value of
its mirror image.  A block that runs over the last column of A reads the next row
of A and writes past the last row of B, in cells that are none of the shape's;
one that runs over the last row, which the theorem excludes, writes into the
next row of B.  That no two assignments meet in a cell (`CellsApart`) and that all
stay inside (`CellBound`) is the arithmetic.  `EvalInv` follows `test-trans` through one evaluation: which function the
results are about, what is known of it, and that each file between its writing
and its reading is this run's own unless the run is in `simFailed` or `disturbed`.
Orphans may be any and write at any time.

### The allocator

`MdriverProofs` proves of the driver on `mm.c` (specification `Spec`), for every heap,
width, alignment, size of a header and set of traces that the assumptions of `MemLib`,
`MM` and `Mdriver` admit:

* `BlocksStayDisjoint`: `BlocksDisjoint`;
* `ContentsStay`: `ContentsKept`;
* `PassesStayAgreed`: `PassesAgree`;
* `BreakFalls`: the action property `BreakFallsOnlyByWrap`;
* `UtilizationStaysExact`: `UtilizationExact`;
* `RejectsStayFull`: the action property `RejectsOnlyFull`, if no index of the trace has a
  low byte of 128 or more (`SmallFills`; see above for why).

No assumption keeps sizes small: a trace may ask for any int.

Of the driver on any allocator (`AnySpec`) it proves

* `RangesStayTrue`: `RangesAgree`;
* `OverlapsStayNested`: `OverlapsAreNested`.

`BlockFits` is the arithmetic of `newsize` in `mm_malloc`: the size with its header
is never rounded beyond a size_t, and as an int it is negative or large enough
and aligned.  A call then gives nothing, or a block at the break, or a pointer
although the sum wraps (`Gives`, `GivesBlock`, `Wraps`; `MallocGives` and `ReallocGives`);
of these pointers `WrapRefused` says that they lie above the fallen break, so that
`add_range` refuses them.  A realloc needs the header of
the old block to be intact, so the driver's requests have to be of blocks that
were allocated (`TraceOK`).  Every step of the driver is one of six kinds
(`Steps`), and each keeps the invariant: all blocks lie below the break
(`BlocksOK`), so a new one, at the break, touches none of them; and there is a
record of the break after every request (`BreaksOK`), which `eval_mm_valid` extends
and the later passes follow, so that they never meet a full heap.

`UtilInv` follows the totals of `eval_mm_util`: after each request the bytes allocated are the
sum of the sizes of the live ids (`TotalsOK`), which a request changes in one place;
every live block is at least as large as its payload and all are disjoint below
the break, so the sum is at most the heap.  `RejectsStayFull` goes through the
errors of `eval_mm_valid` one by one: a block below the break can fail none of the tests of
`add_range`, the bytes that `mm_realloc` copies are the fill of the old block, and what
remains is a NULL from `mem_sbrk`.

On any allocator a block can be anywhere, so `ValidInv` is about the list alone:
the ends that `add_range` has compared (409) say of every two ranges that neither low
end nor high end of the newer lies in the older.  Low ends are therefore
distinct, and `remove_range`, which looks for a low end (434), takes the range that was
meant; two ranges that meet are one inside the other, strictly.

### The data lab

`BTestProofs` proves for every width of at least 7 bits, test range and set of
command lines:

* `PuzzlesAreRight`: on all words, the nine integer solutions of `bits.c` equal their
  references, and `howManyBits`, which is not solved, never does;
* `VerdictsStayRight`: `Verdicts`, if a command line that fixes an argument names an
  integer puzzle (`IntegerValues`: a float puzzle is modelled on the values of `gen_vals`
  only);
* `AlarmsStayNear` and `LoopsStayTimed`: `AlarmsStrikeNear` and `LoopsAreTimed`;
* `ValuesStayWithin`: `ValuesFit`, if the test range is at least 4 and `MAX_TEST_VALS` is
  not one less than the number of words (`RoomForValues`).

TLC tries each puzzle on words of seven bits; `PuzzlesAreRight` is about the 32 of
the code.  A word is tied to its number by the weights of its bits: a sum of
words, defined by its carries, has the sum of their numbers modulo 2^W, a
complement the negative less one, and a shift by W - 1 leaves copies of the sign.
`isAsciiDigit` and `isLessOrEqual` look at the sign of a sum, which is that of the
difference unless it overflows.

`TimerInv` says where in a test the main line is (`PhaseOK`), what an alarm that is due
belongs to (`AlarmOK`) and whom the strikes so far were charged to (`ChargesOK`).
`VerdictInv` adds that the errors counted so far in a test are those of the
calls made (`RunOK`) and that what was scored was so counted (`ResultsOK`).
`RoomForValues` is needed: where `gen_vals` tries a whole range (198) it compares max -
`MAX_TEST_VALS` with min and, if they are equal, writes one value beyond the row.  No
range of `decl.c` and no whole word has that size.

### The timers

`FsecsProofs` proves for every base of the counter's halves, number of samples
kept and behaviour of the clock:

* `CounterExact`: `ExactCycles`;
* `RunsTimed`: the action property `RunsAreTimed`;
* `BestKept`: `KBest`;
* `StaysBelow`: `NeverAbove`, for constants as `TicksShow` says and while the counter
  does not go around in `callibrate` (`NoWrap`).

`CounterInv` ties what `start_counter` kept to the time it was called.  `KBest`
compares numbers of samples, not sorted copies: the m-th value has rank m among
all samples so far (`Ranked`), and an insertion into an ascending array shifts
the ranks behind its place by one (`InsertKeepsBest`, `OthersKeepBest`).

`StaysBelow` has two halves.  `NextPriced` says that a tick is never priced below its
cost: `LoopOK` and `EventOK` list what can have come since `callibrate` last read ticks and
cycles (nothing, a tick before the reading, a tick after it, another process),
and in each case the quotient that is recorded is too small for `RECORDTHRESH` or
at least the cost.  `NextComp` says that the ticks counted by `times` around a
sample include those between its readings, since `start_comp_counter` reads them
before the counter and `get_comp_counter` after it.

### Only model-checked

* The liveness properties `WaitfgEnds` and `CtrlCEndsForeground`: the prover has no
  rules for fairness.

Some cases the instances do not reach: a job that `addjob` refuses is in `tsh_run`
only, for the list properties of `tsh_bgfg` it rests on the theorems; `mdriver_any` has
one trace, so no ranges of a failed one; `KBest` cannot tell which of two equal
samples is kept; `init_etime` and the first `get_etime` are one step, so the reading
that `RunsAreTimed` subtracts is always whole.  After `nextjid` has wrapped two jobs
can have one id, which `NextJidAscends` leaves out.

The hypotheses of the conditional theorems (`OneSubmission`, `SmallFills`, `IntegerValues`,
`RoomForValues`, `TicksShow`, and "fg" or "bg" not among the commands) are formulas about
constants.  They are defined in the proof modules, no run evaluates them, and the
configurations that check the same property satisfy them; `NoWrap` is about a
behaviour, and says that `callibrate` takes less than the 2^64 cycles of the counter.

## Configurations beside the runs

`MCMdriverWrap.cfg`, `MCMdriverChar.cfg`, `MCTransStale.cfg` and `MCTransOrphan.cfg` each
end in the counterexample told of above.  They check what one would expect of the
code (`HeapNeverShrinks`, `RejectsOnlyFull`, `CountsAreOwn`) and are kept to be looked at
again when `memlib.c`, `mdriver.c` or `test-trans.c` changes; the runs check what is true.

## Faults

The operators named `Definition_Fault` before a definition are that definition
with a plausible bug.  No specification uses them; replacing the definition by
one of them must make TLC find the property listed in `PROJECT.json` under
"mutants" violated.

## Not modelled

* Output and messages of the shell, `parseline`, the `jobs` listing: they change
  nothing that a handler or a later command reads.
* Handlers that call `printf` while `printf` is interrupted: output is not
  modelled.
* The grandchild of `mysplit.c`: a job is one process.
* The text of options and traces of csim and mdriver, and what they print.
  mdriver's passes over libc's malloc and its performance index.
* The scores that `driver.py` makes of the counts, the text of traces (`valgrind`),
  and `test-csim`, which is there as a binary only.  The asserts on `fopen` in
  `test-trans.c` (80, 93, 99, 146), which end it where a file is missing; `.marker`,
  in which every tracegen writes the same addresses; a tracegen that a signal ends,
  which counts as validated (72) where the shell has become the command.
* The pipes of `sdriver.pl`: it writes all commands before it reads (198), and would
  wait for ever on a shell whose output fills the pipe; the traces print far less.
* `btest.c`: what is printed, `-g`, and weights given by `-r`.  The float puzzles are
  not solved in `bits.c`, so only their failing is modelled.
* `clock.c`: the clock rate (`mhz`) and the Alpha counter; that `get_counter` returns a
  double (66), exact only up to 2^53 cycles; `fcyc.c`: the loop that
  clears the cache, settings without a caller.
* `compare.c`: a comparison of two text files.
* `01-datalab-lab/ishow.c`, `fshow.c`: print the bits of a number.
  `driver.pl`, `Driverlib.pm`: start `dlc` and `btest` and sum up their scores.
* `02-bomb-lab`: `bomb.c` calls phases whose source is not in the repository.
* `03-attack-lab`: gadget sources and disassemblies, no program with state.
