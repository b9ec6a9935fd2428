# A formal model of logger-bench

logger-bench measures C++ log libraries. It drives each logger from several
threads, times them, and prints faults, rates and latencies. These modules
model the program's own logic: the threads of a test and their start line, what
they measure and what is reported of it, the table of results, the function
handed to Google Benchmark, the adapters between the tests and the log libraries,
and the way from the command line to the tests. TLC checks the models on small
instances; TLAPS proves every safety property and every action property that the passing runs
check, for every instance.

Paths below are relative to the repository.

## 1. Inventory

| Component | Source | State | Operations | What makes it correct |
|---|---|---|---|---|
| logger interface | `src/logger.hpp` | (abstract) an instance, its team | `create`, `prepare_thread`, `run_logging`, `terminate`, `destroy` | called in the order its comments ask for |
| test harness | `src/test_suite.hpp` 27-34, 43-103, 119-175 | `threads[]`, `results[]`, the atomic `initialized`, the logger, the CPU of each thread | spawn, start line, join, inline run, terminate, destroy, pinning | all start together, each on a CPU of its own; nobody waits for ever, nobody outlives the locals it refers to |
| measurements | `src/throughput_measurements.hpp`, `src/latency_measurements.hpp` | expected, successes, start and end, samples | `prepare`, the iterator of a range-for, `add_successes`, `join`, `finish`, `get_faults`, percentiles | each producer logs its share; reports describe all threads |
| test suite | `src/test_suite.hpp` 105-116, 176-237 | loop indices, one cell per test, the return value | `run_tests`, the reports of the two tests | each test reports its own faults and times in its own cell; the suite returns |
| test results | `src/test_results.hpp` | an array in three dimensions, owned by one object | `init`, `at`, move, `apply_clock_correction` | distinct indices are distinct cells; the correction does not wrap |
| CPU clock | `src/cpuclock.*` | frequency, overhead of a reading | calibration, ticks to ns | conversion and overhead agree with the clock |
| Google adaptor | `src/google_benchmark_adaptor.hpp` | two static atomics, the logger | gather, prepare, log, scatter, destroy | threads of a run never strand each other; a run leaves the statics ready for the next |
| logger adapters | `src/malc.cpp`, `mal`, `spdlog`, `glog`, `g3log`, `nanolog`, `nanolog_iyengar` | an instance of the library, the memory of its queue | the virtual functions, `set_cfg`, the destructors | threads log into an instance that runs, alone; an instance is given up before the next is made, and at the end; queues keep to the memory told; faults are counted |
| command line, Google registration | `src/main.cpp` | the numbers read, the loggers chosen | sizes with suffixes, selection of loggers, sub-commands, registration | numbers reach the tests with their value; every thread of every test gets a message; the loggers named are the ones tested |
| text output | `src/utility.hpp`, `to_stream` | none | SI units | layout only |
| build, scripts | `CMakeLists.txt`, `*.sh` | none | | |

Interaction: `main` parses the command line, builds the vector of loggers and
calls `run_tests` or registers Google benchmarks. `run_tests` calls
`run_throughput` and `run_latency`, which call the logger's virtual functions
from the threads they start; `run_logging` runs a range-for over the
measurements object, whose iterator reads the clock. Threads share the atomic
counter while they run, and the measurements across thread creation and join.

What is hard: the start line is one relaxed counter that also says "go" (-1)
and must be exact; the skeleton is written twice, with two paths each; threads
inherit the CPU of the one that starts them; sixteen loggers on seven libraries split
the work of shutting down between `terminate`, `destroy` and the destructor
differently, and a failed `create` is followed by none of them; the
reports merge what threads measured in any order; the order of calls on one
measurements object decides what its numbers mean; the adaptor's counter is a
gathering and a scattering point at once and outlives the run; widths, rounding
and strides are written by hand. `PROJECT.json` lists these hazards by line.

## 2. The modules

| Module | Models | Extends / instantiates |
|---|---|---|
| `LoggerContract` | what `logger.hpp` asks of a driver: the abstract specification | |
| `RunHarness` | the thread skeleton of both tests, with the CPUs | refines `LoggerContract` |
| `CInt`, `CpuClock` | widths; ticks to ns; clock correction | |
| `Throughput`, `Latency` | the measurement classes and iterators, as operators on records | `CInt` |
| `TestResults` | shape and addresses of the results | |
| `TestSuite` | `run_tests`, `run_throughput`, `run_latency` entire | conjoins the actions of `RunHarness` with the operators above; refines `RunHarness` |
| `GoogleAdaptor` | `run_google_benchmark` over consecutive runs | refines `LoggerContract` |
| `Adapters` | the instances and the queues of all sixteen loggers, over any sequence of tests | is driven by the actions of `LoggerContract` |
| `CommandLine` | `main`, `own_subcommand`, `parse_args`, `gbench_subcommand` up to the call that runs the tests | `CInt` |
| `LoggerContract_proofs`, `RunHarness_proofs`, `GoogleAdaptor_proofs`, `Adapters_proofs`, `CommandLine_proofs` | theorems | the module each is named for |
| `TestSuite_proofs` | theorems about cells, shares and the refinement of `RunHarness`, and about the addresses of `TestResults` | `TestSuite`, `DataLemmas` |
| `TestSuiteReports_proofs` | theorems about what the tests report | `TestSuite_proofs` |
| `DataLemmas` | lemmas about the operators on data: least and greatest, sums, folds, sequences | |
| `MCRunHarness`, `MCTestSuite`, `MCGoogleAdaptor`, `MCAdapters`, `MCCommandLine` | values of the constants for TLC | |

**RunHarness.** `mpc` is the place of the calling thread, `next` its loop index,
`wpc[w]` the place of producer `w` (`"none"`: no such thread yet),
`initialized` the counter, `life` the logger. One action is one call or one access
to the counter: a spin loop is the load that ends it, guarded by the value it
waits for. With one thread the producer is the caller itself, which is `"running"`
meanwhile. A failed `create` ends the call in `"failed"`; the program then
ends. The accesses to the counter are relaxed in the code. It is the only object the
threads share while they run, so coherence of a single atomic suffices and
interleaving is exact; the results are passed by thread creation and join, which
order them. `home` and `cpu[w]` are the CPUs the caller and the producers are pinned to
(`Anywhere` at first): a new thread has its creator's, and `CpuOf` is what
`set_thread_cpu` makes of an index.

**TestSuite** adds to these actions what they measure: `meas[w]` is
`results[w]`, `iter[w]` and `counted[w]` are the locals of `run_logging`, `table`
the array `res` by address, `pos` the loop indices. `backend[w]` records what the
logger really accepted and refused: it is the logger library's, and only the
properties look at it. One entry is one step (comparison, body, increment): the three
touch only the producer's own state and the clock. `Checked` is the difference
between `mal`, whose `run_logging` counts accepted entries, and the other adapters, which
count all. Each reading of the clock advances it by a member of `Ticks`; it starts
from zero in each call, since only differences of one call's readings are used, and
CPUs are taken to agree on it, as the program takes them to. Ticks become
nanoseconds exactly, where the code goes through a `double`. A cell nobody has written
is uninitialised memory; it is `NoResult`, told from every result by a thread count
no test has. Without cells (no iterations) no loop turns and `run_tests` returns 0 at once.

**GoogleAdaptor** has one action per access to `runners` and `initstatus`. The
library is external: `StartRun` (a run starts when all threads of the last have
returned, because the library joins them), `Begin` and `End` (the range-for over
`benchmark::State` meets a barrier of all threads in `StartKeepRunning` and in
`FinishKeepRunning`, also for a thread in error). Without those barriers a fast
thread could lower `runners` before a slow one has seen it full.

**Adapters** has one action per virtual function, for whichever logger is being tested
(`cur`). `member[l]` is what the adapter of `l` holds of its library: nothing (`"null"`),
an instance that is `"made"` but does not run, one that is `"running"`, one that is
`"stopped"`. What the seven adapters do to it is a table (`AdapterOf`): what a `create`
that returns false may leave, what `terminate` and `destroy` make of it, and whether the destructor
gives it up (`freed`: malc's does not, mal's does). What a `create` that returns true makes of it depends on
what it finds (`Created`): glog returns at once when `m_init` is set, so its library is as the first
create and all tests since have left it; the nanologs have no instance to set up, their library runs from the
start of the program, and `terminate` only waits for it; the others have their library set up anew. Outside
the table, too, since they depend on more than the member: malc refuses to
construct twice, mal overwrites its pointer (`lost`), both spdlog loggers register under one `name`.
`cfg` is what `set_cfg` gave the queue and `tls` what `prepare_thread` added to it. The
libraries are external. Of them is assumed what the adapters rely on: a call returns or throws
where its API can (`CreateFails`, `CreateThrows`), and an instance once running runs until it is told
to stop. The driver is `LoggerContract`: that the two real drivers keep to it is
`KeepsContract` of `RunHarness` and of `GoogleAdaptor`, so the three fit together as assumption and
guarantee. `process` says what a failed create leads to. The own tests end (`"failed"`, then `"gave_up"`).
In Google Benchmark the other threads of the team, if there are any, wait for ever (`"stuck"`). After a run of one thread the
program may end, or go on to one more `create`, of the same logger or another, whose run is then
stuck: this is the finding of `google_create_fails`, seen from the adapters. Two things of the code show
here and are stated as they are. If both runs are of the same mal, the second create does overwrite the
pointer; `LostByFailureOnly` says that nothing else ever does. If the failed create was a malc's, its instance
may be left half set up, and neither driver nor destructor gives it up; `InstancesReturned` says
that nothing else is ever left. The team of a failed create also goes through `run_logging` with a logger
that was not created (`google_benchmark_adaptor.hpp:46`): no action stands for this, and
`LogsIntoRunning` speaks of loggers whose create returned true.

**CommandLine** has one action per function, or per check where the next depends on
it; `place` is the function the program is in and `call` what it hands to
`run_tests` or to Google Benchmark. An argument is the number it begins with (what `std::stoull` reads), the rest of it
(what the comparisons see), the suffix it ends with and whether it is one character long (what
`ENDSWITHLIT` sees). The rest and the suffix are two things: `8.5MB` begins with 8, goes on with `.5mb` and ends with `mb`, and
so is 8 MB, in the code and in the model. The recommended memory is multiplied modulo 2^64, cut to an
`int` and extended again, as in the code. `own`'s iteration count is cut to an `int` too,
and a negative one ends the program in an allocation that no memory can satisfy. For `google` the call
holds every registration (`Register`), whose iterations are per thread.
`TestSuite` assumes at least as many messages as threads; `EveryThreadHasWork` is why it may.

Refinement mappings: the team is everyone of the call while there is an instance;
`ready` are those past `prepare_thread`; `logging` those inside `run_logging`'s
loop; `finished` those past it. Those who are done are forgotten with the instance,
since their places are not reset before the next call; those who prepare or log are
not, so that using a logger that is not there would break the refinement.

## 3. What is checked

| Run | Instance | Shows |
|---|---|---|
| `harness` | 1, 2 and 4 threads on 5 CPUs, any sequence of calls, create may fail | `StartTogether`, `AliveWhileUsed`, `FrameOutlivesThreads`, `TimedApart`; `KeepsContract` (refinement); `CallsReturn` |
| `suite_threads` | 2 producers with 3 entries each, any answer of the logger, a tick per reading | `ShareLogged`; faults are what was refused (throughput); `TimesEnclose`; `LatencyCoversTeam`; `CorrectionDecreases` |
| `suite_cells` | 2 loggers, thread counts 1 and 2, 2 iterations, create may fail anywhere | `EveryCellReported`, `CompletedCellsKept`; `RunsHarness` (refinement); `SuiteReturns` |
| `google_runs` | runs of 1, 2 and 3 threads in any order, `prepare_thread` may fail, create succeeds | `CleanHandover`, `KeepsContract`, `RunsReturn` |
| `adapters` | all 16 loggers in any order, 1 to 3 threads, 11 bytes on 4 CPUs, creates that fail or throw, both subcommands | `LogsIntoRunning`, `TestedAlone`, `NameFree`, `LostByFailureOnly`, `InstancesReturned`, `QueueAsNamed` |
| `command_line` | every combination of thirteen sizes (some with something between number and suffix), six counts and twenty endings of the line; six counts with eight iteration counts | `EveryThreadHasWork`, `NumbersKept`, `LoggersAsNamed`, `SizesOfIntKept` |

Four threads show a counter that is neither empty nor full with
producers in every stage on both sides of it; five CPUs are the fewest that leave the caller one
of its own beside four producers. Two producers with three samples each make
every order of starts, ends and samples, and percentile indices at both ends and
between; two loggers, two thread counts and two iterations are the least shape on
which every pair of strides can be confused. The widths (64 and 4096 in place of 2^32 and 2^64)
exceed every value a run without underflow makes, so that a wrap is visible. In
`suite_cells` the clock stands still and all entries are accepted: what is
measured is the other run's subject. In `command_line` 4, 2^8 and 2^16 stand for 2^10, 2^32 and
2^64, so that a gigabyte is a quarter of the narrow width in both; sizes lie below, at and above
the sign bit of the narrow width, and above the wide one, and the iteration counts at 0, below and at
the sign bit, and around the narrow width. In `adapters` 11 bytes leave a remainder when divided by
4 CPUs, by 2 and by 3 threads, so that a share rounded up, or divided by the wrong number, is
too much, and one divided twice is too little; threads are interchangeable, and symmetric. Loggers are not: all that differ in the code are there.

`CorrectionDecreases` and `LatencyCoversTeam` hold where a reading costs at least the measured overhead
(`Ticks` against `OverheadNs`, chosen so in the run); the code asserts the same in debug builds and
would wrap in others. Section 4 states this and the other conditions as hypotheses.

Deadlock is checked in `google_runs`. It is not in the others: a failed create ends
the program, `run_tests` ends, the command line ends in a call or a return, and the
program around the adapters exits, aborts or, as found above, is stuck.

### Where the code and its word differ

| Run | Property | Observation |
|---|---|---|
| `latency_faults` | `LatencyFaultsReported` | `finish()` zeroes what was expected before `get_faults()` subtracts the successes from it (`test_suite.hpp:180-181`): every latency test reports minus its successes |
| `unchecked_entries` | `ThroughputFaultsReported` | the malc adapters never show the faults README.md:279 speaks of: `malc.cpp:55` counts each entry as a success. With `mal`'s counting the same property holds (`suite_threads`) |
| `lost_remainder` | `AllMessagesSent` | `msgs / thread_count` drops the remainder, the result keeps `msgs` |
| `memory_sizes` | `SizesKept` | the help text accepts sizes in GB, but `main` hands the size over as an `int`: from 2 GB on the loggers are told another size |
| `one_digit_size` | `NeverAborts` | `ENDSWITHLIT` of one character compares `npos` with `size() - 2`, which is `npos` too: a size such as `8` takes every suffix for its own and `erase` throws |
| `google_create_fails` | `RunsReturn` | after a failed create thread 0 returns without leaving the count: its team, or the next run, spins for ever |

### Fairness

`WF` on each thread's steps: the operating system runs every thread, and the spin
loops yield, so a thread whose step stays enabled takes it. Nothing is assumed
of `StartRun` or `Call`: the environment need not ask for another run. No strong fairness is
needed, since what a spin loop waits for stays true until it is seen.

## 4. What is proved

* `LoggerContract_proofs`: `ContractOrderly`. The contract keeps its own promise to
  a logger, for any set of threads: logged into only with the whole team prepared, terminated
  only when all have finished.
* `RunHarness_proofs`, from `HarnessAssumption` alone (at least one thread and one CPU, counts
  within the maximum). The properties are not inductive: that nobody is past the line
  early depends on what the counter means. The invariant `IInv` adds `ThreadsExist` (which threads
  there are, by the caller's place), `LineHolds` (until the line opens, `initialized`
  is the number of those waiting, and nobody is beyond the line; once it is open
  nobody can reach it again), `LifeFollows` (the instance, by the caller's
  place) and `Pinned` (whose CPU is whose, from `create` on). The step that matters is
  `SeeAllInitialized`: as many waiting as there are threads, all of them in the team, means that
  all wait (`AllWait`, by cardinality). From it `TypeCorrect`, `StartsTogether`, `UsesLiveLogger`,
  `JoinsEveryThread` and `TimesApart`. `Implements`: each step is the contract's or a stutter, so
  `Spec => KeepsContract`.
* `DataLemmas`: what `SumFunction`, `FoldLeft`, `Min` and `Max` of the community modules give for every
  argument. Each is defined by a recursive function or by `CHOOSE`, so each needs an induction; the
  library's induction theorems take an operator, which no installed prover can instantiate. They are
  replaced by an argument from the least counterexample: `NaturalInduction` and `PartsInduction` state
  the induction for the *set* of what has the property, and follow from the well-foundedness of `<` on
  the naturals. `FoldExists` shows that the recursion behind the folds has a value, from which come
  `SumByParts`, `SumBounded`, `SumOfEqual` and `LeftFoldExists`.
* `TestSuite_proofs`, from the assumptions of `TestSuite`. First the addresses of `TestResults`, from
  `ShapeAssumption`: `AddressInRange` and `AddressInjective`, for every shape. A number has one digit and one
  remainder to a radix; used twice, for the logger's block and within it. Then `CInv`, which relates
  cells and loops: the cells before `pos`, in the order the loops visit them, hold the results of
  their tests, and the cell at `pos` as much of its own as the test in progress has written.
  `FollowingSteps` says that the loops skip no cell, `AddressInjective` that a write to one cell leaves
  the others. From it `CellsReported`, `CellsKept`, and
  `ImplementsHarness`: every step of the suite is one of `RunHarness` or leaves its variables alone, so
  that the theorems of `RunHarness_proofs` hold of the suite. `SharesAreLogged` needs a second
  invariant, `SInv`: no producer is left when a test reports (`Frame`), and what a
  producer has left in its iterator and what it has logged are together its share (`Working`). It assumes
  `MsgsFit`, that an int holds the message count: `prepare` of the throughput test takes an int, and the
  property fails above. `PercentileInRange` says that the rounded index of a percentile
  lies in the sample, and that 0 and 100 per cent are its ends, for every size.
* `TestSuiteReports_proofs`, on top of it, for every thread count, clock frequency and interleaving of the readings:
  * `TimesAreEnclosed`. `TInv` bounds what every producer stamped by the last reading (`Stamped`) and, once
    the end of the test has been read, by that; the conversion to nanoseconds is monotone.
  * `FaultsAreReported`, for loggers that count (`Checked`); `AllSentWhenDivided`, for thread counts that divide
    the messages. `MInv` adds what is measured to what is logged: the successes are what was accepted, and
    accepted and refused are the share. The sum of the differences modulo 2^64 is then the sum
    of the refusals (`SumByParts`; `SumBounded` keeps it from wrapping). `RemainderIsLost`: what is sent is
    `Msgs - Msgs % tc`, no more and no less, which is the finding of `lost_remainder` for every count.
  * `LatenciesDescribeTeam`. `JoinedIsAll`: after the fold of `join` the first object holds the samples of
    everyone, none twice, and expects as many, so that `finish` does sort. `PlacesCount`: the places of the
    joined sequence are one to one with the samples of the threads. `RankedIs`: place `k` of what is
    sorted is the least value with `k` samples not above it. So percentiles are samples, half of
    the samples are not above the median, and the extremes are extremes.
  * `CorrectionIsHeld`. `Short`: every sample holds the overhead and fits 32 bits; `TimesCosted`: from the
    throughput test on, until the latency test of the same cell takes the overhead away, its times hold it.
  * `SuiteTypes`. `HInv` is the harness's part: the counter is at most the number of those who passed the line's
    `fetch_add`, and they are workers; `TableTyped` is the results'. It needs no start line, so it is shorter than
    `IInv`.
* `GoogleAdaptor_proofs`, assuming `NeverFails` (creates succeed; the finding shows that nothing of it
  holds otherwise). `runners` is the number of those who have entered and not left (`Follows`);
  where thread 0 is tells where everyone may be (`Points`). From it `TypeCorrect` (the count never
  wraps), `HandsOverClean` and `Implements` (the contract).
* `Adapters_proofs`, from `AdaptersAssumption`: any set of the loggers, any finite set of threads, any memory
  and number of CPUs. `Driven` is the contract's own invariant. `Held`: whoever runs is the logger being tested or a
  singleton, the nanologs always run, glog does once it is set up, and the name registered is that of the logger being tested. From it
  `LogsAreTaken`: a create that assigns nothing, as glog's second, still finds its library running
  (`CreatedRuns`). `Returned`: what may be left, by what has become of the program; a mal holds nothing when the
  next create begins unless its own create failed just before, so that only then its pointer is
  overwritten (`OverwrittenByFailure`, and `OnlyFailureLoses`), and at the end there is nothing
  but singletons and the malc that could not be created (`NothingLeaks`).
  `Shared`: the queues of threads take no more than their shares. One theorem for each property of the run.
* `CommandLine_proofs`, from `CommandLineAssumption` (thread counts lie between one and `max_threads`) and
  the widths: `WorkForEveryThread`, `NumbersReachTests`, `SizesReachLoggers`. The checks are made several steps before the tests
  are called; `Checked` and `Sized` carry what they found to the call. That a size
  comes through although it is cut to an int and extended is arithmetic on any two
  widths of which one divides the other (`NarrowedKeeps`); the factor is that of the suffix at the end, whatever is before it. `StatisticInRange`: the percentiles registered
  with Google Benchmark lie in the repetitions. `TypesKept`: in particular the loop over the types never
  looks past `argc`. `LoggersAreThoseNamed`: the names chosen are those named so far (`Select`), and the loop that moves the loggers picks exactly these, each once and in the order of `LoggerNames` (`SameOrder`), by
  induction along it (`LeftFoldExists`).

Hypotheses of the theorems about reports, and why the code justifies them:

| Hypothesis | Says | Because |
|---|---|---|
| `MsgsFit` | an int holds the message count | `throughput_measurements::prepare` takes an int; above it `ShareLogged` is false (a hazard of `PROJECT.json`) |
| `Checked` | `run_logging` counts accepted entries | true of `mal`; for the others the property is false (`unchecked_entries`) |
| `now < U64Mod` (`ClockFits`: in nanoseconds too) | the clock does not wrap during a call | 2^64 ticks are two centuries at 3 GHz |
| `ClockCosts` | from a reading to the next pass at least `OverheadNs` | `get_overhead` keeps the least of 500000 such differences; `clock_correct` asserts it of the fields |
| `EntryShort` | no entry outlasts the 32 bits of a sample, in ticks and in nanoseconds | `add_sample` asserts it: "max 4.294967295 seconds/entry" |
| `OverheadNs > 0` | a reading is not free | without it nothing is taken, and nothing decreases |

`now`, the clock and the entries are the environment's; these hypotheses are on behaviours, as
`[](now < U64Mod)` or `[][EntryShort]_vars`, and the run `suite_threads` satisfies all of them.

Only model-checked: liveness (`CallsReturn`, `SuiteReturns`, `RunsReturn`), which needs fairness and
`ENABLED`, out of the prover's reach. Every other property of a passing run is stated by a theorem.
What the violation runs refute (section 3) is not proved false: a counterexample is enough.

## 5. What is not modelled

* The logger libraries and Google Benchmark are not part of the repository; they enter as
  described above. Where the threads of a library run is written down nowhere.
* Thread creation is taken not to throw: the program would be terminated. A thread that fails to prepare is
  taken to log like the others, as `run_throughput` has it; what that does is the library's.
* `cpuclock_init` measures the machine (frequency and overhead are constants here), and the clock is
  converted in floating point (here exactly). The samples of a latency test keep 32 bits of a tick count,
  in the model too, but no run makes a sample that long.
* The moves of `test_results` are those of a `unique_ptr`: the array has one owner, and what
  `run_tests` hands out on success or drops on failure is `table` and `ret`.
* `to_si_units`, `to_stream`, names, descriptions, usage texts, build files and scripts: no
  state, or text.

## 6. Order of the work

`LoggerContract`, `RunHarness` and its proofs, the measurement operators, `TestSuite`,
`GoogleAdaptor`, `TestResults` and its proofs, `CommandLine` and its proofs; then `Adapters`,
the CPUs of the harness, the registrations, and the proofs of the adapters, the Google adaptor and the suite.

What is left is small: `TypeCorrect` of the harness could be had for the suite through
`ImplementsHarness` instead of `HInv`, and the hypothesis `EntryShort` could be turned into a bound on
`Ticks` for systems that give one.
