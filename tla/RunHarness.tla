----------------------------- MODULE RunHarness -----------------------------
(***************************************************************************)
(* The thread skeleton that run_throughput and run_latency share           *)
(* (test_suite.hpp): one call creates the logger, starts thread_count      *)
(* producers, holds them at a start line made of one atomic counter, joins *)
(* them, and terminates and destroys the logger.  What the producers       *)
(* measure is left to TestSuite, which adds it to these actions.           *)
(*                                                                         *)
(* Every access to `initialized` is one atomic step.  Its accesses are     *)
(* relaxed, but it is the only variable threads share while they run       *)
(* (results are handed over by thread creation and join), so coherence of  *)
(* a single atomic makes the interleaving semantics exact.                 *)
(***************************************************************************)
EXTENDS Integers, FiniteSets

CONSTANTS
  MaxThreads,    \* the largest thread count (max_threads)
  ThreadCounts,  \* the values thread_count is called with
  Cpus           \* sysconf (_SC_NPROCESSORS_ONLN)

ASSUME HarnessAssumption ==
  /\ MaxThreads \in Nat \ {0}
  /\ ThreadCounts \subseteq 1..MaxThreads
  /\ Cpus \in Nat \ {0}

Workers == 0..MaxThreads - 1

VARIABLES
  tc,            \* thread_count of the call in progress
  mpc,           \* where the calling thread is
  next,          \* its loop index i, in the spawn loop and in the join loop
  initialized,   \* atomic<int>: arrivals at the start line, -1 once it is open
  wpc,           \* where each producer is; "none": threads[i] holds no thread
  life,          \* the logger instance
  home,          \* the CPU the calling thread is pinned to
  cpu            \* the CPU each producer is pinned to

affinity == <<home, cpu>>
vars == <<tc, mpc, next, initialized, wpc, life, affinity>>

\* A thread that has not been pinned runs anywhere.
Anywhere == -1

\* The producers of the call in progress.
Team == 0..tc - 1

Init ==
  /\ tc = 0 /\ next = 0 /\ initialized = 0
  /\ mpc = "idle"
  /\ wpc = [w \in Workers |-> "none"]
  /\ life = "absent"
  /\ home = Anywhere
  /\ cpu = [w \in Workers |-> Anywhere]

-----------------------------------------------------------------------------
(* The calling thread.                                                     *)

\* Entry of the function: its locals are constructed.
Call(n) ==
  /\ mpc = "idle"
  /\ tc' = n
  /\ next' = 0
  /\ initialized' = 0
  /\ wpc' = [w \in Workers |-> "none"]
  /\ cpu' = [w \in Workers |-> Anywhere]
  /\ mpc' = "create"
  /\ UNCHANGED <<life, home>>

\* set_thread_cpu (i).
CpuOf(i) == i % Cpus

\* mutant: the caller takes the CPU of the first producer whatever follows
CreateSucceedsOnFirst ==
  /\ mpc = "create"
  /\ life' = "created"
  /\ mpc' = IF tc > 1 THEN "spawn" ELSE "inline"
  /\ home' = CpuOf(0)
  /\ UNCHANGED <<tc, next, initialized, wpc, cpu>>

\* l.create returns true; one thread is run inline, more are spawned. Before
\* it does either the caller takes a CPU.
CreateSucceeds ==
  /\ mpc = "create"
  /\ life' = "created"
  /\ mpc' = IF tc > 1 THEN "spawn" ELSE "inline"
  /\ home' = CpuOf(IF tc > 1 THEN tc ELSE 0)
  /\ UNCHANGED <<tc, next, initialized, wpc, cpu>>

\* l.create returns false: the function returns false.
CreateFails ==
  /\ mpc = "create"
  /\ mpc' = "failed"
  /\ UNCHANGED <<tc, next, initialized, wpc, life, affinity>>

\* threads[i] = thread (...); ++i. The thread inherits the CPU of the caller.
Spawn ==
  /\ mpc = "spawn"
  /\ wpc' = [wpc EXCEPT ![next] = "prepare"]
  /\ cpu' = [cpu EXCEPT ![next] = home]
  /\ next' = next + 1
  /\ mpc' = IF next + 1 = tc THEN "await" ELSE "spawn"
  /\ UNCHANGED <<tc, initialized, life, home>>

\* mutant: waits for one arrival only
SeeAnyInitialized ==
  /\ mpc = "await"
  /\ initialized > 0
  /\ mpc' = "release"
  /\ UNCHANGED <<tc, next, initialized, wpc, life, affinity>>

\* while (initialized.load() != thread_count) yield: a load that ends it.
SeeAllInitialized ==
  /\ mpc = "await"
  /\ initialized = tc
  /\ mpc' = "release"
  /\ UNCHANGED <<tc, next, initialized, wpc, life, affinity>>

\* mutant: stores 0, which the spinning loads take for a closed start line
ReleaseWithZero ==
  /\ mpc = "release"
  /\ initialized' = 0
  /\ next' = 0
  /\ mpc' = "join"
  /\ UNCHANGED <<tc, wpc, life, affinity>>

\* mutant: the join loop starts at 1, as latency_measurements are joined
ReleaseSkippingFirst ==
  /\ mpc = "release"
  /\ initialized' = -1
  /\ next' = 1
  /\ mpc' = "join"
  /\ UNCHANGED <<tc, wpc, life, affinity>>

\* initialized.store (-1).
Release ==
  /\ mpc = "release"
  /\ initialized' = -1
  /\ next' = 0
  /\ mpc' = "join"
  /\ UNCHANGED <<tc, wpc, life, affinity>>

\* mutant: detaches instead of joining
JoinWithoutWaiting ==
  /\ mpc = "join"
  /\ next' = next + 1
  /\ mpc' = IF next + 1 = tc THEN "terminate" ELSE "join"
  /\ UNCHANGED <<tc, initialized, wpc, life, affinity>>

\* mutant: the many-threads branch ends with destroy, terminate forgotten
JoinThenDestroy ==
  /\ mpc = "join"
  /\ wpc[next] = "done"
  /\ next' = next + 1
  /\ mpc' = IF next + 1 = tc THEN "destroy" ELSE "join"
  /\ UNCHANGED <<tc, initialized, wpc, life, affinity>>

\* threads[i].join(); ++i.
Join ==
  /\ mpc = "join"
  /\ wpc[next] = "done"
  /\ next' = next + 1
  /\ mpc' = IF next + 1 = tc THEN "terminate" ELSE "join"
  /\ UNCHANGED <<tc, initialized, wpc, life, affinity>>

\* thread_count == 1: the calling thread is the producer, nobody waits.
RunInline ==
  /\ mpc = "inline"
  /\ wpc' = [wpc EXCEPT ![0] = "prepare"]
  /\ cpu' = [cpu EXCEPT ![0] = home]
  /\ mpc' = "running"
  /\ UNCHANGED <<tc, next, initialized, life, home>>

InlineDone ==
  /\ mpc = "running"
  /\ wpc[0] = "done"
  /\ mpc' = "terminate"
  /\ UNCHANGED <<tc, next, initialized, wpc, life, affinity>>

\* l.terminate().
Terminate ==
  /\ mpc = "terminate"
  /\ life' = "terminated"
  /\ mpc' = "destroy"
  /\ UNCHANGED <<tc, next, initialized, wpc, affinity>>

\* l.destroy().
Destroy ==
  /\ mpc = "destroy"
  /\ life' = "absent"
  /\ mpc' = "report"
  /\ UNCHANGED <<tc, next, initialized, wpc, affinity>>

\* The results are read, the locals destroyed; the function returns true.
Return ==
  /\ mpc = "report"
  /\ mpc' = "idle"
  /\ UNCHANGED <<tc, next, initialized, wpc, life, affinity>>

-----------------------------------------------------------------------------
(* A producer: the lambda of the spawn loop, or the inline branch.         *)

\* A thread takes its CPU (the inline one has); l.prepare_thread returns, and
\* its result is not looked at.
PrepareThread(w) ==
  /\ wpc[w] = "prepare"
  /\ wpc' = [wpc EXCEPT ![w] = IF tc > 1 THEN "arrive" ELSE "go"]
  /\ cpu' = [cpu EXCEPT ![w] = IF tc > 1 THEN CpuOf(w) ELSE @]
  /\ UNCHANGED <<tc, mpc, next, initialized, life, home>>

\* mutant: counts an arrival before and after prepare_thread
ArriveTwice(w) ==
  /\ wpc[w] = "arrive"
  /\ initialized' = initialized + 2
  /\ wpc' = [wpc EXCEPT ![w] = "spin"]
  /\ UNCHANGED <<tc, mpc, next, life, affinity>>

\* initialized.fetch_add (1).
Arrive(w) ==
  /\ wpc[w] = "arrive"
  /\ initialized' = initialized + 1
  /\ wpc' = [wpc EXCEPT ![w] = "spin"]
  /\ UNCHANGED <<tc, mpc, next, life, affinity>>

\* while (initialized.load() >= 0) yield: a load that ends it.
SeeRelease(w) ==
  /\ wpc[w] = "spin"
  /\ initialized < 0
  /\ wpc' = [wpc EXCEPT ![w] = "go"]
  /\ UNCHANGED <<tc, mpc, next, initialized, life, affinity>>

\* l.run_logging begins and ends.
StartLogging(w) ==
  /\ wpc[w] = "go"
  /\ wpc' = [wpc EXCEPT ![w] = "logging"]
  /\ UNCHANGED <<tc, mpc, next, initialized, life, affinity>>

StopLogging(w) ==
  /\ wpc[w] = "logging"
  /\ wpc' = [wpc EXCEPT ![w] = "done"]
  /\ UNCHANGED <<tc, mpc, next, initialized, life, affinity>>

-----------------------------------------------------------------------------
Create == CreateSucceeds \/ CreateFails

MainStep ==
  \/ Create
  \/ Spawn \/ SeeAllInitialized \/ Release \/ Join
  \/ RunInline \/ InlineDone
  \/ Terminate \/ Destroy \/ Return

WorkerStep(w) ==
  \/ PrepareThread(w) \/ Arrive(w) \/ SeeRelease(w)
  \/ StartLogging(w) \/ StopLogging(w)

Next ==
  \/ \E n \in ThreadCounts : Call(n)
  \/ MainStep
  \/ \E w \in Workers : WorkerStep(w)

Spec == Init /\ [][Next]_vars

\* The operating system runs every thread, and a spinning one yields.
Fairness ==
  /\ WF_vars(MainStep)
  /\ \A w \in Workers : WF_vars(WorkerStep(w))

FairSpec == Spec /\ Fairness

-----------------------------------------------------------------------------
TypeOK ==
  /\ tc \in 0..MaxThreads
  /\ mpc \in {"idle", "create", "failed", "spawn", "await", "release", "join",
              "inline", "running", "terminate", "destroy", "report"}
  /\ next \in 0..MaxThreads
  /\ initialized \in -1..MaxThreads
  /\ wpc \in [Workers -> {"none", "prepare", "arrive", "spin", "go", "logging", "done"}]
  /\ life \in {"absent", "created", "terminated"}
  /\ home \in Anywhere..Cpus - 1
  /\ cpu \in [Workers -> Anywhere..Cpus - 1]

\* Nobody is past the start line while a thread of the same call has yet to
\* return from prepare_thread (logger.hpp: "Time measurements won't start
\* until all threads return from this function").
StartTogether ==
  (\E w \in Workers : wpc[w] \in {"go", "logging", "done"})
    => \A w \in Team : wpc[w] \notin {"none", "prepare"}

\* A thread calls prepare_thread and run_logging only on a created logger
\* that has not been terminated.
AliveWhileUsed ==
  (\E w \in Workers : wpc[w] \in {"prepare", "go", "logging"}) => life = "created"

\* The threads refer to `initialized` and `results`, locals of the call: no
\* thread is left running, or unjoined, when the call gives them up.
FrameOutlivesThreads ==
  mpc \in {"failed", "terminate", "destroy", "report", "idle"}
    => \A w \in Workers : wpc[w] \in {"none", "done"}

\* While any producer is timed, each has a CPU to itself, the thread that waits
\* for them has another, and all of them have left the one they inherited
\* (test_suite.hpp: "set this thread to a free CPU when the number of CPUs is
\* greater than the thread count").
TimedApart ==
  (\E w \in Workers : wpc[w] = "logging") /\ tc > 1 /\ Cpus > tc
    => /\ \A w \in Team : cpu[w] \notin {home, Anywhere}
       /\ \A v, w \in Team : v # w => cpu[v] # cpu[w]

\* Every call of run_throughput or run_latency returns.
CallsReturn == (mpc = "create") ~> (mpc \in {"idle", "failed"})

-----------------------------------------------------------------------------
(* The contract of logger.hpp, as this code keeps it.  Between two calls   *)
(* wpc still names the threads of the last one: without an instance, those *)
(* who are done are nobody's team.                                         *)
At(stages) == {w \in Workers : wpc[w] \in stages}
Done == IF life = "absent" THEN {} ELSE At({"done"})

Contract == INSTANCE LoggerContract WITH
  Threads  <- Workers,
  team     <- IF life = "absent" THEN {} ELSE Team,
  ready    <- At({"arrive", "spin", "go", "logging"}) \cup Done,
  logging  <- At({"logging"}),
  finished <- Done

\* The call sequence of the skeleton is one the contract allows.
KeepsContract == Contract!Spec

=============================================================================
