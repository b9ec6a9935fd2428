--------------------------- MODULE GoogleAdaptor ---------------------------
(***************************************************************************)
(* run_google_benchmark (google_benchmark_adaptor.hpp): the function that  *)
(* Google Benchmark runs on every thread of a benchmark.  Two static       *)
(* atomics outlive the runs: `runners` is a gathering and a scattering     *)
(* point in one, `initstatus` tells what came of the logger's creation.    *)
(*                                                                         *)
(* The library is external and enters with what this function relies on:   *)
(* a run starts when every thread of the last one has returned, and the    *)
(* range-for over benchmark::State waits for all threads of the run before *)
(* its first iteration and again after its last.                           *)
(***************************************************************************)
EXTENDS Integers, FiniteSets

CONSTANTS
  MaxThreads,
  ThreadCounts,    \* what the benchmarks are registered with (Threads)
  CreateOutcomes,  \* what create may return
  PrepareOutcomes  \* what prepare_thread may return

ASSUME AdaptorAssumption ==
  /\ MaxThreads \in Nat \ {0}
  /\ ThreadCounts \subseteq 1..MaxThreads
  /\ CreateOutcomes \subseteq BOOLEAN /\ PrepareOutcomes \subseteq BOOLEAN

Workers == 0..MaxThreads - 1

VARIABLES
  tc,          \* state.threads of the run in progress
  pc,          \* where each thread is
  runners,     \* static atomic<unsigned>
  initstatus,  \* static atomic<unsigned>
  error,       \* threads that have called state.SkipWithError
  life         \* the logger instance

vars == <<tc, pc, runners, initstatus, error, life>>

Team == 0..tc - 1

Init ==
  /\ tc = 0
  /\ pc = [w \in Workers |-> "returned"]
  /\ runners = 0 /\ initstatus = "unitialized"
  /\ error = {}
  /\ life = "absent"

Goto(w, place) == pc' = [pc EXCEPT ![w] = place]

\* The library: the next run, of some benchmark, on n threads.
StartRun(n) ==
  /\ \A w \in Workers : pc[w] = "returned"
  /\ tc' = n
  /\ pc' = [w \in Workers |->
             IF w = 0 THEN "create" ELSE IF w < n THEN "enter" ELSE "returned"]
  /\ error' = {}
  /\ UNCHANGED <<runners, initstatus, life>>

-----------------------------------------------------------------------------
(* Thread 0 creates the instance, everyone gathers.                        *)

\* log->create (qsize), and what the threads are told of it.
Create ==
  /\ pc[0] = "create"
  /\ \E ok \in CreateOutcomes :
       /\ life' = IF ok THEN "created" ELSE life
       /\ initstatus' = IF ok THEN "init_ok" ELSE "init_failed"
       /\ error' = IF ok THEN error ELSE error \cup {0}
  /\ Goto(0, "enter")
  /\ UNCHANGED <<tc, runners>>

\* runners.fetch_add (1).
Enter(w) ==
  /\ pc[w] = "enter"
  /\ runners' = runners + 1
  /\ Goto(w, "gather")
  /\ UNCHANGED <<tc, initstatus, error, life>>

\* mutant: does not wait for the others
GatherAlone(w) ==
  /\ pc[w] = "gather"
  /\ Goto(w, "prepare")
  /\ UNCHANGED <<tc, runners, initstatus, error, life>>

\* while (runners.load() != thread_count) yield: a load that ends it.
Gather(w) ==
  /\ pc[w] = "gather"
  /\ runners = tc
  /\ Goto(w, "prepare")
  /\ UNCHANGED <<tc, runners, initstatus, error, life>>

\* prepare_thread, if there is an instance.
Prepare(w) ==
  /\ pc[w] = "prepare"
  /\ IF initstatus = "init_ok"
     THEN \E ok \in PrepareOutcomes : error' = IF ok THEN error ELSE error \cup {w}
     ELSE UNCHANGED error
  /\ Goto(w, "begin")
  /\ UNCHANGED <<tc, runners, initstatus, life>>

\* log->run_logging (state): begin() of its range-for and the library's
\* barrier.  A thread in error takes part, for no iterations.
Begin(w) ==
  /\ pc[w] = "begin"
  /\ \A v \in Team : pc[v] \notin {"create", "enter", "gather", "prepare"}
  /\ Goto(w, "loop")
  /\ UNCHANGED <<tc, runners, initstatus, error, life>>

\* Its iterations are done.
Loop(w) ==
  /\ pc[w] = "loop"
  /\ Goto(w, "end")
  /\ UNCHANGED <<tc, runners, initstatus, error, life>>

\* The barrier after the last iteration; run_logging returns.
End(w) ==
  /\ pc[w] = "end"
  /\ \A v \in Team : pc[v] \notin {"create", "enter", "gather", "prepare", "begin", "loop"}
  /\ Goto(w, "leave")
  /\ UNCHANGED <<tc, runners, initstatus, error, life>>

-----------------------------------------------------------------------------
(* Everyone scatters, thread 0 destroys the instance.                      *)

\* mutant: returns without having left
LeaveUncounted(w) ==
  /\ pc[w] = "leave" /\ w # 0
  /\ Goto(w, "scatter")
  /\ UNCHANGED <<tc, runners, initstatus, error, life>>

\* mutant: leaves twice
LeaveTwice(w) ==
  /\ pc[w] = "leave" /\ w # 0
  /\ runners' = runners - 2
  /\ Goto(w, "scatter")
  /\ UNCHANGED <<tc, initstatus, error, life>>

\* state.thread_index != 0: runners.fetch_sub (1).
Leave(w) ==
  /\ pc[w] = "leave" /\ w # 0
  /\ runners' = runners - 1
  /\ Goto(w, "scatter")
  /\ UNCHANGED <<tc, initstatus, error, life>>

\* while (runners.load() != 0) yield: a load that ends it; return.
Scatter(w) ==
  /\ pc[w] = "scatter"
  /\ runners = 0
  /\ Goto(w, "returned")
  /\ UNCHANGED <<tc, runners, initstatus, error, life>>

\* Thread 0 returns if there is no instance, and otherwise waits until it
\* is the last: while (runners.load() > 1) yield.
Drain ==
  /\ pc[0] = "leave"
  /\ IF initstatus # "init_ok"
     THEN Goto(0, "returned")
     ELSE runners <= 1 /\ Goto(0, "terminate")
  /\ UNCHANGED <<tc, runners, initstatus, error, life>>

Terminate ==
  /\ pc[0] = "terminate"
  /\ life' = "terminated"
  /\ Goto(0, "destroy")
  /\ UNCHANGED <<tc, runners, initstatus, error>>

Destroy ==
  /\ pc[0] = "destroy"
  /\ life' = "absent"
  /\ Goto(0, "reset")
  /\ UNCHANGED <<tc, runners, initstatus, error>>

\* initstatus.store (unitialized).
Reset ==
  /\ pc[0] = "reset"
  /\ initstatus' = "unitialized"
  /\ Goto(0, "last")
  /\ UNCHANGED <<tc, runners, error, life>>

\* mutant: thread 0 has been in the count to the end, and stays there
LeaveLastUncounted ==
  /\ pc[0] = "last"
  /\ Goto(0, "returned")
  /\ UNCHANGED <<tc, runners, initstatus, error, life>>

\* runners.fetch_sub (1) on thread 0: the others may return.
LeaveLast ==
  /\ pc[0] = "last"
  /\ runners' = runners - 1
  /\ Goto(0, "returned")
  /\ UNCHANGED <<tc, initstatus, error, life>>

-----------------------------------------------------------------------------
ThreadStep(w) ==
  \/ Enter(w) \/ Gather(w) \/ Prepare(w)
  \/ Begin(w) \/ Loop(w) \/ End(w)
  \/ Leave(w) \/ Scatter(w)
  \/ w = 0 /\ (Create \/ Drain \/ Terminate \/ Destroy \/ Reset \/ LeaveLast)

Next ==
  \/ \E n \in ThreadCounts : StartRun(n)
  \/ \E w \in Workers : ThreadStep(w)

Spec == Init /\ [][Next]_vars

\* The operating system runs every thread, and a spinning one yields.
Fairness == \A w \in Workers : WF_vars(ThreadStep(w))

FairSpec == Spec /\ Fairness

-----------------------------------------------------------------------------
TypeOK ==
  /\ tc \in 0..MaxThreads
  /\ pc \in [Workers -> {"returned", "create", "enter", "gather", "prepare", "begin",
                         "loop", "end", "leave", "scatter", "terminate", "destroy",
                         "reset", "last"}]
  /\ runners \in 0..MaxThreads
  /\ initstatus \in {"unitialized", "init_failed", "init_ok"}
  /\ error \subseteq Workers
  /\ life \in {"absent", "created", "terminated"}

\* Between two runs the statics are as at the start of the program, whatever
\* run comes next, and no instance is left behind.
CleanHandover ==
  (\A w \in Workers : pc[w] = "returned")
    => runners = 0 /\ initstatus = "unitialized" /\ life = "absent"

\* Every run returns, on every thread.
RunsReturn == (pc[0] = "create") ~> (\A w \in Workers : pc[w] = "returned")

-----------------------------------------------------------------------------
(* The contract of logger.hpp, as this code keeps it; see RunHarness.      *)
At(stages) == {w \in Workers : pc[w] \in stages}
Done ==
  IF life = "absent" THEN {}
  ELSE At({"end", "leave", "scatter", "terminate", "destroy", "reset", "last"})

Contract == INSTANCE LoggerContract WITH
  Threads  <- Workers,
  team     <- IF life = "absent" THEN {} ELSE Team,
  ready    <- At({"begin", "loop"}) \cup Done,
  logging  <- At({"loop"}),
  finished <- Done

\* The call sequence of a run is one the contract allows.
KeepsContract == Contract!Spec
=============================================================================
