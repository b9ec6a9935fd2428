------------------------------ MODULE TestSuite ------------------------------
(***************************************************************************)
(* run_tests (test_suite.hpp): every iteration runs every logger at every  *)
(* thread count, first run_throughput and then run_latency, and fills one  *)
(* cell of the results.  The threads of a call are those of RunHarness,    *)
(* whose actions are conjoined here with what they measure; Throughput and *)
(* Latency say how.                                                        *)
(*                                                                         *)
(* The clock counts from the beginning of a call: the program uses only    *)
(* differences of readings of one call.  Readings of different CPUs are    *)
(* taken to agree, as the program does.                                    *)
(***************************************************************************)
EXTENDS CpuClock, Throughput, Latency, TestResults, SequencesExt

CONSTANTS
  ThreadCountSeq,  \* threadcounts
  MaxThreads,
  Cpus,
  Msgs,            \* msgs
  Checked,         \* run_logging counts accepted entries (mal); FALSE: all
  Outcomes,        \* what the logger may answer an entry: TRUE is accepted
  CreateOutcomes,  \* what create may return
  Ticks            \* how far the clock may advance from a reading to the next

ASSUME SuiteAssumption ==
  /\ MaxThreads \in Nat \ {0} /\ Cpus \in Nat \ {0}
  /\ ThreadCountIdxs = Len(ThreadCountSeq)
  /\ \A t \in 1..ThreadCountIdxs : ThreadCountSeq[t] \in 1..MaxThreads
  /\ Msgs \in Nat /\ Msgs >= MaxThreads  \* parse_args
  /\ Checked \in BOOLEAN
  /\ Outcomes \subseteq BOOLEAN /\ CreateOutcomes \subseteq BOOLEAN
  /\ Ticks \subseteq Nat

VARIABLES
  tc, mpc, next, initialized, wpc, life, home, cpu,  \* of RunHarness
  phase,     \* which function is called: "throughput" or "latency"
  pos,       \* the loop indices of run_tests
  now,       \* the last reading of the clock
  totalEnd,  \* total_end
  meas,      \* results[]: the measurements of each producer
  iter,      \* each producer's iterator
  counted,   \* each producer's local count of successes in run_logging
  backend,   \* entries each producer's logger [accepted, refused] (external)
  table,     \* res, by address
  ret        \* what run_tests returned; -1 while it runs

harness == <<tc, mpc, next, initialized, wpc, life, home, cpu>>
measuring == <<meas, iter, counted, backend>>
suite == <<phase, pos, table, ret>>
vars == <<harness, now, totalEnd, measuring, suite>>

H == INSTANCE RunHarness WITH
  ThreadCounts <- {ThreadCountSeq[t] : t \in 1..ThreadCountIdxs}

Workers == H!Workers
Team == H!Team

Permilles == {0, 500, 750, 850, 900, 950, 970, 990, 999, 1000}

\* memset (tr, 0, sizeof *tr).
ZeroResult ==
  [thread_count |-> 0, messages |-> 0, throughput_faults |-> 0,
   latency_faults |-> 0, producer_ns |-> 0, total_ns |-> 0,
   latency_ns |-> [p \in Permilles |-> 0]]

\* A cell that has not been written: uninitialised memory, here with a thread
\* count that no test has.
NoResult == [ZeroResult EXCEPT !.thread_count = -1]

Cell == Address(pos.l, pos.t, pos.it)

\* mutant: the index of a thread count, for the thread count
ThreadsByIndex == pos.t

\* threadcounts[thread], the thread count of the test.
Threads == ThreadCountSeq[pos.t + 1]

NoIter == [remaining |-> 0]
NoEntries == [accepted |-> 0, refused |-> 0]

Init ==
  /\ H!Init
  /\ phase = "throughput"
  /\ pos = [it |-> 0, l |-> 0, t |-> 0]
  /\ now = 0 /\ totalEnd = 0
  /\ meas = [w \in Workers |-> TmReset]
  /\ iter = [w \in Workers |-> NoIter]
  /\ counted = [w \in Workers |-> 0]
  /\ backend = [w \in Workers |-> NoEntries]
  /\ table = [a \in Addresses |-> NoResult]
  /\ ret = IF Addresses = {} THEN 0 ELSE -1  \* without cells no loop turns

\* The next reading of the clock.
Reading(t) == t \in {now + d : d \in Ticks}

-----------------------------------------------------------------------------
(* The calling thread.                                                     *)

\* run_throughput or run_latency is entered.
Enter(reset) ==
  /\ H!Call(Threads)
  /\ now' = 0 /\ totalEnd' = 0
  /\ meas' = [w \in Workers |-> reset]
  /\ iter' = [w \in Workers |-> NoIter]
  /\ counted' = [w \in Workers |-> 0]
  /\ backend' = [w \in Workers |-> NoEntries]
  /\ UNCHANGED <<phase, pos, ret>>

\* The body of the innermost loop, to the entry of run_throughput.
BeginThroughput ==
  /\ ret = -1 /\ phase = "throughput"
  /\ Enter(TmReset)
  /\ table' = [table EXCEPT ![Cell] = [ZeroResult EXCEPT !.thread_count = Threads]]

BeginLatency ==
  /\ ret = -1 /\ phase = "latency"
  /\ Enter(LmReset)
  /\ table' = [table EXCEPT ![Cell].thread_count = Threads]

CreateSucceeds ==
  /\ TRUE \in CreateOutcomes
  /\ H!CreateSucceeds
  /\ UNCHANGED <<now, totalEnd, measuring, suite>>

\* run_tests returns 1; res is destroyed, the caller's results are not set.
CreateFails ==
  /\ FALSE \in CreateOutcomes
  /\ H!CreateFails
  /\ ret' = 1
  /\ table' = [a \in Addresses |-> NoResult]
  /\ UNCHANGED <<now, totalEnd, measuring, phase, pos>>

\* msgs / thread_count.
Share == Msgs \div tc

\* results[w].prepare (msgs_thr), before anyone may log into results[w].
Prepared(w) ==
  /\ meas' = [meas EXCEPT ![w] =
       IF phase = "throughput" THEN TmPrepare(@, Share) ELSE LmPrepare(@, Share)]
  /\ UNCHANGED <<now, totalEnd, iter, counted, backend, suite>>

Spawn == H!Spawn /\ Prepared(next)
RunInline == H!RunInline /\ Prepared(0)

\* The steps that only wait.
MainWait ==
  /\ H!SeeAllInitialized \/ H!Release \/ H!Join \/ H!InlineDone
  /\ UNCHANGED <<now, totalEnd, measuring, suite>>

\* l.terminate(); run_throughput reads the clock.
Terminate ==
  /\ H!Terminate
  /\ IF phase = "throughput"
     THEN Reading(now') /\ totalEnd' = now'
     ELSE UNCHANGED <<now, totalEnd>>
  /\ UNCHANGED <<measuring, suite>>

Destroy ==
  /\ H!Destroy
  /\ UNCHANGED <<now, totalEnd, measuring, suite>>

\* mutant: the threads after the first are forgotten
EndOfFirst == meas[0].end

\* min_start and max_end.
MinStart == Min({meas[w].start : w \in Team})
MaxEnd == Max({meas[w].end : w \in Team})

\* The faults of all threads together.
TeamFaults == ToU64(SumFunction([w \in Team |-> TmFaults(meas[w])]))

\* The end of run_throughput.
ReportThroughput ==
  /\ phase = "throughput"
  /\ H!Return
  /\ phase' = "latency"
  /\ table' = [table EXCEPT
       ![Cell].messages = Msgs,
       ![Cell].throughput_faults = TeamFaults,
       ![Cell].producer_ns = ToNs(ToU64(MaxEnd - MinStart)),
       ![Cell].total_ns = ToNs(ToU64(totalEnd - MinStart))]
  /\ UNCHANGED <<now, totalEnd, measuring, pos, ret>>

\* lm.join (results[i]) for i from 1 on, and lm.finish().
Joined == FoldLeft(LmJoin, meas[0], [i \in 1..tc - 1 |-> meas[i]])
Finished == LmFinish(Joined)

\* apply_clock_correction.
Corrected(tr) ==
  [tr EXCEPT !.producer_ns = CorrectU64(@),
             !.total_ns = CorrectU64(@),
             !.latency_ns = [p \in Permilles |-> CorrectU32(@[p])]]

\* mutant: every iteration starts over with the first logger
FollowingFirstLogger ==
  IF pos.t + 1 < ThreadCountIdxs THEN [pos EXCEPT !.t = @ + 1]
  ELSE [pos EXCEPT !.t = 0, !.l = 0]

\* mutant: one thread count too many
FollowingPastEnd ==
  IF pos.t < ThreadCountIdxs THEN [pos EXCEPT !.t = @ + 1]
  ELSE [it |-> pos.it + 1, l |-> 0, t |-> 0]

\* The three nested loops: threads innermost, then loggers, then iterations.
Following ==
  IF pos.t + 1 < ThreadCountIdxs THEN [pos EXCEPT !.t = @ + 1]
  ELSE IF pos.l + 1 < LoggerCount THEN [pos EXCEPT !.t = 0, !.l = @ + 1]
  ELSE [it |-> pos.it + 1, l |-> 0, t |-> 0]

\* The end of run_latency and of the body of the innermost loop; after the
\* last iteration run_tests returns 0 and the caller owns the results.
ReportLatency ==
  /\ phase = "latency"
  /\ H!Return
  /\ table' = [table EXCEPT ![Cell] = Corrected([@ EXCEPT
       !.latency_faults = LmFaults(Finished),
       !.latency_ns =
         [p \in Permilles |-> ToU32(ToNs(LmPercentile(Finished, p)))]])]
  /\ phase' = "throughput"
  /\ pos' = Following
  /\ ret' = IF Following.it = Iterations THEN 0 ELSE -1
  /\ UNCHANGED <<now, totalEnd, measuring>>

-----------------------------------------------------------------------------
(* A producer.                                                             *)

\* Up to run_logging.
WorkerWait(w) ==
  /\ H!PrepareThread(w) \/ H!Arrive(w) \/ H!SeeRelease(w)
  /\ UNCHANGED <<now, totalEnd, measuring, suite>>

\* run_logging: begin() and end() of its range-for.
StartLogging(w) ==
  /\ H!StartLogging(w)
  /\ IF phase = "throughput"
     THEN /\ Reading(now')
          /\ iter' = [iter EXCEPT ![w] = TmBegin(meas[w])]
          /\ meas' = [meas EXCEPT ![w] = TmEnd(@, now')]
     ELSE /\ iter' = [iter EXCEPT ![w] = LmBegin(meas[w])]
          /\ UNCHANGED <<now, meas>>
  /\ UNCHANGED <<totalEnd, counted, backend, suite>>

Answer(accepted) == IF accepted THEN "accepted" ELSE "refused"

\* The body of the loop: one entry, and what run_logging makes of the answer.
Entry(w) ==
  /\ \E accepted \in Outcomes :
       /\ backend' = [backend EXCEPT ![w][Answer(accepted)] = @ + 1]
       /\ counted' = [counted EXCEPT ![w] =
            IF accepted \/ ~Checked THEN @ + 1 ELSE @]
  /\ UNCHANGED <<harness, totalEnd, suite>>

\* The comparison finds more to do, the body runs, the iterator advances.
LogThroughput(w) ==
  /\ wpc[w] = "logging" /\ phase = "throughput"
  /\ TmMore(iter[w])
  /\ iter' = [iter EXCEPT ![w] = TmNext(@)]
  /\ Entry(w)
  /\ UNCHANGED <<now, meas>>

\* The comparison ends the loop; the successes are reported.
StopThroughput(w) ==
  /\ phase = "throughput"
  /\ ~TmMore(iter[w])
  /\ H!StopLogging(w)
  /\ Reading(now')
  /\ meas' = [meas EXCEPT ![w] = TmAddSuccesses(TmStop(@, now'), counted[w])]
  /\ iter' = [iter EXCEPT ![w] = NoIter]
  /\ UNCHANGED <<totalEnd, counted, backend, suite>>

\* The two readings that one comparison of a latency iterator makes; the first
\* comparison makes only the second.
Comparisons(w) ==
  UNION {{<<here, here + d>> : d \in Ticks} :
           here \in IF LmFirst(iter[w]) THEN {now} ELSE {now + d : d \in Ticks}}

Compared(w, readings) == LmCompare(meas[w], iter[w], readings[1], readings[2])

LogLatency(w) ==
  /\ wpc[w] = "logging" /\ phase = "latency"
  /\ \E r \in Comparisons(w) :
       /\ Compared(w, r).more
       /\ meas' = [meas EXCEPT ![w] = Compared(w, r).lm]
       /\ iter' = [iter EXCEPT ![w] = LmNext(Compared(w, r).iter)]
       /\ now' = r[2]
  /\ Entry(w)

StopLatency(w) ==
  /\ phase = "latency"
  /\ H!StopLogging(w)
  /\ \E r \in Comparisons(w) :
       /\ ~Compared(w, r).more
       /\ meas' = [meas EXCEPT ![w] = LmAddSuccesses(Compared(w, r).lm, counted[w])]
       /\ now' = r[2]
  /\ iter' = [iter EXCEPT ![w] = NoIter]
  /\ UNCHANGED <<totalEnd, counted, backend, suite>>

-----------------------------------------------------------------------------
MainStep ==
  \/ BeginThroughput \/ BeginLatency
  \/ CreateSucceeds \/ CreateFails
  \/ Spawn \/ RunInline \/ MainWait
  \/ Terminate \/ Destroy
  \/ ReportThroughput \/ ReportLatency

WorkerStep(w) ==
  \/ WorkerWait(w) \/ StartLogging(w)
  \/ LogThroughput(w) \/ StopThroughput(w)
  \/ LogLatency(w) \/ StopLatency(w)

Next == MainStep \/ \E w \in Workers : WorkerStep(w)

Spec == Init /\ [][Next]_vars

Fairness ==
  /\ WF_vars(MainStep)
  /\ \A w \in Workers : WF_vars(WorkerStep(w))

FairSpec == Spec /\ Fairness
-----------------------------------------------------------------------------
ResultOK(tr) ==
  /\ tr.thread_count \in 0..MaxThreads /\ tr.messages \in {0, Msgs}
  /\ {tr.throughput_faults, tr.latency_faults, tr.producer_ns, tr.total_ns}
       \subseteq 0..U64Mod - 1
  /\ tr.latency_ns \in [Permilles -> 0..U32Mod - 1]

TypeOK ==
  /\ H!TypeOK
  /\ phase \in {"throughput", "latency"}
  /\ ret # 0 => InShape(pos.l, pos.t, pos.it)
  /\ now \in Nat /\ totalEnd \in 0..now
  /\ ret \in {-1, 0, 1}
  /\ \A a \in Addresses : table[a] = NoResult \/ ResultOK(table[a])

Attempts(w) == backend[w].accepted + backend[w].refused
Refused == SumFunction([w \in Team |-> backend[w].refused])

\* The samples that the threads took, by thread and place.
Sampled == UNION {{w} \X DOMAIN meas[w].results : w \in Team}
Sample(s) == meas[s[1]].results[s[2]]

\* A producer leaves run_logging having made exactly the entries it was
\* given, in both tests: the iterator, prepare and the division agree.
ShareLogged ==
  \A w \in Workers : wpc[w] = "done" => Attempts(w) = Share

\* The faults a throughput test reports are the entries that the logger
\* refused, over all threads (README.md: "faults" tell that the logger could
\* not empty its buffer as fast as messages were generated).
ThroughputFaultsReported ==
  [][ReportThroughput => table'[Cell].throughput_faults = Refused]_vars

\* The same, of a latency test.
LatencyFaultsReported ==
  [][ReportLatency => table'[Cell].latency_faults = Refused]_vars

\* producer_ns covers the timed loop of every producer, and total_ns covers
\* that and the termination of the logger.
TimesEnclose ==
  [][ReportThroughput =>
       LET tr == table'[Cell]
       IN  /\ \A w \in Team : ToNs(meas[w].end - meas[w].start) <= tr.producer_ns
           /\ tr.producer_ns <= tr.total_ns]_vars

\* The latencies reported describe the samples of all threads: no sample is
\* outside minimum and maximum, half of them are not above the median, and
\* every entry was sampled.  (Clock readings cost at least the overhead.)
LatencyCoversTeam ==
  [][ReportLatency =>
       LET ns == [p \in Permilles |-> table'[Cell].latency_ns[p] + OverheadNs]
           AtMost(x) == Cardinality({s \in Sampled : ToNs(Sample(s)) <= x})
       IN  /\ \A s \in Sampled : ToNs(Sample(s)) \in ns[0]..ns[1000]
           /\ {ns[p] : p \in Permilles} \subseteq {ToNs(Sample(s)) : s \in Sampled}
           /\ 2 * AtMost(ns[500]) >= Share * tc
           /\ AtMost(ns[1000]) = Share * tc]_vars

\* The correction for the overhead never takes a field below zero, which
\* would wrap around (test_result::clock_correct asserts old > v).
CorrectionDecreases ==
  [][ReportLatency =>
       LET old == table[Cell]
           new == table'[Cell]
       IN  /\ new.producer_ns < old.producer_ns /\ new.total_ns < old.total_ns
           /\ \A p \in Permilles :
                new.latency_ns[p] < ToU32(ToNs(LmPercentile(Finished, p)))]_vars

\* When run_tests succeeds, every cell of the results was written, by the
\* tests that its place stands for.
EveryCellReported ==
  ret = 0 =>
    \A l \in 0..LoggerCount - 1, t \in 0..ThreadCountIdxs - 1, it \in 0..Iterations - 1 :
      LET tr == table[Address(l, t, it)]
      IN  tr.thread_count = ThreadCountSeq[t + 1] /\ tr.messages = Msgs

\* The order in which run_tests visits the cells.
Before(p, q) ==
  \/ p.it < q.it
  \/ p.it = q.it /\ p.l < q.l
  \/ p.it = q.it /\ p.l = q.l /\ p.t < q.t

\* The cells of tests that are over are left alone by the tests that follow,
\* unless run_tests gives up.
CompletedCellsKept ==
  [][\A l \in 0..LoggerCount - 1, t \in 0..ThreadCountIdxs - 1, it \in 0..Iterations - 1 :
       Before([it |-> it, l |-> l, t |-> t], pos)
         => ret' = 1 \/ table'[Address(l, t, it)] = table[Address(l, t, it)]]_vars

\* The threads of a test are those of RunHarness, whatever they measure, and it
\* is called with the counts that run_tests was given, one call after another.
RunsHarness == H!Spec

\* run_tests returns, whether or not the loggers can be created.
SuiteReturns == <>(ret # -1)

\* README.md: "messages: The number of messages to send each time."
AllMessagesSent ==
  [][ReportThroughput =>
       SumFunction([w \in Team |-> Attempts(w)]) = table'[Cell].messages]_vars
=============================================================================
