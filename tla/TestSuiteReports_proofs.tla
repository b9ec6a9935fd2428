----------------------- MODULE TestSuiteReports_proofs -----------------------
(***************************************************************************)
(* What the tests report, for every thread count, clock and interleaving   *)
(* of its readings: the times enclose what every producer timed, the       *)
(* faults are the entries that the logger refused, the latencies describe  *)
(* the samples of all threads, no correction wraps, and what is reported   *)
(* has its type.                                                           *)
(***************************************************************************)
EXTENDS TestSuite_proofs

-----------------------------------------------------------------------------
(* The conversion to nanoseconds.                                          *)

\* Longer in ticks is not shorter in nanoseconds.
LEMMA ToNsMonotone ==
  ASSUME NEW a \in Nat, NEW b \in Nat, a <= b
  PROVE  ToNs(a) <= ToNs(b)
<1>1. Freq \in Nat \ {0} /\ NsPerSec \in Nat \ {0}
  BY ClockAssumption
<1>2. PICK m \in Nat : m = a * NsPerSec
  BY <1>1
<1>3. PICK n \in Nat : n = b * NsPerSec
  BY <1>1
<1>4. m <= n
  BY <1>1, <1>2, <1>3
<1>5. m \div Freq <= n \div Freq
  <2> DEFINE p == m \div Freq
             q == n \div Freq
  <2>1. p \in Nat /\ q \in Nat /\ p * Freq <= m /\ n < (q + 1) * Freq
    BY <1>1
  <2>2. p * Freq < (q + 1) * Freq
    BY <1>1, <1>4, <2>1
  <2>3. p < q + 1
    BY <1>1, <2>1, <2>2
  <2> QED
    BY <2>1, <2>3
<1> QED
  BY <1>2, <1>3, <1>5 DEF ToNs

-----------------------------------------------------------------------------
(* The readings of a throughput test.                                      *)

\* What a producer stamped was read before now, and before the end of the
\* test once that has been read.
Stamped(w) ==
  /\ DOMAIN meas[w] = {"start", "end", "expected", "successes"}
  /\ meas[w].start \in 0..now /\ meas[w].end \in 0..now
  /\ wpc[w] = "done" => meas[w].start <= meas[w].end
  /\ mpc \in {"destroy", "report"} => meas[w].end <= totalEnd

TInv ==
  /\ Frame
  /\ now \in Nat /\ totalEnd \in 0..now
  /\ DOMAIN meas = Workers
  /\ phase = "throughput" /\ mpc # "idle" => \A w \in Workers : Stamped(w)

LEMMA InitTInv == Init => TInv
<1> SUFFICES ASSUME Init PROVE TInv
  OBVIOUS
<1>1. Frame
  BY InitSInv DEF SInv
<1>2. now = 0 /\ totalEnd = 0 /\ DOMAIN meas = Workers /\ mpc = "idle"
  BY DEF Init, H!Init
<1> QED
  BY <1>1, <1>2 DEF TInv

\* The clock does not run backwards.
LEMMA ReadingLater ==
  ASSUME now \in Nat, Reading(now')
  PROVE  now' \in Nat /\ now <= now'
<1>1. PICK d \in Ticks : now' = now + d
  BY DEF Reading
<1> QED
  BY <1>1, SuiteAssumption

LEMMA ComparisonsLater ==
  ASSUME now \in Nat, NEW w, NEW r \in Comparisons(w)
  PROVE  r[2] \in Nat /\ now <= r[2]
<1>1. \A d \in Ticks : d \in Nat
  BY SuiteAssumption
<1>2. PICK here \in IF LmFirst(iter[w]) THEN {now} ELSE {now + d : d \in Ticks} :
        r \in {<<here, here + d>> : d \in Ticks}
  BY DEF Comparisons
<1>3. here \in Nat /\ now <= here
  BY <1>1, <1>2
<1>4. PICK d \in Ticks : r = <<here, here + d>>
  BY <1>2
<1> QED
  BY <1>1, <1>3, <1>4

\* A step that leaves the stamps of a producer alone, and its place too.
LEMMA StaysStamped ==
  ASSUME NEW w \in Workers, Stamped(w), now \in Nat, now' \in Nat, now <= now',
         meas'[w] = meas[w], wpc'[w] = "done" => wpc[w] = "done",
         mpc' \in {"destroy", "report"}
           => mpc \in {"destroy", "report"} /\ totalEnd' = totalEnd
  PROVE  Stamped(w)'
  BY DEF Stamped

\* The steps of the calling thread that stamp nothing.
Unstamping ==
  /\ UNCHANGED <<now, totalEnd, meas, phase>>
  /\ \A w \in Workers : wpc'[w] = "done" => wpc[w] = "done"
  /\ mpc # "idle"
  /\ mpc' \in {"destroy", "report"} => mpc \in {"destroy", "report"}

LEMMA UnstampingKeeps == TInv /\ Frame' /\ Unstamping => TInv'
<1> SUFFICES ASSUME TInv, Frame', Unstamping PROVE TInv'
  OBVIOUS
<1>1. now' \in Nat /\ totalEnd' \in 0..now' /\ DOMAIN meas' = Workers
  BY DEF TInv, Unstamping
<1>2. ASSUME NEW w \in Workers, phase' = "throughput" PROVE Stamped(w)'
  <2>1. Stamped(w)
    BY <1>2 DEF TInv, Unstamping
  <2>2. meas'[w] = meas[w] /\ totalEnd' = totalEnd /\ now \in Nat /\ now <= now'
    BY DEF TInv, Unstamping
  <2> QED
    BY <1>1, <2>1, <2>2, StaysStamped DEF Unstamping
<1> QED
  BY <1>1, <1>2 DEF TInv

\* A producer is prepared: its stamps are kept or cleared.
LEMMA PreparedKeeps ==
  ASSUME TInv, Frame', NEW p \in Workers, Prepared(p),
         mpc \in {"spawn", "inline"}, mpc' \notin {"destroy", "report"},
         wpc' = [wpc EXCEPT ![p] = "prepare"]
  PROVE  TInv'
<1>1. /\ UNCHANGED <<now, totalEnd, phase>>
      /\ meas' = [meas EXCEPT ![p] = IF phase = "throughput"
                                     THEN TmPrepare(meas[p], Share)
                                     ELSE LmPrepare(meas[p], Share)]
  BY DEF Prepared, suite
<1>2. now' \in Nat /\ totalEnd' \in 0..now' /\ DOMAIN meas' = Workers
  BY <1>1 DEF TInv
<1>3. ASSUME phase = "throughput" PROVE Stamped(p)'
  <2>1. Stamped(p) /\ wpc'[p] # "done"
    BY <1>3 DEF TInv, Frame
  <2>2. meas'[p] = TmPrepare(meas[p], Share)
    BY <1>1, <1>3 DEF TInv
  <2>3. \/ meas'[p] = meas[p]
        \/ /\ DOMAIN meas'[p] = {"start", "end", "expected", "successes"}
           /\ meas'[p].start = 0 /\ meas'[p].end = 0
    BY <2>2 DEF TmPrepare, TmReset
  <2> QED
    BY <1>1, <1>2, <2>1, <2>3 DEF Stamped
<1>4. ASSUME phase = "throughput", NEW w \in Workers, w # p PROVE Stamped(w)'
  <2>1. Stamped(w) /\ meas'[w] = meas[w] /\ wpc'[w] = wpc[w]
    BY <1>1, <1>4 DEF TInv, Frame
  <2> QED
    BY <1>1, <1>2, <2>1, StaysStamped
<1> QED
  BY <1>1, <1>2, <1>3, <1>4 DEF TInv

\* A producer begins or ends its loop.
LEMMA StampingKeeps ==
  ASSUME TInv, Frame', NEW p \in Workers, StartLogging(p) \/ StopThroughput(p)
  PROVE  TInv'
<1>1. /\ UNCHANGED <<totalEnd, phase, mpc>>
      /\ DOMAIN meas' = Workers /\ \A w \in Workers : w # p => meas'[w] = meas[w]
      /\ wpc[p] \in {"go", "logging"} /\ \A w \in Workers : w # p => wpc'[w] = wpc[w]
  BY DEF StartLogging, StopThroughput, H!StartLogging, H!StopLogging, suite, TInv, Frame
<1>2. mpc \notin {"destroy", "report", "idle"}
  BY <1>1 DEF TInv, Frame
<1>3. now' \in Nat /\ now <= now'
  BY ReadingLater DEF StartLogging, StopThroughput, TInv
<1>4. totalEnd' \in 0..now'
  BY <1>1, <1>3 DEF TInv
<1>5. ASSUME phase = "throughput" PROVE Stamped(p)'
  <2>1. Stamped(p)
    BY <1>2, <1>5 DEF TInv
  <2>2. CASE StartLogging(p)
    <3>1. meas'[p] = [meas[p] EXCEPT !.start = now'] /\ wpc'[p] = "logging"
      BY <1>5, <2>2 DEF StartLogging, H!StartLogging, TmEnd, TInv, Frame
    <3> QED
      BY <1>1, <1>2, <1>3, <2>1, <3>1 DEF Stamped, TInv
  <2>3. CASE StopThroughput(p)
    <3> DEFINE stopped == [meas[p] EXCEPT !.end = now']
    <3>1. meas'[p] = [stopped EXCEPT
                        !.successes = ToU64(stopped.successes + ToU32(counted[p]))]
      BY <2>3 DEF StopThroughput, TmStop, TmAddSuccesses, TInv
    <3>2. /\ DOMAIN meas'[p] = {"start", "end", "expected", "successes"}
          /\ meas'[p].start = meas[p].start /\ meas'[p].end = now'
      BY <2>1, <3>1 DEF Stamped
    <3> QED
      BY <1>1, <1>2, <1>3, <2>1, <3>2 DEF Stamped, TInv
  <2> QED
    BY <2>2, <2>3
<1>6. ASSUME phase = "throughput", NEW w \in Workers, w # p PROVE Stamped(w)'
  <2>1. Stamped(w) /\ meas'[w] = meas[w] /\ wpc'[w] = wpc[w]
    BY <1>1, <1>2, <1>6 DEF TInv
  <2> QED
    BY <1>1, <1>2, <1>3, <2>1, StaysStamped DEF TInv
<1> QED
  BY <1>1, <1>3, <1>4, <1>5, <1>6 DEF TInv

\* The end of the test is read after the end of every producer.
LEMMA TerminateKeeps == TInv /\ Frame' /\ Terminate => TInv'
<1> SUFFICES ASSUME TInv, Frame', Terminate PROVE TInv'
  OBVIOUS
<1>1. /\ mpc = "terminate" /\ UNCHANGED <<meas, phase, wpc>>
  BY DEF Terminate, H!Terminate, measuring, suite
<1>2. CASE phase = "throughput"
  <2>1. now' \in Nat /\ now <= now' /\ totalEnd' = now'
    BY <1>2, ReadingLater DEF Terminate, TInv
  <2>2. ASSUME NEW w \in Workers PROVE Stamped(w)'
    <3>1. Stamped(w)
      BY <1>1, <1>2 DEF TInv
    <3> QED
      BY <1>1, <2>1, <3>1 DEF Stamped, TInv
  <2> QED
    BY <1>1, <2>1, <2>2 DEF TInv
<1>3. CASE phase # "throughput"
  BY <1>1, <1>3 DEF Terminate, TInv
<1> QED
  BY <1>2, <1>3

LEMMA NextTInv == CInv /\ TInv /\ [Next]_vars => TInv'
<1> SUFFICES ASSUME CInv, TInv, [Next]_vars PROVE TInv'
  OBVIOUS
<1>1. Frame'
  BY NextFrame DEF TInv
<1>2. CASE BeginThroughput
  <2>1. /\ now' = 0 /\ totalEnd' = 0 /\ meas' = [w \in Workers |-> TmReset]
        /\ wpc' = [w \in Workers |-> "none"] /\ mpc' = "create"
    BY <1>2 DEF BeginThroughput, Enter, H!Call, Workers
  <2>2. ASSUME NEW w \in Workers PROVE Stamped(w)'
    BY <2>1 DEF Stamped, TmReset
  <2> QED
    BY <1>1, <2>1, <2>2 DEF TInv
<1>3. CASE BeginLatency
  <2>1. /\ now' = 0 /\ totalEnd' = 0 /\ DOMAIN meas' = Workers
        /\ phase' = "latency"
    BY <1>3 DEF BeginLatency, Enter
  <2> QED
    BY <1>1, <2>1 DEF TInv
<1>4. CASE ReportThroughput \/ ReportLatency
  <2>1. mpc' = "idle" /\ UNCHANGED <<now, totalEnd, meas>>
    BY <1>4 DEF ReportThroughput, ReportLatency, H!Return, measuring
  <2> QED
    BY <1>1, <2>1 DEF TInv
<1>5. CASE CreateSucceeds \/ CreateFails \/ MainWait \/ Destroy
  <2>1. Unstamping
    <3>1. CASE CreateSucceeds
      BY <3>1 DEF CreateSucceeds, H!CreateSucceeds, suite, measuring, Unstamping
    <3>2. CASE CreateFails
      BY <3>2 DEF CreateFails, H!CreateFails, measuring, Unstamping
    <3>3. CASE MainWait
      BY <3>3 DEF MainWait, H!SeeAllInitialized, H!Release, H!Join, H!InlineDone, suite,
                  measuring, Unstamping
    <3>4. CASE Destroy
      BY <3>4 DEF Destroy, H!Destroy, suite, measuring, Unstamping
    <3> QED
      BY <1>5, <3>1, <3>2, <3>3, <3>4
  <2> QED
    BY <1>1, <2>1, UnstampingKeeps
<1>6. CASE Spawn
  <2>1. /\ mpc = "spawn" /\ mpc' \in {"await", "spawn"} /\ Prepared(next)
        /\ wpc' = [wpc EXCEPT ![next] = "prepare"]
    BY <1>6 DEF Spawn, H!Spawn
  <2>2. next \in Workers
    BY <2>1, Widths DEF TInv, Frame, Workers, H!Workers
  <2> QED
    BY <1>1, <2>1, <2>2, PreparedKeeps
<1>7. CASE RunInline
  <2>1. /\ mpc = "inline" /\ mpc' = "running" /\ Prepared(0)
        /\ wpc' = [wpc EXCEPT ![0] = "prepare"]
    BY <1>7 DEF RunInline, H!RunInline
  <2>2. 0 \in Workers
    BY SuiteAssumption DEF Workers, H!Workers
  <2> QED
    BY <1>1, <2>1, <2>2, PreparedKeeps
<1>8. CASE Terminate
  BY <1>1, <1>8, TerminateKeeps
<1>9. ASSUME NEW p \in Workers, WorkerWait(p) \/ LogThroughput(p) PROVE TInv'
  <2>1. /\ UNCHANGED <<now, totalEnd, meas, phase, mpc>>
        /\ wpc[p] \notin {"none", "done"}
        /\ \A w \in Workers : wpc'[w] = "done" => wpc[w] = "done"
    <3>1. CASE WorkerWait(p)
      <4>1. PICK stage \in {"arrive", "go", "spin"} : wpc' = [wpc EXCEPT ![p] = stage]
        BY <3>1 DEF WorkerWait, H!PrepareThread, H!Arrive, H!SeeRelease
      <4> QED
        BY <3>1, <4>1 DEF WorkerWait, H!PrepareThread, H!Arrive, H!SeeRelease, measuring,
                          suite, TInv, Frame
    <3>2. CASE LogThroughput(p)
      BY <3>2 DEF LogThroughput, Entry, harness, suite
    <3> QED
      BY <1>9, <3>1, <3>2
  <2>2. mpc # "idle"
    BY <2>1 DEF TInv, Frame
  <2> QED
    BY <1>1, <2>1, <2>2, UnstampingKeeps DEF Unstamping
<1>10. ASSUME NEW p \in Workers, StartLogging(p) \/ StopThroughput(p) PROVE TInv'
  BY <1>1, <1>10, StampingKeeps
<1>11. ASSUME NEW p \in Workers, LogLatency(p) \/ StopLatency(p) PROVE TInv'
  <2>1. PICK r \in Comparisons(p) : now' = r[2]
    BY <1>11 DEF LogLatency, StopLatency
  <2>2. now \in Nat /\ now' \in Nat /\ now <= now'
    BY <2>1, ComparisonsLater DEF TInv
  <2>3. phase' = "latency" /\ totalEnd' = totalEnd /\ DOMAIN meas' = Workers
    BY <1>11 DEF LogLatency, StopLatency, Entry, suite, TInv
  <2> QED
    BY <1>1, <2>2, <2>3 DEF TInv
<1>12. CASE UNCHANGED vars
  <2>1. UNCHANGED <<now, totalEnd, meas, phase, mpc, wpc>>
    BY <1>12 DEF vars, harness, suite, measuring
  <2>2. \A w \in Workers : Stamped(w)' <=> Stamped(w)
    BY <2>1 DEF Stamped
  <2> QED
    BY <1>1, <2>1, <2>2 DEF TInv
<1> QED
  BY <1>2, <1>3, <1>4, <1>5, <1>6, <1>7, <1>8, <1>9, <1>10, <1>11, <1>12
  DEF Next, MainStep, WorkerStep

-----------------------------------------------------------------------------
(* The end of a throughput test.                                           *)

\* What it writes, in terms of the cell.
LEMMA ThroughputReported ==
  ASSUME CInv, ReportThroughput
  PROVE  /\ mpc = "report" /\ phase = "throughput" /\ ret = -1
         /\ table'[Cell].messages = Msgs /\ table'[Cell].throughput_faults = TeamFaults
         /\ table'[Cell].producer_ns = ToNs(ToU64(MaxEnd - MinStart))
         /\ table'[Cell].total_ns = ToNs(ToU64(totalEnd - MinStart))
<1>1. mpc = "report" /\ phase = "throughput" /\ ret = -1
  BY DEF ReportThroughput, H!Return, CInv, Doing
<1> DEFINE producers == ToNs(ToU64(MaxEnd - MinStart))
           total == ToNs(ToU64(totalEnd - MinStart))
           a == [table[Cell] EXCEPT !.messages = Msgs]
           b == [a EXCEPT !.throughput_faults = TeamFaults]
           c == [b EXCEPT !.producer_ns = producers]
           d == [c EXCEPT !.total_ns = total]
<1>2. Cell \in DOMAIN table /\ DOMAIN table[Cell] = Fields
  BY <1>1, AddressInRange DEF CInv, Indexed, CellsWritten, Cell
<1>3. table' = [table EXCEPT ![Cell] = d]
  BY <1>2 DEF ReportThroughput
<1>4. /\ d.messages = Msgs /\ d.throughput_faults = TeamFaults
      /\ d.producer_ns = producers /\ d.total_ns = total
  <2> HIDE DEF producers, total
  <2> QED
    BY <1>2 DEF Fields
<1> HIDE DEF d
<1> QED
  BY <1>1, <1>2, <1>3, <1>4

\* The least start and the greatest end of a throughput test that reports.
LEMMA TeamTimes ==
  ASSUME CInv, TInv, ReportThroughput
  PROVE  /\ now \in Nat /\ totalEnd \in 0..now
         /\ MinStart \in 0..now /\ MaxEnd \in 0..totalEnd /\ MinStart <= MaxEnd
         /\ \A w \in Team : /\ meas[w].start \in 0..now /\ meas[w].end \in 0..now
                            /\ MinStart <= meas[w].start /\ meas[w].start <= meas[w].end
                            /\ meas[w].end <= MaxEnd
<1>1. mpc = "report" /\ phase = "throughput" /\ ret = -1
  BY DEF ReportThroughput, H!Return, CInv, Doing
<1>2. /\ Team # {} /\ Team \subseteq Workers
      /\ \A w \in Team : Stamped(w) /\ wpc[w] = "done"
  <2>1. tc \in 1..MaxThreads
    BY <1>1 DEF TInv, Frame
  <2>2. Team # {} /\ Team \subseteq Workers
    <3>1. 0 \in Team
      BY <2>1 DEF Team, H!Team
    <3>2. \A w \in Team : w \in Workers
      BY <2>1, Widths DEF Team, H!Team, Workers, H!Workers
    <3> QED
      BY <3>1, <3>2
  <2>3. \A w \in Team : w < tc
    BY <2>1, Widths DEF Team, H!Team
  <2> QED
    BY <1>1, <2>2, <2>3 DEF TInv, Frame
<1>3. /\ now \in Nat /\ totalEnd \in 0..now
      /\ \A w \in Team : /\ meas[w].start \in 0..now /\ meas[w].end \in 0..now
                         /\ meas[w].start <= meas[w].end /\ meas[w].end <= totalEnd
  BY <1>1, <1>2 DEF TInv, Stamped
<1>4. /\ MinStart \in 0..now /\ \A w \in Team : MinStart <= meas[w].start
  <2> DEFINE starts == {meas[w].start : w \in Team}
  <2>1. starts \in SUBSET Nat /\ starts # {} /\ starts \subseteq 0..now
    BY <1>2, <1>3
  <2>2. Min(starts) \in starts /\ \A y \in starts : Min(starts) <= y
    BY <2>1, MinIsLeast
  <2> QED
    BY <2>1, <2>2 DEF MinStart
<1>5. /\ MaxEnd \in 0..totalEnd /\ \A w \in Team : MaxEnd >= meas[w].end
  <2> DEFINE ends == {meas[w].end : w \in Team}
  <2>1. totalEnd \in Nat /\ ends \in SUBSET (0..totalEnd) /\ ends # {}
    BY <1>2, <1>3
  <2>2. Max(ends) \in ends /\ \A y \in ends : Max(ends) >= y
    BY <2>1, MaxIsGreatest
  <2> QED
    BY <2>1, <2>2 DEF MaxEnd
<1>6. MinStart <= MaxEnd
  <2>1. PICK w \in Team : TRUE
    BY <1>2
  <2>2. MinStart <= meas[w].start /\ meas[w].start <= meas[w].end /\ meas[w].end <= MaxEnd
    BY <1>3, <1>4, <1>5
  <2> QED
    BY <1>3, <1>4, <1>5, <2>2
<1> QED
  BY <1>3, <1>4, <1>5, <1>6

\* While the clock does not wrap around, the time of the producers covers the
\* timed loop of each, and the total covers that and the termination.
LEMMA ReportEncloses ==
  ASSUME CInv, TInv, now < U64Mod, ReportThroughput
  PROVE  /\ \A w \in Team :
              ToNs(meas[w].end - meas[w].start) <= table'[Cell].producer_ns
         /\ table'[Cell].producer_ns <= table'[Cell].total_ns
<1>1. /\ MaxEnd - MinStart \in 0..U64Mod - 1 /\ totalEnd - MinStart \in 0..U64Mod - 1
      /\ MaxEnd - MinStart <= totalEnd - MinStart
  BY TeamTimes, Widths
<1>2. \A n \in 0..U64Mod - 1 : ToU64(n) = n
  BY WidthAssumption DEF ToU64
<1>3. /\ table'[Cell].producer_ns = ToNs(MaxEnd - MinStart)
      /\ table'[Cell].total_ns = ToNs(totalEnd - MinStart)
  BY <1>1, <1>2, ThroughputReported
<1>4. ToNs(MaxEnd - MinStart) <= ToNs(totalEnd - MinStart)
  BY <1>1, ToNsMonotone
<1>5. ASSUME NEW w \in Team
       PROVE  ToNs(meas[w].end - meas[w].start) <= ToNs(MaxEnd - MinStart)
  <2>1. /\ meas[w].end - meas[w].start \in Nat /\ MaxEnd - MinStart \in Nat
        /\ meas[w].end - meas[w].start <= MaxEnd - MinStart
    BY TeamTimes
  <2> QED
    BY <2>1, ToNsMonotone
<1> QED
  BY <1>3, <1>4, <1>5

\* For every thread count, clock and interleaving, a throughput test reports
\* times that enclose what each producer timed.
THEOREM TimesAreEnclosed == Spec /\ [](now < U64Mod) => TimesEnclose
<1> DEFINE Enclosed ==
      ReportThroughput =>
        LET tr == table'[Cell]
        IN  /\ \A w \in Team : ToNs(meas[w].end - meas[w].start) <= tr.producer_ns
            /\ tr.producer_ns <= tr.total_ns
<1>1. CInv /\ TInv /\ now < U64Mod /\ [Next]_vars => [Enclosed]_vars
  BY ReportEncloses
<1>2. CInv /\ TInv /\ [Next]_vars => TInv'
  BY NextTInv
<1>3. TimesEnclose <=> [][Enclosed]_vars
  BY DEF TimesEnclose
<1> HIDE DEF Enclosed
<1> QED
  BY <1>1, <1>2, <1>3, InitTInv, CellsInvariance, PTL DEF Spec

-----------------------------------------------------------------------------
(* What the producers measure.                                             *)

\* A throughput test: what is expected, what was accepted, and a reading of
\* the clock after the start.
TmMeasured(w) ==
  /\ wpc[w] \in Waits \cup {"logging"} => meas[w].expected = Share /\ meas[w].successes = 0
  /\ wpc[w] = "done" => /\ meas[w].expected = Share /\ meas[w].successes = counted[w]
                        /\ \E d \in Ticks : meas[w].start + d <= meas[w].end

\* A latency test: every entry is sampled by the comparison that follows it.
Samples32 == 0..U32Mod - 1

LmRecord == [results : Seq(Samples32), expected : Nat, success : Nat]

LmMeasured(w) ==
  /\ meas[w] \in LmRecord
  /\ wpc[w] \in Waits => meas[w] = [LmReset EXCEPT !.expected = Share]
  /\ wpc[w] = "logging"
       => /\ meas[w].expected = Share /\ meas[w].success = 0
          /\ Len(meas[w].results) = IF Attempts(w) = 0 THEN 0 ELSE Attempts(w) - 1
          /\ iter[w].prev \in 0..now
  /\ wpc[w] = "done"
       => /\ meas[w].expected = Share /\ meas[w].success = counted[w]
          /\ Len(meas[w].results) = Share

Measured(w) ==
  /\ counted[w] \in 0..Attempts(w)
  /\ Checked => counted[w] = backend[w].accepted
  /\ mpc # "idle" /\ phase = "throughput" => TmMeasured(w)
  /\ mpc # "idle" /\ phase = "latency" => LmMeasured(w)

MInv ==
  /\ SInv /\ TInv
  /\ DOMAIN counted = Workers
  /\ \A w \in Workers : Measured(w)

LEMMA InitMInv == Init => MInv
<1> SUFFICES ASSUME Init PROVE MInv
  OBVIOUS
<1>1. SInv /\ TInv
  BY InitSInv, InitTInv
<1>2. mpc = "idle" /\ DOMAIN counted = Workers
  BY DEF Init, H!Init
<1>3. ASSUME NEW w \in Workers PROVE Measured(w)
  <2>1. counted[w] = 0 /\ backend[w] = NoEntries
    BY DEF Init
  <2> QED
    BY <1>2, <2>1 DEF Measured, NoEntries, Attempts
<1> QED
  BY <1>1, <1>2, <1>3 DEF MInv

\* A producer that a step does not concern keeps what it measured.
LEMMA StaysMeasured ==
  ASSUME NEW w \in Workers, Measured(w), now \in Nat, now' \in Nat, now <= now',
         UNCHANGED <<meas[w], iter[w], counted[w], backend[w], tc>>,
         wpc'[w] = wpc[w] \/ {wpc[w], wpc'[w]} \subseteq Waits,
         mpc' # "idle" => mpc # "idle" /\ phase' = phase
  PROVE  Measured(w)'
<1>1. Attempts(w)' = Attempts(w) /\ Share' = Share
  BY DEF Attempts, Share
<1>2. TmMeasured(w) /\ phase' = phase => TmMeasured(w)'
  BY <1>1 DEF TmMeasured, Waits
<1>3. LmMeasured(w) /\ phase' = phase => LmMeasured(w)'
  <2> SUFFICES ASSUME LmMeasured(w) PROVE LmMeasured(w)'
    OBVIOUS
  <2>1. meas'[w] = meas[w] /\ iter'[w] = iter[w]
    OBVIOUS
  <2> QED
    BY <1>1, <2>1 DEF LmMeasured, Waits
<1> QED
  BY <1>1, <1>2, <1>3 DEF Measured

LEMMA EnterMeasures ==
  ASSUME MInv, BeginThroughput \/ BeginLatency, NEW w \in Workers
  PROVE  DOMAIN counted' = Workers /\ Measured(w)'
<1>1. /\ wpc'[w] = "none" /\ phase' = phase /\ DOMAIN counted' = Workers
      /\ backend'[w] = NoEntries /\ counted'[w] = 0
  BY DEF BeginThroughput, BeginLatency, Enter, H!Call, Workers
<1>2. phase = "latency" => meas'[w] = LmReset
  BY DEF BeginThroughput, BeginLatency, Enter
<1>3. LmReset \in LmRecord
  BY DEF LmReset, LmRecord
<1>4. Attempts(w)' = 0
  BY <1>1 DEF Attempts, NoEntries
<1>5. phase' = "throughput" => TmMeasured(w)'
  BY <1>1 DEF TmMeasured, Waits
<1>6. phase' = "latency" => LmMeasured(w)'
  BY <1>1, <1>2, <1>3 DEF LmMeasured, Waits
<1> QED
  BY <1>1, <1>4, <1>5, <1>6 DEF Measured, NoEntries

LEMMA StartMeasures ==
  ASSUME MInv, MsgsFit, NEW p \in Workers, Prepared(p), mpc # "idle", tc' = tc,
         wpc' = [wpc EXCEPT ![p] = "prepare"], NEW w \in Workers,
         wpc[p] = "none"
  PROVE  DOMAIN counted' = Workers /\ Measured(w)'
<1>1. /\ UNCHANGED <<now, iter, counted, backend, phase>>
      /\ meas' = [meas EXCEPT ![p] = IF phase = "throughput"
                                     THEN TmPrepare(meas[p], Share)
                                     ELSE LmPrepare(meas[p], Share)]
      /\ DOMAIN meas = Workers /\ DOMAIN counted = Workers /\ DOMAIN wpc = Workers
      /\ now \in Nat
  BY DEF Prepared, suite, MInv, SInv, Typed, Frame, TInv
<1>2. CASE w # p
  BY <1>1, <1>2, StaysMeasured DEF MInv
<1>3. CASE w = p
  <2>1. Share \in Nat /\ 0 < Share /\ ToInt(Share) = Share
    BY ShareFits DEF MInv, SInv, Frame
  <2>2. wpc'[p] = "prepare" /\ Share' = Share /\ Attempts(p)' = Attempts(p)
    BY <1>1 DEF Share, Attempts
  <2>3. phase = "throughput" => TmMeasured(p)'
    <3> SUFFICES ASSUME phase = "throughput" PROVE TmMeasured(p)'
      OBVIOUS
    <3>1. meas'[p] = [TmReset EXCEPT !.expected = Share]
      BY <1>1, <2>1 DEF TmPrepare
    <3> QED
      BY <2>2, <3>1 DEF TmMeasured, TmReset
  <2>4. phase = "latency" => LmMeasured(p)'
    <3> SUFFICES ASSUME phase = "latency" PROVE LmMeasured(p)'
      OBVIOUS
    <3>1. meas'[p] = [LmReset EXCEPT !.expected = Share]
      BY <1>1 DEF LmPrepare
    <3>2. meas'[p] \in LmRecord
      <4>1. meas'[p] = [results |-> <<>>, expected |-> Share, success |-> 0]
        BY <3>1 DEF LmReset
      <4> QED
        BY <2>1, <4>1 DEF LmRecord
    <3> QED
      BY <2>2, <3>1, <3>2 DEF LmMeasured
  <2> QED
    BY <1>1, <1>3, <2>2, <2>3, <2>4 DEF Measured, MInv
<1> QED
  BY <1>1, <1>2, <1>3

LEMMA BeginMeasures ==
  ASSUME MInv, NEW p \in Workers, StartLogging(p), NEW w \in Workers
  PROVE  DOMAIN counted' = Workers /\ Measured(w)'
<1>1. /\ wpc[p] = "go" /\ wpc' = [wpc EXCEPT ![p] = "logging"]
      /\ UNCHANGED <<tc, mpc, counted, backend, phase>>
      /\ DOMAIN iter = Workers /\ DOMAIN meas = Workers /\ DOMAIN counted = Workers
      /\ DOMAIN wpc = Workers
      /\ \A v \in Workers : v # p => meas'[v] = meas[v] /\ iter'[v] = iter[v]
  BY DEF StartLogging, H!StartLogging, suite, MInv, SInv, Typed, Frame
<1>2. mpc # "idle"
  BY <1>1 DEF MInv, SInv, Frame
<1>3. now \in Nat /\ now' \in Nat /\ now <= now'
  <2>1. now \in Nat
    BY DEF MInv, TInv
  <2>2. phase # "throughput" => now' = now
    BY DEF StartLogging
  <2> QED
    BY <2>1, <2>2, ReadingLater DEF StartLogging
<1>4. CASE w # p
  BY <1>1, <1>3, <1>4, StaysMeasured DEF MInv
<1>5. CASE w = p
  <2>1. wpc'[p] = "logging" /\ Share' = Share /\ Attempts(p)' = Attempts(p)
    BY <1>1 DEF Share, Attempts
  <2>2. phase = "throughput" => TmMeasured(p)'
    <3> SUFFICES ASSUME phase = "throughput" PROVE TmMeasured(p)'
      OBVIOUS
    <3>1. meas'[p] = [meas[p] EXCEPT !.start = now']
      BY <1>1 DEF StartLogging, TmEnd
    <3>2. meas[p].expected = Share /\ meas[p].successes = 0
      BY <1>1, <1>2 DEF MInv, Measured, TmMeasured, Waits
    <3>3. DOMAIN meas[p] = {"start", "end", "expected", "successes"}
      BY <1>2 DEF MInv, TInv, Stamped
    <3> QED
      BY <2>1, <3>1, <3>2, <3>3 DEF TmMeasured, Waits
  <2>3. phase = "latency" => LmMeasured(p)'
    <3> SUFFICES ASSUME phase = "latency" PROVE LmMeasured(p)'
      OBVIOUS
    <3>1. meas'[p] = meas[p] /\ iter'[p] = LmBegin(meas[p]) /\ now' = now
      BY <1>1 DEF StartLogging
    <3>2. meas[p] = [LmReset EXCEPT !.expected = Share] /\ meas[p] \in LmRecord
      BY <1>1, <1>2 DEF MInv, Measured, LmMeasured, Waits
    <3>3. /\ meas[p].expected = Share /\ meas[p].success = 0 /\ Len(meas[p].results) = 0
      BY <3>2 DEF LmReset
    <3>4. Attempts(p) = 0
      BY <1>1 DEF MInv, SInv, Working
    <3>5. iter'[p].prev \in 0..now'
      BY <1>3, <3>1 DEF LmBegin
    <3> QED
      BY <2>1, <3>1, <3>2, <3>3, <3>4, <3>5 DEF LmMeasured, Waits
  <2> QED
    BY <1>1, <1>5, <2>1, <2>2, <2>3 DEF Measured, MInv
<1> QED
  BY <1>1, <1>4, <1>5

\* The comparison of a latency iterator takes no sample before the first entry,
\* and one after every entry.
LEMMA ComparisonMeasures ==
  ASSUME MInv, MsgsFit, NEW p \in Workers, wpc[p] = "logging", phase = "latency",
         NEW r \in Comparisons(p)
  PROVE  LET lm == Compared(p, r).lm
             it == Compared(p, r).iter
         IN  /\ lm \in LmRecord /\ lm.expected = Share /\ lm.success = 0
             /\ Len(lm.results) = Attempts(p)
             /\ LmFirst(iter[p]) <=> Attempts(p) = 0
             /\ it.prev = r[2]
<1>1. /\ meas[p] \in LmRecord /\ meas[p].expected = Share /\ meas[p].success = 0
      /\ Len(meas[p].results) = IF Attempts(p) = 0 THEN 0 ELSE Attempts(p) - 1
      /\ iter[p].prev \in 0..now
  <2>1. mpc # "idle"
    BY DEF MInv, SInv, Frame
  <2> QED
    BY <2>1 DEF MInv, Measured, LmMeasured
<1>2. /\ iter[p].remaining \in Nat /\ iter[p].remaining + Attempts(p) = Share
      /\ DOMAIN iter[p] = {"remaining", "expected", "prev"} /\ iter[p].expected = Share
      /\ Attempts(p) \in Nat /\ Share \in Nat
  <2>1. mpc # "idle"
    BY DEF MInv, SInv, Frame
  <2> QED
    BY <2>1, ShareFits DEF MInv, SInv, Working, Typed, Attempts, Frame
<1>3. LmFirst(iter[p]) <=> Attempts(p) = 0
  BY <1>2 DEF LmFirst
<1>4. Compared(p, r).iter.prev = r[2]
  BY <1>2 DEF Compared, LmCompare
<1>5. CASE Attempts(p) = 0
  BY <1>1, <1>3, <1>4, <1>5 DEF Compared, LmCompare
<1>6. CASE Attempts(p) # 0
  <2> DEFINE sample == ToU32(ToU64(r[1] - iter[p].prev))
             longer == Append(meas[p].results, sample)
  <2>1. r[1] \in Nat
    <3>1. now \in Nat /\ \A d \in Ticks : d \in Nat
      BY SuiteAssumption DEF MInv, TInv
    <3> QED
      BY <3>1 DEF Comparisons
  <2>2. sample \in Samples32
    <3>1. r[1] - iter[p].prev \in Int
      BY <1>1, <2>1 DEF MInv, TInv
    <3>2. \A i \in Int : ToU64(i) \in Nat
      BY WidthAssumption DEF ToU64
    <3>3. \A i \in Nat : ToU32(i) \in Samples32
      BY WidthAssumption DEF ToU32, Samples32
    <3> QED
      BY <3>1, <3>2, <3>3
  <2>3. meas[p].results \in Seq(Samples32)
    BY <1>1 DEF LmRecord
  <2>4. longer \in Seq(Samples32) /\ Len(longer) = Len(meas[p].results) + 1
    <3> HIDE DEF sample
    <3> QED
      BY <2>2, <2>3, AppendElement
  <2>5. Compared(p, r).lm = [meas[p] EXCEPT !.results = longer]
    BY <1>3, <1>6 DEF Compared, LmCompare, LmAddSample
  <2> HIDE DEF longer
  <2>6. /\ Compared(p, r).lm \in LmRecord /\ Compared(p, r).lm.results = longer
        /\ Compared(p, r).lm.expected = Share /\ Compared(p, r).lm.success = 0
    BY <1>1, <2>4, <2>5 DEF LmRecord
  <2> QED
    BY <1>1, <1>2, <1>3, <1>4, <1>6, <2>4, <2>6
<1> QED
  BY <1>5, <1>6, <1>2

LEMMA LogMeasures ==
  ASSUME MInv, MsgsFit, NEW p \in Workers, LogThroughput(p) \/ LogLatency(p),
         NEW w \in Workers
  PROVE  DOMAIN counted' = Workers /\ Measured(w)'
<1>1. /\ UNCHANGED <<tc, mpc, wpc, phase>> /\ wpc[p] = "logging"
      /\ DOMAIN meas = Workers /\ DOMAIN iter = Workers /\ DOMAIN counted = Workers
      /\ phase = "throughput" => LogThroughput(p) /\ meas' = meas /\ now' = now
      /\ phase = "latency" => LogLatency(p)
      /\ phase \in {"throughput", "latency"}
  BY DEF LogThroughput, LogLatency, Entry, harness, suite, MInv, SInv, Typed
<1>2. /\ \A v \in Workers : v # p => /\ backend'[v] = backend[v] /\ counted'[v] = counted[v]
                                     /\ iter'[v] = iter[v] /\ meas'[v] = meas[v]
      /\ DOMAIN counted' = Workers
      /\ Attempts(p)' = Attempts(p) + 1 /\ Attempts(p) \in Nat
      /\ counted'[p] \in {counted[p], counted[p] + 1}
      /\ Checked /\ counted[p] = backend[p].accepted => counted'[p] = backend'[p].accepted
  <2>1. PICK accepted \in Outcomes :
          /\ backend' = [backend EXCEPT ![p][Answer(accepted)] = @ + 1]
          /\ counted' = [counted EXCEPT ![p] =
               IF accepted \/ ~Checked THEN @ + 1 ELSE @]
    BY DEF LogThroughput, LogLatency, Entry
  <2>2. backend \in [Workers -> [accepted : Nat, refused : Nat]] /\ accepted \in BOOLEAN
    BY SuiteAssumption DEF MInv, SInv, Typed
  <2>3. /\ backend[p].accepted \in Nat /\ backend[p].refused \in Nat
        /\ counted'[p] = IF accepted \/ ~Checked THEN counted[p] + 1 ELSE counted[p]
        /\ \A v \in Workers : v # p => backend'[v] = backend[v] /\ counted'[v] = counted[v]
        /\ DOMAIN counted' = Workers
    BY <1>1, <2>1, <2>2
  <2>4. \A v \in Workers : v # p => iter'[v] = iter[v] /\ meas'[v] = meas[v]
    BY <1>1 DEF LogThroughput, LogLatency
  <2>5. CASE accepted
    <3>1. backend'[p].accepted = backend[p].accepted + 1 /\ backend'[p].refused = backend[p].refused
      BY <2>1, <2>2, <2>5 DEF Answer
    <3> QED
      BY <2>3, <2>4, <2>5, <3>1 DEF Attempts
  <2>6. CASE ~accepted
    <3>1. backend'[p].accepted = backend[p].accepted /\ backend'[p].refused = backend[p].refused + 1
      BY <2>1, <2>2, <2>6 DEF Answer
    <3> QED
      BY <2>3, <2>4, <2>6, <3>1 DEF Attempts
  <2> QED
    BY <2>5, <2>6
<1>3. now \in Nat /\ now' \in Nat /\ now <= now'
  <2>1. now \in Nat
    BY DEF MInv, TInv
  <2> QED
    BY <1>1, <2>1, ComparisonsLater DEF LogLatency
<1>4. mpc # "idle"
  BY <1>1 DEF MInv, SInv, Frame
<1>5. CASE w # p
  BY <1>1, <1>2, <1>3, <1>5, StaysMeasured DEF MInv
<1>6. CASE w = p
  <2>1. Share' = Share /\ wpc'[p] = "logging"
    BY <1>1 DEF Share
  <2>2. counted'[p] \in 0..Attempts(p)'
    BY <1>2 DEF MInv, Measured
  <2>3. phase = "throughput" => TmMeasured(p)'
    BY <1>1, <1>4, <2>1 DEF MInv, Measured, TmMeasured, Waits
  <2>4. phase = "latency" => LmMeasured(p)'
    <3> SUFFICES ASSUME phase = "latency" PROVE LmMeasured(p)'
      OBVIOUS
    <3>1. PICK r \in Comparisons(p) :
            /\ meas' = [meas EXCEPT ![p] = Compared(p, r).lm]
            /\ iter' = [iter EXCEPT ![p] = LmNext(Compared(p, r).iter)]
            /\ now' = r[2]
      BY <1>1 DEF LogLatency
    <3>2. /\ Compared(p, r).lm \in LmRecord /\ Compared(p, r).lm.expected = Share
          /\ Compared(p, r).lm.success = 0
          /\ Len(Compared(p, r).lm.results) = Attempts(p)
          /\ Compared(p, r).iter.prev = r[2]
      BY <1>1, ComparisonMeasures
    <3>3. meas'[p] = Compared(p, r).lm /\ iter'[p].prev = now'
      BY <1>1, <3>1, <3>2 DEF LmNext
    <3>4. wpc'[p] \notin Waits /\ wpc'[p] # "done"
      BY <2>1 DEF Waits
    <3> QED
      BY <1>2, <1>3, <2>1, <3>2, <3>3, <3>4 DEF LmMeasured
  <2> QED
    BY <1>1, <1>2, <1>6, <2>2, <2>3, <2>4 DEF Measured, MInv
<1> QED
  BY <1>2, <1>5, <1>6

LEMMA StopMeasures ==
  ASSUME MInv, MsgsFit, NEW p \in Workers, StopThroughput(p) \/ StopLatency(p),
         NEW w \in Workers
  PROVE  DOMAIN counted' = Workers /\ Measured(w)'
<1>1. /\ wpc[p] = "logging" /\ wpc' = [wpc EXCEPT ![p] = "done"]
      /\ UNCHANGED <<tc, mpc, counted, backend, phase>>
      /\ DOMAIN meas = Workers /\ DOMAIN counted = Workers
      /\ \A v \in Workers : v # p => iter'[v] = iter[v] /\ meas'[v] = meas[v]
      /\ phase = "throughput" => StopThroughput(p)
      /\ phase = "latency" => StopLatency(p)
      /\ DOMAIN wpc = Workers
  BY DEF StopThroughput, StopLatency, H!StopLogging, suite, MInv, SInv, Typed, Frame
<1>2. mpc # "idle" /\ tc \in 1..MaxThreads
  BY <1>1 DEF MInv, SInv, Frame
<1>3. now \in Nat /\ now' \in Nat /\ now <= now'
  <2>1. now \in Nat
    BY DEF MInv, TInv
  <2> QED
    BY <1>1, <2>1, ReadingLater, ComparisonsLater DEF StopThroughput, StopLatency
<1>4. CASE w # p
  BY <1>1, <1>3, <1>4, StaysMeasured DEF MInv
<1>5. CASE w = p
  <2>1. Share' = Share /\ wpc'[p] = "done" /\ Attempts(p)' = Attempts(p)
    BY <1>1 DEF Share, Attempts
  <2>2. /\ iter[p].remaining \in Nat /\ iter[p].remaining + Attempts(p) = Share
        /\ Share \in Nat /\ 0 < Share /\ Attempts(p) \in Nat
        /\ \A n \in Nat : n <= Share => ToU64(n) = n
    BY <1>1, <1>2, ShareFits DEF MInv, SInv, Working, Typed, Attempts
  <2>3. counted[p] \in Nat /\ counted[p] <= Share /\ ToU64(counted[p]) = counted[p]
    BY <2>2 DEF MInv, Measured
  <2>4. phase = "throughput" => TmMeasured(p)'
    <3> SUFFICES ASSUME phase = "throughput" PROVE TmMeasured(p)'
      OBVIOUS
    <3> DEFINE stopped == [meas[p] EXCEPT !.end = now']
    <3>1. meas'[p] = [stopped EXCEPT
                        !.successes = ToU64(stopped.successes + ToU32(counted[p]))]
      BY <1>1 DEF StopThroughput, TmStop, TmAddSuccesses
    <3>2. /\ DOMAIN meas[p] = {"start", "end", "expected", "successes"}
          /\ meas[p].expected = Share /\ meas[p].successes = 0
          /\ meas[p].start \in 0..now
      BY <1>1, <1>2 DEF MInv, Measured, TmMeasured, Waits, TInv, Stamped
    <3>3. ToU32(counted[p]) = counted[p]
      <4>1. Share < U32Mod
        <5>1. Share <= Msgs
          BY <1>2, Widths DEF Share
        <5> QED
          BY <2>2, <5>1, Widths DEF MsgsFit
      <4> QED
        BY <2>2, <2>3, <4>1, Widths DEF ToU32
    <3>4. /\ meas'[p].expected = Share /\ meas'[p].successes = counted[p]
          /\ meas'[p].start = meas[p].start /\ meas'[p].end = now'
      BY <2>3, <3>1, <3>2, <3>3
    <3>5. \E d \in Ticks : meas[p].start + d <= now'
      <4>1. PICK d \in Ticks : now' = now + d
        BY <1>1 DEF StopThroughput, Reading
      <4> QED
        BY <1>3, <3>2, <4>1, SuiteAssumption
    <3> QED
      BY <1>1, <2>1, <3>4, <3>5 DEF TmMeasured, Waits
  <2>5. phase = "latency" => LmMeasured(p)'
    <3> SUFFICES ASSUME phase = "latency" PROVE LmMeasured(p)'
      OBVIOUS
    <3>1. PICK r \in Comparisons(p) :
            /\ ~Compared(p, r).more
            /\ meas' = [meas EXCEPT ![p] = LmAddSuccesses(Compared(p, r).lm, counted[p])]
      BY <1>1 DEF StopLatency
    <3> DEFINE lm == Compared(p, r).lm
    <3>2. /\ lm \in LmRecord /\ lm.expected = Share /\ lm.success = 0
          /\ Len(lm.results) = Attempts(p)
      BY <1>1, ComparisonMeasures
    <3>3. iter[p].remaining = 0
      BY <3>1 DEF Compared, LmCompare
    <3> HIDE DEF lm
    <3>4. meas'[p] = [lm EXCEPT !.success = ToU64(lm.success + counted[p])]
      BY <1>1, <3>1 DEF LmAddSuccesses, lm
    <3>5. /\ meas'[p] \in LmRecord /\ meas'[p].results = lm.results
          /\ meas'[p].expected = Share /\ meas'[p].success = counted[p]
      BY <2>3, <3>2, <3>4 DEF LmRecord
    <3> QED
      BY <1>1, <2>1, <2>2, <3>2, <3>3, <3>5 DEF LmMeasured, Waits
  <2> QED
    BY <1>1, <1>5, <2>1, <2>4, <2>5 DEF Measured, MInv
<1> QED
  BY <1>1, <1>4, <1>5

\* The steps that measure nothing.
LEMMA UnmeasuredKeeps ==
  ASSUME MInv, UNCHANGED <<now, tc, meas, iter, counted, backend>>,
         \A w \in Workers : wpc'[w] = wpc[w] \/ {wpc[w], wpc'[w]} \subseteq Waits,
         mpc' # "idle" => mpc # "idle" /\ phase' = phase
  PROVE  DOMAIN counted' = Workers /\ \A w \in Workers : Measured(w)'
<1>1. now \in Nat /\ now' \in Nat /\ now <= now'
  BY DEF MInv, TInv
<1> QED
  BY <1>1, StaysMeasured DEF MInv

LEMMA NextMInv == MsgsFit /\ CInv /\ MInv /\ [Next]_vars => MInv'
<1> SUFFICES ASSUME MsgsFit, CInv, MInv, [Next]_vars
             PROVE  DOMAIN counted' = Workers /\ \A w \in Workers : Measured(w)'
  BY NextSInv, NextTInv DEF MInv
<1>1. CASE BeginThroughput \/ BeginLatency
  <2>1. 0 \in Workers
    BY SuiteAssumption DEF Workers, H!Workers
  <2> QED
    BY <1>1, <2>1, EnterMeasures
<1>2. CASE Spawn
  <2>1. H!Spawn /\ Prepared(next)
    BY <1>2 DEF Spawn
  <2>2. /\ mpc = "spawn" /\ tc' = tc /\ wpc' = [wpc EXCEPT ![next] = "prepare"]
    BY <2>1 DEF H!Spawn
  <2>3. next \in Workers
    BY <2>2, Widths DEF MInv, SInv, Frame, Workers, H!Workers
  <2>4. wpc[next] = "none"
    BY <2>2, <2>3 DEF MInv, SInv, Frame
  <2> QED
    BY <2>1, <2>2, <2>3, <2>4, StartMeasures
<1>3. CASE RunInline
  <2>1. H!RunInline /\ Prepared(0)
    BY <1>3 DEF RunInline
  <2>2. /\ mpc = "inline" /\ tc' = tc /\ wpc' = [wpc EXCEPT ![0] = "prepare"]
    BY <2>1 DEF H!RunInline
  <2>3. 0 \in Workers
    BY SuiteAssumption DEF Workers, H!Workers
  <2>4. wpc[0] = "none"
    BY <2>2, <2>3 DEF MInv, SInv, Frame
  <2> QED
    BY <2>1, <2>2, <2>3, <2>4, StartMeasures
<1>4. ASSUME NEW p \in Workers, StartLogging(p)
      PROVE  DOMAIN counted' = Workers /\ \A w \in Workers : Measured(w)'
  BY <1>4, BeginMeasures
<1>5. ASSUME NEW p \in Workers, LogThroughput(p) \/ LogLatency(p)
      PROVE  DOMAIN counted' = Workers /\ \A w \in Workers : Measured(w)'
  BY <1>5, LogMeasures
<1>6. ASSUME NEW p \in Workers, StopThroughput(p) \/ StopLatency(p)
      PROVE  DOMAIN counted' = Workers /\ \A w \in Workers : Measured(w)'
  BY <1>6, StopMeasures
<1>7. CASE CreateSucceeds \/ CreateFails \/ MainWait \/ Destroy
  <2>1. /\ UNCHANGED <<now, tc, wpc, meas, iter, counted, backend, phase>> /\ mpc # "idle"
    <3>1. CASE CreateSucceeds
      BY <3>1 DEF CreateSucceeds, H!CreateSucceeds, suite, measuring
    <3>2. CASE CreateFails
      BY <3>2 DEF CreateFails, H!CreateFails, measuring
    <3>3. CASE MainWait
      BY <3>3 DEF MainWait, H!SeeAllInitialized, H!Release, H!Join, H!InlineDone, suite,
                  measuring
    <3>4. CASE Destroy
      BY <3>4 DEF Destroy, H!Destroy, suite, measuring
    <3> QED
      BY <1>7, <3>1, <3>2, <3>3, <3>4
  <2> QED
    BY <2>1, UnmeasuredKeeps
<1>8. CASE Terminate
  <2>1. /\ UNCHANGED <<tc, wpc, meas, iter, counted, backend, phase>> /\ mpc # "idle"
        /\ now \in Nat
    BY <1>8 DEF Terminate, H!Terminate, suite, measuring, MInv, TInv
  <2>2. now' \in Nat /\ now <= now'
    BY <1>8, <2>1, ReadingLater DEF Terminate
  <2> QED
    BY <2>1, <2>2, StaysMeasured DEF MInv
<1>9. CASE ReportThroughput \/ ReportLatency
  <2>1. UNCHANGED <<now, tc, wpc, meas, iter, counted, backend>> /\ mpc' = "idle"
    BY <1>9 DEF ReportThroughput, ReportLatency, H!Return, measuring
  <2> QED
    BY <2>1, UnmeasuredKeeps
<1>10. ASSUME NEW p \in Workers, WorkerWait(p)
       PROVE  DOMAIN counted' = Workers /\ \A w \in Workers : Measured(w)'
  <2>1. /\ UNCHANGED <<now, meas, iter, counted, backend, tc, phase, mpc>>
        /\ \E stage \in Waits : wpc' = [wpc EXCEPT ![p] = stage]
        /\ wpc[p] \in Waits /\ DOMAIN wpc = Workers
    BY <1>10 DEF WorkerWait, H!PrepareThread, H!Arrive, H!SeeRelease, measuring, suite, Waits,
                 MInv, SInv, Frame
  <2>2. \A w \in Workers : wpc'[w] = wpc[w] \/ {wpc[w], wpc'[w]} \subseteq Waits
    BY <2>1
  <2> QED
    BY <2>1, <2>2, UnmeasuredKeeps
<1>11. CASE UNCHANGED vars
  <2>1. UNCHANGED <<now, tc, wpc, mpc, meas, iter, counted, backend, phase>>
    BY <1>11 DEF vars, harness, suite, measuring
  <2> QED
    BY <2>1, UnmeasuredKeeps
<1> QED
  BY <1>1, <1>2, <1>3, <1>4, <1>5, <1>6, <1>7, <1>8, <1>9, <1>10, <1>11
  DEF Next, MainStep, WorkerStep

\* What the producers of a test have measured agrees, at every step, with what
\* they have logged, for every number of messages that an int holds.
THEOREM MeasuresInvariance == ASSUME MsgsFit PROVE Spec => []MInv
  BY InitMInv, NextMInv, CellsInvariance, PTL DEF Spec

-----------------------------------------------------------------------------
(* The faults.                                                             *)

\* A test that reports has its whole team, done.
LEMMA TeamDone ==
  ASSUME MInv, mpc = "report"
  PROVE  /\ tc \in 1..MaxThreads /\ Team = 0..tc - 1 /\ Team \subseteq Workers
         /\ IsFiniteSet(Team) /\ Cardinality(Team) = tc
         /\ \A w \in Team : wpc[w] = "done" /\ Measured(w) /\ Attempts(w) = Share
<1>1. tc \in 1..MaxThreads
  BY DEF MInv, SInv, Frame
<1>2. Team = 0..tc - 1 /\ Team \subseteq Workers
  BY <1>1, Widths DEF Team, H!Team, Workers, H!Workers
<1>3. IsFiniteSet(Team) /\ Cardinality(Team) = tc
  BY <1>1, <1>2, FS_Interval
<1>4. \A w \in Team : w \in Workers /\ w < tc
  BY <1>1, <1>2
<1>5. \A w \in Team : wpc[w] = "done" /\ Measured(w)
  BY <1>4 DEF MInv, SInv, Frame
<1>6. \A w \in Team : Attempts(w) = Share
  BY <1>4, <1>5 DEF MInv, SInv, Working
<1> QED
  BY <1>1, <1>2, <1>3, <1>5, <1>6

\* The shares of the team are not more than the messages.
LEMMA SharesOfTeam ==
  ASSUME MsgsFit, tc \in 1..MaxThreads
  PROVE  /\ Share \in Nat /\ 0 < Share /\ Share * tc \in Nat
         /\ Share <= Share * tc /\ Share * tc <= Msgs
         /\ Share * tc < U32Mod \div 2 /\ Share * tc < U32Mod /\ Share * tc < U64Mod
         /\ Share < U32Mod \div 2
<1>1. Share \in Nat /\ 0 < Share
  BY ShareFits
<1>2. Share * tc <= Msgs /\ Share * tc \in Nat
  <2> DEFINE n == Msgs \div tc
  <2>1. n \in Nat /\ n * tc <= Msgs /\ n * tc \in Nat
    BY Widths
  <2> QED
    BY <2>1 DEF Share
<1>3. Share <= Share * tc
  <2>1. PICK more \in Nat : tc = 1 + more
    <3>1. tc - 1 \in Nat /\ tc = 1 + (tc - 1)
      BY Widths
    <3> QED
      BY <3>1
  <2>2. Share * (1 + more) = Share + Share * more /\ Share * more \in Nat
    BY <1>1, <2>1
  <2> QED
    BY <1>1, <2>1, <2>2
<1> QED
  BY <1>1, <1>2, <1>3, Widths DEF MsgsFit

\* What each producer finds missing is what its logger refused, when it counts
\* what was accepted; the sum of all does not wrap around.
LEMMA FaultsAreRefused ==
  ASSUME Checked, MsgsFit, MInv, mpc = "report", phase = "throughput"
  PROVE  TeamFaults = Refused
<1>1. /\ tc \in 1..MaxThreads /\ Team \subseteq Workers
      /\ IsFiniteSet(Team) /\ Cardinality(Team) = tc
  BY TeamDone
<1>2. /\ Share \in Nat /\ Share * tc \in Nat /\ Share <= Share * tc
      /\ Share < U32Mod \div 2 /\ Share * tc < U64Mod
  BY <1>1, SharesOfTeam
<1>3. ASSUME NEW w \in Team
      PROVE  TmFaults(meas[w]) = backend[w].refused /\ backend[w].refused \in 0..Share
  <2>1. /\ w \in Workers /\ wpc[w] = "done" /\ Measured(w) /\ Attempts(w) = Share
    BY <1>1, TeamDone
  <2>2. backend[w].accepted \in Nat /\ backend[w].refused \in Nat
    BY <2>1 DEF MInv, SInv, Typed
  <2>3. meas[w].expected = Share /\ meas[w].successes = backend[w].accepted
    BY <2>1 DEF Measured, TmMeasured
  <2>4. backend[w].refused \in 0..Share /\ Share - backend[w].accepted = backend[w].refused
    BY <1>2, <2>1, <2>2 DEF Attempts
  <2>5. ToInt(backend[w].refused) = backend[w].refused
    <3>1. backend[w].refused < U32Mod \div 2 /\ backend[w].refused < U32Mod
      BY <1>2, <2>4, Widths
    <3>2. backend[w].refused % U32Mod = backend[w].refused
      BY <2>2, <3>1, Widths
    <3> QED
      BY <3>1, <3>2 DEF ToInt
  <2> QED
    BY <2>3, <2>4, <2>5 DEF TmFaults
<1>4. [w \in Team |-> TmFaults(meas[w])] = [w \in Team |-> backend[w].refused]
  BY <1>3
<1>5. Refused \in 0..Share * tc
  <2> DEFINE refusals == [w \in Team |-> backend[w].refused]
  <2>1. refusals \in [Team -> 0..Share]
    BY <1>3
  <2>2. SumFunction(refusals) \in 0..Share * Cardinality(Team)
    <3> HIDE DEF refusals
    <3> QED
      BY <1>1, <1>2, <2>1, SumBounded
  <2> QED
    BY <1>1, <2>2 DEF Refused
<1>6. ToU64(Refused) = Refused
  BY <1>2, <1>5, Widths DEF ToU64
<1> QED
  BY <1>4, <1>6 DEF TeamFaults, Refused

\* For every logger that counts what was accepted, every number of threads and
\* every pattern of refusals, a throughput test reports what was refused.
THEOREM FaultsAreReported ==
  ASSUME Checked, MsgsFit PROVE Spec => ThroughputFaultsReported
<1> DEFINE Reported == ReportThroughput => table'[Cell].throughput_faults = Refused
<1>1. ASSUME CInv, MInv, ReportThroughput
      PROVE  table'[Cell].throughput_faults = Refused
  BY <1>1, FaultsAreRefused, ThroughputReported
<1>2. CInv /\ MInv /\ [Next]_vars => [Reported]_vars
  BY <1>1
<1>3. ThroughputFaultsReported <=> [][Reported]_vars
  BY DEF ThroughputFaultsReported
<1> HIDE DEF Reported
<1> QED
  BY <1>2, <1>3, MeasuresInvariance, CellsInvariance, PTL DEF Spec

\* What a throughput test sends lacks the remainder of the division.
LEMMA RemainderIsLost ==
  ASSUME MsgsFit, MInv, mpc = "report"
  PROVE  SumFunction([w \in Team |-> Attempts(w)]) = Msgs - (Msgs % tc)
<1>1. /\ tc \in 1..MaxThreads /\ IsFiniteSet(Team) /\ Cardinality(Team) = tc
      /\ \A w \in Team : Attempts(w) = Share
  BY TeamDone
<1>2. Share \in Nat
  BY <1>1, SharesOfTeam
<1>3. SumFunction([w \in Team |-> Attempts(w)]) = Share * tc
  <2> DEFINE sent == [w \in Team |-> Attempts(w)]
  <2>1. sent \in [Team -> {Share}]
    BY <1>1
  <2> HIDE DEF sent
  <2>2. SumFunction(sent) = Share * Cardinality(Team)
    BY <1>1, <1>2, <2>1, SumOfEqual
  <2> QED
    BY <1>1, <2>2 DEF sent
<1>4. Share * tc = Msgs - (Msgs % tc)
  <2>1. tc \in Nat \ {0} /\ Msgs \in Nat
    BY <1>1, Widths
  <2>2. \A d \in Nat \ {0}, n \in Nat : (n \div d) * d = n - (n % d)
    OBVIOUS
  <2> QED
    BY <2>1, <2>2 DEF Share
<1> QED
  BY <1>3, <1>4

\* All messages are sent when the thread counts divide them; the run
\* lost_remainder shows that not all are otherwise.
THEOREM AllSentWhenDivided ==
  ASSUME MsgsFit
  PROVE  Spec /\ [](tc # 0 => Msgs % tc = 0) => AllMessagesSent
<1> DEFINE Sent == ReportThroughput =>
             SumFunction([w \in Team |-> Attempts(w)]) = table'[Cell].messages
<1>1. ASSUME CInv, MInv, tc # 0 => Msgs % tc = 0, ReportThroughput
      PROVE  SumFunction([w \in Team |-> Attempts(w)]) = table'[Cell].messages
  <2>1. mpc = "report" /\ table'[Cell].messages = Msgs
    BY <1>1, ThroughputReported
  <2>2. tc # 0 /\ Msgs \in Nat
    BY <1>1, <2>1, TeamDone, Widths
  <2> QED
    BY <1>1, <2>1, <2>2, RemainderIsLost
<1>2. CInv /\ MInv /\ (tc # 0 => Msgs % tc = 0) /\ [Next]_vars => [Sent]_vars
  BY <1>1
<1>3. AllMessagesSent <=> [][Sent]_vars
  BY DEF AllMessagesSent
<1> HIDE DEF Sent
<1> QED
  BY <1>2, <1>3, MeasuresInvariance, CellsInvariance, PTL DEF Spec

-----------------------------------------------------------------------------
(* The samples of a latency test, joined and sorted.                       *)

\* What the first n + 1 producers measured, one after another.
JoinOf(lm, n) ==
  /\ lm \in LmRecord
  /\ Len(lm.results) = (n + 1) * Share /\ lm.expected = (n + 1) * Share
  /\ \A w \in 0..n, j \in 1..Share : lm.results[w * Share + j] = meas[w].results[j]

LEMMA JoinTyped ==
  ASSUME NEW lm \in LmRecord, NEW other \in LmRecord
  PROVE  LmJoin(lm, other) \in LmRecord
<1>1. lm.results \o other.results \in Seq(Samples32)
  BY ConcatElements DEF LmRecord
<1>2. ToU64(lm.expected + Len(other.results)) \in Nat
  BY WidthAssumption DEF ToU64, LmRecord
<1>3. ToU64(lm.success + other.success) \in Nat
  BY WidthAssumption DEF ToU64, LmRecord
<1> QED
  BY <1>1, <1>2, <1>3 DEF LmJoin, LmRecord

LEMMA JoinNext ==
  ASSUME NEW n \in Nat, NEW lm, JoinOf(lm, n), meas[n + 1] \in LmRecord,
         Share \in Nat, 0 < Share, (n + 2) * Share < U64Mod,
         Len(meas[n + 1].results) = Share
  PROVE  JoinOf(LmJoin(lm, meas[n + 1]), n + 1)
<1> DEFINE other == meas[n + 1]
           longer == lm.results \o other.results
           size == (n + 1) * Share
<1>1. /\ lm.results \in Seq(Samples32) /\ other.results \in Seq(Samples32)
      /\ Len(lm.results) = size /\ Len(other.results) = Share
  BY DEF JoinOf, LmRecord
<1>2. /\ Len(longer) = size + Share
      /\ \A i \in 1..size : longer[i] = lm.results[i]
      /\ \A i \in 1..Share : longer[size + i] = other.results[i]
  <2>1. PICK a \in Seq(Samples32) : a = lm.results /\ Len(a) = size
    BY <1>1
  <2>2. PICK b \in Seq(Samples32) : b = other.results /\ Len(b) = Share
    BY <1>1
  <2>3. /\ Len(a \o b) = size + Share
        /\ \A i \in 1..size : (a \o b)[i] = a[i]
        /\ \A i \in 1..Share : (a \o b)[size + i] = b[i]
    <3>1. Len(a \o b) = Len(a) + Len(b)
      OBVIOUS
    <3>2. \A i \in 1..Len(a) : (a \o b)[i] = a[i]
      OBVIOUS
    <3>3. \A i \in 1..Len(b) : (a \o b)[Len(a) + i] = b[i]
      OBVIOUS
    <3> HIDE DEF size
    <3> QED
      BY <2>1, <2>2, <3>1, <3>2, <3>3
  <2>4. longer = a \o b
    BY <2>1, <2>2
  <2> HIDE DEF size, other, longer
  <2> QED
    BY <2>1, <2>2, <2>3, <2>4
<1>3. size + Share = (n + 2) * Share /\ size \in Nat
  OBVIOUS
<1>4. LmJoin(lm, other) \in LmRecord /\ LmJoin(lm, other).results = longer
  BY JoinTyped DEF LmJoin, JoinOf
<1>5. LmJoin(lm, other).expected = (n + 2) * Share
  <2>1. LmJoin(lm, other).expected = ToU64(size + Share)
    BY <1>1 DEF LmJoin, JoinOf
  <2> QED
    BY <1>3, <2>1, WidthAssumption DEF ToU64
<1>6. ASSUME NEW w \in 0..n + 1, NEW j \in 1..Share
      PROVE  longer[w * Share + j] = meas[w].results[j]
  <2>1. CASE w = n + 1
    BY <1>2, <2>1
  <2>2. CASE w # n + 1
    <3>1. w \in 0..n /\ w \in Nat /\ w < n + 1
      BY <2>2
    <3>2. w * Share + Share <= size /\ w * Share \in Nat
      BY <3>1, ProductStep
    <3>3. w * Share + j \in 1..size
      BY <1>3, <3>2
    <3> QED
      BY <1>2, <3>1, <3>3 DEF JoinOf
  <2> QED
    BY <2>1, <2>2
<1> DEFINE joined == LmJoin(lm, other)
<1>7. Len(joined.results) = (n + 2) * Share /\ joined.expected = (n + 2) * Share
  BY <1>2, <1>3, <1>4, <1>5
<1>8. n + 1 \in Nat /\ n + 1 + 1 = n + 2
  OBVIOUS
<1>9. \A w \in 0..n + 1, j \in 1..Share : joined.results[w * Share + j] = meas[w].results[j]
  <2> HIDE DEF other, longer
  <2> QED
    BY <1>4, <1>6, Zenon
<1>10. joined \in LmRecord
  BY <1>4
<1> HIDE DEF longer, joined
<1>11. JoinOf(joined, n + 1)
  BY <1>7, <1>8, <1>9, <1>10 DEF JoinOf
<1> QED
  BY <1>11 DEF joined

\* What run_latency joins: the samples of all threads, none lost.
LEMMA JoinedIsAll ==
  ASSUME MsgsFit, MInv, mpc = "report", phase = "latency"
  PROVE  JoinOf(Joined, tc - 1)
<1> DEFINE n == tc - 1
           others == [i \in 1..tc - 1 |-> meas[i]]
           step == [p \in (1..n) \X LmRecord |-> LmJoin(p[2], others[p[1]])]
           Solves(it) == it = [s \in SUBSET DOMAIN others |->
             IF s = {} THEN meas[0]
             ELSE LET x == Max(s) IN LmJoin(it[s \ {x}], others[x])]
<1>1. /\ tc \in 1..MaxThreads /\ n \in Nat /\ Team = 0..n
      /\ Share \in Nat /\ 0 < Share /\ Share * tc < U64Mod
      /\ \A w \in 0..n : /\ meas[w] \in LmRecord /\ meas[w].expected = Share
                         /\ Len(meas[w].results) = Share
  <2>1. tc \in 1..MaxThreads /\ Team = 0..tc - 1
    BY TeamDone
  <2>2. \A w \in Team : LmMeasured(w) /\ wpc[w] = "done"
    BY TeamDone DEF Measured
  <2> QED
    BY <2>1, <2>2, SharesOfTeam, Widths DEF LmMeasured
<1>2. DOMAIN others = 1..n /\ \A i \in 1..n : others[i] = meas[i] /\ others[i] \in LmRecord
  BY <1>1
<1> HIDE DEF others
<1>3. PICK it : IsFold(it, 1..n, LmRecord, meas[0], step, Lasts(n))
  <2>1. step \in [(1..n) \X LmRecord -> LmRecord]
    <3>1. ASSUME NEW q \in (1..n) \X LmRecord PROVE LmJoin(q[2], others[q[1]]) \in LmRecord
      <4>1. q[1] \in 1..n /\ q[2] \in LmRecord
        OBVIOUS
      <4> HIDE DEF n
      <4> QED
        BY <1>2, <4>1, JoinTyped
    <3> HIDE DEF n
    <3> QED
      BY <3>1
  <2>2. meas[0] \in LmRecord
    BY <1>1
  <2> HIDE DEF n, step
  <2> QED
    BY <1>1, <2>1, <2>2, LeftFoldExists
<1>4. Solves(it)
  <2>1. it \in [SUBSET (1..n) -> LmRecord]
    BY <1>3 DEF IsFold
  <2>2. ASSUME NEW s \in SUBSET (1..n)
        PROVE  it[s] = IF s = {} THEN meas[0]
                       ELSE LET x == Max(s) IN LmJoin(it[s \ {x}], others[x])
    <3>1. CASE s = {}
      BY <1>3, <3>1 DEF IsFold, Turn
    <3>2. CASE s # {}
      <4>1. Max(s) \in 1..n /\ Lasts(n)[s] = Max(s)
        BY <1>1, <3>2, LastOfPart DEF Lasts
      <4>2. it[s] = step[<<Max(s), it[s \ {Max(s)}]>>]
        <5> HIDE DEF step, n
        <5> QED
          BY <1>3, <3>2, <4>1 DEF IsFold, Turn
      <4>3. <<Max(s), it[s \ {Max(s)}]>> \in (1..n) \X LmRecord
        BY <2>1, <4>1
      <4>4. it[s] = LmJoin(it[s \ {Max(s)}], others[Max(s)])
        BY <4>2, <4>3
      <4> QED
        BY <3>2, <4>4
    <3> QED
      BY <3>1, <3>2
  <2> HIDE DEF n, step
  <2> QED
    BY <1>2, <2>1, <2>2
<1> DEFINE all == CHOOSE that : Solves(that)
<1>5. Joined = all[DOMAIN others]
  BY Zenon DEF Joined, FoldLeft, MapThenFoldSet, others
<1>6. Solves(all)
  <2> HIDE DEF Solves
  <2> QED
    BY <1>4, Zenon
<1> HIDE DEF all
<1>7. ASSUME NEW k \in Nat, k + 1 <= n
      PROVE  all[1..k + 1] = LmJoin(all[1..k], meas[k + 1])
  <2>1. 1..k + 1 \in SUBSET DOMAIN others /\ 1..k + 1 # {} /\ k + 1 \in 1..n
    <3>1. k + 1 \in 1..k + 1 /\ n \in Nat
      BY <1>1
    <3>2. 1..k + 1 \subseteq 1..n
      BY <1>7, <3>1
    <3> QED
      BY <1>2, <3>1, <3>2
  <2>2. Max(1..k + 1) = k + 1 /\ (1..k + 1) \ {k + 1} = 1..k
    BY LastOfPrefix
  <2> HIDE DEF n
  <2> QED
    BY <1>2, <1>6, <2>1, <2>2
<1> DEFINE P == {k \in Nat : k <= n => JoinOf(all[1..k], k)}
<1>8. 0 \in P
  <2>1. all[1..0] = meas[0]
    <3>1. 1..0 = {}
      OBVIOUS
    <3> QED
      BY <1>6, <3>1
  <2>2. /\ meas[0] \in LmRecord /\ meas[0].expected = Share /\ Len(meas[0].results) = Share
    BY <1>1
  <2>3. JoinOf(meas[0], 0)
    <3>1. (0 + 1) * Share = Share /\ 0 * Share = 0
      BY <1>1
    <3> QED
      BY <1>1, <2>2, <3>1 DEF JoinOf
  <2> QED
    BY <2>1, <2>3
<1>9. ASSUME NEW k \in Nat, k \in P PROVE k + 1 \in P
  <2> SUFFICES ASSUME k + 1 <= n PROVE JoinOf(all[1..k + 1], k + 1)
    OBVIOUS
  <2>1. k <= n /\ k + 1 \in 0..n /\ k + 2 \in Nat /\ k + 2 <= tc
    BY <1>1
  <2>2. JoinOf(all[1..k], k)
    BY <1>9, <2>1
  <2>3. (k + 2) * Share < U64Mod
    <3>1. CASE k + 2 = tc
      BY <1>1, <3>1
    <3>2. CASE k + 2 < tc
      <4>1. (k + 2) * Share + Share <= tc * Share
        BY <1>1, <2>1, <3>2, ProductStep
      <4>2. PICK few \in Nat : few = (k + 2) * Share
        BY <1>1, <2>1
      <4>3. PICK many \in Nat : many = tc * Share /\ many < U64Mod
        BY <1>1, <2>1
      <4>4. few + Share <= many
        BY <4>1, <4>2, <4>3
      <4>5. Share \in Nat /\ 0 < Share
        BY <1>1
      <4>6. few < U64Mod
        BY <4>3, <4>4, <4>5, Widths
      <4> QED
        BY <4>2, <4>6
    <3> QED
      BY <1>1, <2>1, <3>1, <3>2
  <2>4. meas[k + 1] \in LmRecord /\ Len(meas[k + 1].results) = Share
    BY <1>1, <2>1
  <2> QED
    BY <1>1, <1>7, <2>2, <2>3, <2>4, JoinNext
<1>10. Nat \subseteq P
  <2> HIDE DEF P
  <2> QED
    BY <1>8, <1>9, NaturalInduction
<1> QED
  BY <1>1, <1>2, <1>5, <1>10

\* How many samples are not above one.
NotAbove(samples, v) == {i \in DOMAIN samples : samples[i] <= v}

\* std::sort puts a sample of the rank there that is not too large.
LEMMA RankedIs ==
  ASSUME NEW samples \in Seq(Samples32), NEW k \in 1..Len(samples)
  PROVE  /\ Ranked(samples, k) \in ToSet(samples)
         /\ k <= Cardinality(NotAbove(samples, Ranked(samples, k)))
         /\ \A v \in ToSet(samples) :
              k <= Cardinality(NotAbove(samples, v)) => Ranked(samples, k) <= v
<1> DEFINE values == ToSet(samples)
           enough == {v \in values : k <= Cardinality(NotAbove(samples, v))}
<1>1. /\ U32Mod - 1 \in Nat /\ values \in SUBSET (0..U32Mod - 1) /\ values # {}
      /\ DOMAIN samples = 1..Len(samples) /\ Len(samples) \in Nat
  <2>1. \A i \in 1..Len(samples) : samples[i] \in 0..U32Mod - 1
    <3>1. \A i \in 1..Len(samples) : samples[i] \in Samples32
      <4> HIDE DEF values, enough
      <4> QED
        OBVIOUS
    <3> QED
      BY <3>1 DEF Samples32
  <2>2. samples[1] \in values
    BY DEF ToSet
  <2> QED
    BY <2>1, <2>2, WidthAssumption DEF ToSet
<1>2. Max(values) \in values /\ \A v \in values : Max(values) >= v
  <2> HIDE DEF values
  <2> QED
    BY <1>1, MaxIsGreatest
<1>3. Max(values) \in enough
  <2>1. NotAbove(samples, Max(values)) = 1..Len(samples)
    <3>1. \A i \in 1..Len(samples) : samples[i] \in values /\ samples[i] <= Max(values)
      <4>1. \A i \in 1..Len(samples) : samples[i] \in values
        BY DEF ToSet
      <4>2. \A v \in values : v \in Nat
        BY <1>1
      <4> HIDE DEF values
      <4> QED
        BY <1>2, <4>1, <4>2
    <3> HIDE DEF values
    <3> QED
      BY <1>1, <3>1 DEF NotAbove
  <2>2. Cardinality(1..Len(samples)) = Len(samples)
    <3>1. PICK n \in Nat : n = Len(samples)
      BY <1>1, Zenon
    <3>2. Cardinality(1..n) = n
      BY FS_Interval
    <3> QED
      BY <3>1, <3>2, Zenon
  <2>3. k <= Cardinality(NotAbove(samples, Max(values)))
    <3>1. k <= Len(samples)
      BY <1>1
    <3> HIDE DEF values
    <3> QED
      BY <2>1, <2>2, <3>1
  <2> HIDE DEF values
  <2> QED
    BY <1>2, <2>3
<1>4. enough \in SUBSET Nat /\ enough # {}
  BY <1>1, <1>3
<1>5. Min(enough) \in enough /\ \A v \in enough : Min(enough) <= v
  <2> HIDE DEF enough
  <2> QED
    BY <1>4, MinIsLeast
<1>6. Ranked(samples, k) = Min(enough)
  BY DEF Ranked, NotAbove
<1> QED
  BY <1>5, <1>6

\* finish() finds nothing missing and sorts; the percentiles are ranks.
LEMMA FinishedIs ==
  ASSUME MsgsFit, MInv, mpc = "report", phase = "latency"
  PROVE  /\ Joined.results \in Seq(Samples32) /\ Len(Joined.results) = Share * tc
         /\ Share * tc \in Nat \ {0}
         /\ Finished.expected = 0 /\ Finished.success \in Nat
         /\ \A p \in Permilles :
              /\ 1 + PercentileIndex(Share * tc, p) \in 1..Share * tc
              /\ LmPercentile(Finished, p)
                   = Ranked(Joined.results, 1 + PercentileIndex(Share * tc, p))
<1> DEFINE size == Share * tc
           samples == Joined.results
<1>1. size \in Nat \ {0} /\ tc \in 1..MaxThreads
  BY TeamDone, SharesOfTeam, Widths
<1>2. Joined \in LmRecord /\ Len(samples) = size /\ Joined.expected = size
  <2>1. (tc - 1 + 1) * Share = size
    <3>1. tc - 1 + 1 = tc /\ Share \in Nat
      BY <1>1, SharesOfTeam, Widths
    <3> QED
      BY <1>1, <3>1
  <2> QED
    BY <2>1, JoinedIsAll DEF JoinOf
<1>3. samples \in Seq(Samples32)
  BY <1>2 DEF LmRecord
<1>4. /\ Finished.results = Sorted(samples) /\ Finished.expected = 0
      /\ Finished.success = Joined.success
  BY <1>2 DEF Finished, LmFinish, LmComplete, LmRecord
<1>5. /\ DOMAIN Sorted(samples) = 1..size /\ Len(Sorted(samples)) = size
      /\ \A k \in 1..size : Sorted(samples)[k] = Ranked(samples, k)
  <2>1. DOMAIN samples = 1..size
    <3> HIDE DEF size, samples
    <3> QED
      BY <1>2, <1>3
  <2> HIDE DEF size, samples
  <2>2. Sorted(samples) = [k \in 1..size |-> Ranked(samples, k)]
    BY <2>1 DEF Sorted
  <2> QED
    BY <1>1, <2>2
<1>6. ASSUME NEW p \in Permilles
      PROVE  1 + PercentileIndex(size, p) \in 1..size
  <2>1. p \in Nat
    BY DEF Permilles
  <2>2. PercentileIndex(size, p) \in 0..size - 1
    <3> HIDE DEF size
    <3> QED
      BY <1>1, <2>1, PercentileInRange
  <2> HIDE DEF size
  <2> QED
    BY <1>1, <2>2
<1>7. \A p \in Permilles :
        LmPercentile(Finished, p) = Ranked(samples, 1 + PercentileIndex(size, p))
  <2> HIDE DEF size, samples
  <2> QED
    BY <1>4, <1>5, <1>6 DEF LmPercentile
<1> QED
  BY <1>1, <1>2, <1>3, <1>4, <1>6, <1>7 DEF LmRecord

\* Where a sample is among all.
Place(s) == s[1] * Share + s[2]

LEMMA PlacesAreAll ==
  ASSUME MsgsFit, MInv, mpc = "report", phase = "latency"
  PROVE  /\ Sampled = Team \X (1..Share) /\ IsFiniteSet(Sampled)
         /\ \A s \in Sampled : /\ Place(s) \in 1..Share * tc
                               /\ Joined.results[Place(s)] = Sample(s)
         /\ \A s, t \in Sampled : Place(s) = Place(t) => s = t
         /\ \A i \in 1..Share * tc : \E s \in Sampled : Place(s) = i
<1>1. /\ tc \in 1..MaxThreads /\ tc \in Nat \ {0} /\ Team = 0..tc - 1
      /\ Share \in Nat \ {0}
  BY TeamDone, SharesOfTeam, Widths
<1>2. \A w \in Team : DOMAIN meas[w].results = 1..Share
  <2>1. \A w \in Team : LmMeasured(w) /\ wpc[w] = "done"
    BY TeamDone DEF Measured
  <2>2. \A w \in Team : meas[w].results \in Seq(Samples32) /\ Len(meas[w].results) = Share
    BY <2>1 DEF LmMeasured, LmRecord
  <2> QED
    BY <2>2
<1>3. Sampled = Team \X (1..Share)
  <2>1. \A w \in Team : {w} \X DOMAIN meas[w].results = {w} \X (1..Share)
    BY <1>2
  <2>2. Sampled = UNION {{w} \X (1..Share) : w \in Team}
    BY <2>1 DEF Sampled
  <2>3. UNION {{w} \X (1..Share) : w \in Team} = Team \X (1..Share)
    OBVIOUS
  <2> QED
    BY <2>2, <2>3
<1>4. IsFiniteSet(Sampled)
  <2>1. IsFiniteSet(Team) /\ IsFiniteSet(1..Share)
    BY <1>1, FS_Interval
  <2> QED
    BY <1>3, <2>1, FS_Product
<1>5. ASSUME NEW w \in Team, NEW j \in 1..Share
      PROVE  w * Share + j \in 1..Share * tc
  <2>1. w * Share + (j - 1) \in 0..tc * Share - 1
    <3>1. w \in 0..tc - 1 /\ j - 1 \in 0..Share - 1
      BY <1>1
    <3> QED
      BY <1>1, <3>1, DigitInRange
  <2>2. PICK high \in Nat : high = w * Share
    BY <1>1
  <2>3. PICK all \in Nat : all = tc * Share /\ all = Share * tc
    BY <1>1
  <2> QED
    BY <2>1, <2>2, <2>3
<1>6. ASSUME NEW w \in Team, NEW j \in 1..Share, NEW v \in Team, NEW k \in 1..Share,
             w * Share + j = v * Share + k
      PROVE  w = v /\ j = k
  <2>1. /\ w \in Nat /\ v \in Nat /\ j - 1 \in 0..Share - 1 /\ k - 1 \in 0..Share - 1
        /\ w * Share \in Nat /\ v * Share \in Nat
    BY <1>1
  <2>2. w * Share + (j - 1) = v * Share + (k - 1)
    BY <1>6, <2>1
  <2>3. w = v /\ j - 1 = k - 1
    BY <1>1, <2>1, <2>2, DigitUnique
  <2> QED
    BY <2>3
<1>7. ASSUME NEW i \in 1..Share * tc PROVE \E s \in Sampled : Place(s) = i
  <2> DEFINE w == (i - 1) \div Share
             j == ((i - 1) % Share) + 1
  <2>1. i - 1 \in Nat
    BY <1>1
  <2>2. w \in Nat /\ j \in 1..Share /\ i = w * Share + j
    <3>1. PICK n \in Nat : n = i - 1
      BY <2>1
    <3>2. /\ n \div Share \in Nat /\ n % Share \in 0..Share - 1
          /\ n = Share * (n \div Share) + (n % Share)
      BY <1>1, <3>1
    <3>3. PICK high \in Nat : high = w * Share /\ high = Share * (n \div Share)
      BY <1>1, <3>1, <3>2
    <3>4. n = high + (n % Share) /\ w \in Nat /\ j = (n % Share) + 1
      BY <3>1, <3>2, <3>3
    <3>5. n + 1 = i
      BY <1>1, <3>1
    <3> HIDE DEF w, j
    <3> QED
      BY <1>1, <3>2, <3>3, <3>4, <3>5
  <2> HIDE DEF w, j
  <2>3. w < tc
    <3> SUFFICES ASSUME tc <= w PROVE FALSE
      BY <1>1, <2>2
    <3>1. tc < w + 1 /\ w + 1 \in Nat
      BY <1>1, <2>2
    <3>2. tc * Share + Share <= (w + 1) * Share
      BY <1>1, <3>1, ProductStep
    <3>3. PICK high \in Nat : high = w * Share
      BY <1>1, <2>2
    <3>4. (w + 1) * Share = high + Share
      BY <1>1, <2>2, <3>3
    <3>5. PICK all \in Nat : all = tc * Share /\ all = Share * tc
      BY <1>1
    <3>6. i <= all /\ all <= high /\ high < i
      BY <1>1, <2>2, <3>2, <3>3, <3>4, <3>5
    <3> QED
      BY <3>3, <3>5, <3>6
  <2>4. <<w, j>> \in Sampled
    BY <1>1, <1>3, <2>2, <2>3
  <2> QED
    BY <2>2, <2>4 DEF Place
<1>8. \A s \in Sampled : /\ Place(s) \in 1..Share * tc
                         /\ Joined.results[Place(s)] = Sample(s)
  <2>1. \A w \in 0..tc - 1, j \in 1..Share :
          Joined.results[w * Share + j] = meas[w].results[j]
    BY JoinedIsAll DEF JoinOf
  <2> QED
    BY <1>1, <1>3, <1>5, <2>1 DEF Place, Sample
<1>9. \A s, t \in Sampled : Place(s) = Place(t) => s = t
  BY <1>3, <1>6 DEF Place
<1> QED
  BY <1>3, <1>4, <1>7, <1>8, <1>9

\* A count of places is a count of samples.
LEMMA PlacesCount ==
  ASSUME MsgsFit, MInv, mpc = "report", phase = "latency",
         NEW places \in SUBSET (1..Share * tc)
  PROVE  /\ IsFiniteSet({s \in Sampled : Place(s) \in places})
         /\ Cardinality({s \in Sampled : Place(s) \in places}) = Cardinality(places)
<1> DEFINE found == {s \in Sampled : Place(s) \in places}
           f == [s \in found |-> Place(s)]
<1>1. IsFiniteSet(found)
  BY PlacesAreAll, FS_Subset
<1>2. f \in Bijection(found, places)
  <2>1. f \in [found -> places]
    OBVIOUS
  <2>2. \A s, t \in found : f[s] = f[t] => s = t
    BY PlacesAreAll
  <2>3. \A i \in places : \E s \in found : f[s] = i
    BY PlacesAreAll
  <2> HIDE DEF f, found
  <2> QED
    BY <2>1, <2>2, <2>3 DEF Bijection, Injection, Surjection, IsInjective
<1>3. ExistsBijection(found, places)
  <2> HIDE DEF f
  <2> QED
    BY <1>2 DEF ExistsBijection
<1> HIDE DEF found
<1> QED
  BY <1>1, <1>3, FS_Bijection DEF found

-----------------------------------------------------------------------------
(* What a latency test costs, and for how long an entry may take.          *)

\* A reading of the clock costs at least the overhead (get_overhead keeps the
\* least of 500000 differences).
ClockCosts == \A d \in Ticks : OverheadNs <= ToNs(d)

\* No entry takes longer than a sample can say (add_sample: "max 4.294967295
\* seconds/entry"), in ticks and in nanoseconds.
Fits(ticks) == ticks < U32Mod /\ ToNs(ticks) < U32Mod

EntryShort ==
  \A w \in Workers :
    (LogLatency(w) \/ StopLatency(w)) /\ ~LmFirst(iter[w]) => Fits(now' - iter[w].prev)

\* A sample that holds its correction, and is reported as it is.
Costed(sample) == OverheadNs <= ToNs(sample) /\ ToNs(sample) < U32Mod

SamplesCosted(w) ==
  /\ meas[w].results \in Seq(Samples32)
  /\ \A i \in DOMAIN meas[w].results : Costed(meas[w].results[i])

Short == mpc # "idle" /\ phase = "latency" => \A w \in Workers : SamplesCosted(w)

\* A comparison samples the time since the one before.
LEMMA ComparisonCosts ==
  ASSUME ClockCosts, MInv, MsgsFit, NEW p \in Workers, wpc[p] = "logging",
         phase = "latency", NEW r \in Comparisons(p), SamplesCosted(p),
         ~LmFirst(iter[p]) => Fits(r[2] - iter[p].prev)
  PROVE  LET samples == Compared(p, r).lm.results
         IN  samples \in Seq(Samples32) /\ \A i \in DOMAIN samples : Costed(samples[i])
<1>1. CASE LmFirst(iter[p])
  BY <1>1 DEF Compared, LmCompare, SamplesCosted
<1>2. CASE ~LmFirst(iter[p])
  <2>1. mpc # "idle"
    BY DEF MInv, SInv, Frame
  <2>2. now \in Nat /\ iter[p].prev \in 0..now /\ \A d \in Ticks : d \in Nat
    BY <2>1, SuiteAssumption DEF MInv, TInv, Measured, LmMeasured
  <2>3. PICK d \in Ticks : r[1] = now + d
    BY <1>2 DEF Comparisons
  <2>4. PICK e \in Ticks : r[2] = r[1] + e
    <3>1. PICK here : r \in {<<here, here + e>> : e \in Ticks}
      BY DEF Comparisons
    <3> QED
      BY <3>1
  <2>5. PICK ticks \in Nat : /\ ticks = r[1] - iter[p].prev /\ d <= ticks
                             /\ ticks <= r[2] - iter[p].prev
                             /\ r[2] - iter[p].prev \in Nat
    BY <2>2, <2>3, <2>4
  <2>6. ticks < U32Mod /\ ToNs(ticks) < U32Mod /\ OverheadNs <= ToNs(ticks)
    <3>1. ToNs(d) <= ToNs(ticks) /\ ToNs(ticks) <= ToNs(r[2] - iter[p].prev)
      BY <2>2, <2>5, ToNsMonotone
    <3>2. \A n \in Nat : ToNs(n) \in Nat
      BY ClockAssumption DEF ToNs
    <3>3. ToNs(d) \in Nat /\ ToNs(ticks) \in Nat /\ ToNs(r[2] - iter[p].prev) \in Nat
      BY <2>2, <2>5, <3>2
    <3> QED
      BY <1>2, <2>5, <3>1, <3>3, Widths, ClockAssumption DEF Fits, ClockCosts
  <2>7. ToU32(ToU64(ticks)) = ticks
    BY <2>6, Widths DEF ToU32, ToU64
  <2>8. Compared(p, r).lm = [meas[p] EXCEPT !.results = Append(meas[p].results, ticks)]
    BY <1>2, <2>5, <2>7 DEF Compared, LmCompare, LmAddSample
  <2>9. ticks \in Samples32 /\ Costed(ticks)
    BY <2>6, Widths DEF Samples32, Costed
  <2>10. meas[p] \in LmRecord
    BY <2>1 DEF MInv, Measured, LmMeasured
  <2>11. PICK samples \in Seq(Samples32) : samples = meas[p].results
    BY DEF SamplesCosted
  <2>12. Compared(p, r).lm.results = Append(samples, ticks)
    BY <2>8, <2>10, <2>11 DEF LmRecord
  <2>13. /\ Append(samples, ticks) \in Seq(Samples32)
         /\ \A i \in DOMAIN Append(samples, ticks) : Costed(Append(samples, ticks)[i])
    <3>1. \A i \in 1..Len(samples) : Costed(samples[i])
      BY <2>11 DEF SamplesCosted
    <3>2. DOMAIN Append(samples, ticks) = 1..Len(samples) + 1
      BY <2>9
    <3>3. \A i \in 1..Len(samples) : Append(samples, ticks)[i] = samples[i]
      OBVIOUS
    <3>4. Append(samples, ticks)[Len(samples) + 1] = ticks
      OBVIOUS
    <3>5. Append(samples, ticks) \in Seq(Samples32)
      BY <2>9
    <3>6. \A i \in 1..Len(samples) + 1 : i \in 1..Len(samples) \/ i = Len(samples) + 1
      OBVIOUS
    <3> HIDE DEF Costed
    <3> QED
      BY <2>9, <3>1, <3>2, <3>3, <3>4, <3>5, <3>6
  <2> QED
    BY <2>12, <2>13
<1> QED
  BY <1>1, <1>2

LEMMA InitShort == Init => Short
  BY DEF Init, H!Init, Short

LEMMA NextShort ==
  ClockCosts /\ MsgsFit /\ MInv /\ Short /\ [Next]_vars /\ [EntryShort]_vars => Short'
<1> SUFFICES ASSUME ClockCosts, MsgsFit, MInv, Short, [Next]_vars, [EntryShort]_vars,
                    mpc' # "idle", phase' = "latency", NEW w \in Workers
             PROVE  SamplesCosted(w)'
  BY DEF Short
<1>1. /\ DOMAIN meas = Workers /\ 0 \in Workers
      /\ mpc # "idle" /\ phase = "latency" => \A v \in Workers : SamplesCosted(v)
  BY SuiteAssumption DEF MInv, SInv, Typed, Short, Workers, H!Workers
<1>2. ASSUME meas'[w].results = <<>> PROVE SamplesCosted(w)'
  BY <1>2 DEF SamplesCosted
<1>3. ASSUME mpc # "idle", phase = "latency", meas'[w] = meas[w] PROVE SamplesCosted(w)'
  BY <1>1, <1>3 DEF SamplesCosted
<1>4. CASE BeginThroughput \/ BeginLatency
  <2>1. phase' = phase /\ meas'[w] = LmReset
    BY <1>4 DEF BeginThroughput, BeginLatency, Enter
  <2> QED
    BY <1>2, <2>1 DEF LmReset
<1>5. CASE ReportThroughput \/ ReportLatency
  BY <1>5 DEF ReportThroughput, ReportLatency, H!Return
<1>6. CASE Spawn \/ RunInline
  <2>1. /\ phase' = phase /\ mpc # "idle"
        /\ \E p : meas' = [meas EXCEPT ![p] = LmPrepare(meas[p], Share)]
    BY <1>6 DEF Spawn, RunInline, H!Spawn, H!RunInline, Prepared, suite
  <2>2. meas'[w] = meas[w] \/ meas'[w].results = <<>>
    BY <1>1, <2>1 DEF LmPrepare, LmReset
  <2> QED
    BY <1>2, <1>3, <2>1, <2>2
<1>7. ASSUME NEW p \in Workers, LogLatency(p) \/ StopLatency(p) PROVE SamplesCosted(w)'
  <2>1. /\ wpc[p] = "logging" /\ phase = "latency" /\ mpc # "idle" /\ mpc' = mpc
    BY <1>7 DEF LogLatency, StopLatency, H!StopLogging, Entry, harness, MInv, SInv, Frame
  <2>2. CASE w # p
    <3>1. meas'[w] = meas[w]
      BY <1>1, <1>7, <2>2 DEF LogLatency, StopLatency
    <3> QED
      BY <1>3, <2>1, <3>1
  <2>3. CASE w = p
    <3>1. PICK r \in Comparisons(p) :
            /\ now' = r[2]
            /\ meas'[p].results = Compared(p, r).lm.results
      <4>1. CASE LogLatency(p)
        BY <1>1, <4>1 DEF LogLatency
      <4>2. CASE StopLatency(p)
        <5>1. PICK r \in Comparisons(p) :
                /\ now' = r[2]
                /\ meas' = [meas EXCEPT ![p] = LmAddSuccesses(Compared(p, r).lm, counted[p])]
          BY <4>2 DEF StopLatency
        <5>2. Compared(p, r).lm \in LmRecord
          BY <2>1, ComparisonMeasures
        <5>3. meas'[p].results = Compared(p, r).lm.results
          BY <1>1, <5>1, <5>2 DEF LmAddSuccesses, LmRecord
        <5> QED
          BY <5>1, <5>3
      <4> QED
        BY <1>7, <4>1, <4>2
    <3>2. vars' # vars
      <4>1. wpc'[p] # wpc[p] \/ backend'[p] # backend[p]
        <5>1. CASE StopLatency(p)
          BY <2>1, <5>1 DEF StopLatency, H!StopLogging, MInv, SInv, Frame
        <5>2. CASE LogLatency(p)
          <6>1. PICK a \in {"accepted", "refused"} :
                  backend' = [backend EXCEPT ![p][a] = @ + 1]
            BY <5>2 DEF LogLatency, Entry, Answer
          <6>2. backend \in [Workers -> [accepted : Nat, refused : Nat]]
            BY DEF MInv, SInv, Typed
          <6>3. backend'[p][a] = backend[p][a] + 1 /\ backend[p][a] \in Nat
            BY <6>1, <6>2
          <6> QED
            BY <6>3
        <5> QED
          BY <1>7, <5>1, <5>2
      <4> QED
        BY <4>1 DEF vars, harness, measuring
    <3>3. ~LmFirst(iter[p]) => Fits(r[2] - iter[p].prev)
      BY <1>7, <3>1, <3>2 DEF EntryShort
    <3> QED
      BY <1>1, <2>1, <2>3, <3>1, <3>3, ComparisonCosts DEF SamplesCosted
  <2> QED
    BY <2>2, <2>3
<1>8. CASE UNCHANGED <<meas, mpc, phase>>
  BY <1>3, <1>8
<1>9. CASE CreateSucceeds \/ CreateFails \/ MainWait \/ Terminate \/ Destroy
  <2>1. UNCHANGED <<meas, phase>> /\ mpc # "idle"
    BY <1>9 DEF CreateSucceeds, H!CreateSucceeds, CreateFails, H!CreateFails, MainWait,
       H!SeeAllInitialized, H!Release, H!Join, H!InlineDone, Terminate, H!Terminate, Destroy,
       H!Destroy, suite, measuring
  <2> QED
    BY <1>3, <2>1
<1>10. ASSUME NEW p \in Workers,
              WorkerWait(p) \/ LogThroughput(p) \/ StartLogging(p) \/ StopThroughput(p)
       PROVE  SamplesCosted(w)'
  <2>1. phase' = phase /\ mpc' = mpc
    BY <1>10 DEF WorkerWait, H!PrepareThread, H!Arrive, H!SeeRelease, LogThroughput, Entry,
       StartLogging, H!StartLogging, StopThroughput, H!StopLogging, suite, harness
  <2>2. meas' = meas
    BY <1>10, <2>1 DEF WorkerWait, LogThroughput, StartLogging, StopThroughput, measuring
  <2> QED
    BY <1>3, <2>1, <2>2
<1>11. CASE UNCHANGED vars
  BY <1>8, <1>11 DEF vars, harness, measuring, suite
<1> QED
  BY <1>4, <1>5, <1>6, <1>7, <1>9, <1>10, <1>11 DEF Next, MainStep, WorkerStep

\* While no entry outlasts a sample, every sample holds the overhead that is
\* taken from it later, and fits the field it is reported in.
THEOREM SamplesAreCosted ==
  ASSUME MsgsFit, ClockCosts PROVE Spec /\ [][EntryShort]_vars => []Short
  BY InitShort, NextShort, MeasuresInvariance, PTL DEF Spec

-----------------------------------------------------------------------------
(* The correction for the overhead.                                        *)

\* The times of a throughput test hold the correction that the latency test of
\* the same cell takes from them.
TimesCosted ==
  ret = -1 /\ phase = "latency"
    => /\ table[Cell].producer_ns \in Nat /\ OverheadNs <= table[Cell].producer_ns
       /\ table[Cell].total_ns \in Nat /\ OverheadNs <= table[Cell].total_ns

LEMMA InitTimesCosted == Init => TimesCosted
  BY DEF Init, TimesCosted

LEMMA ReportThroughputCosts ==
  ASSUME ClockCosts, CInv, MInv, now < U64Mod, ReportThroughput
  PROVE  TimesCosted'
<1>1. mpc = "report" /\ phase = "throughput" /\ ret = -1
  BY DEF ReportThroughput, H!Return, CInv, Doing
<1>2. /\ tc \in 1..MaxThreads /\ 0 \in Team /\ Team \subseteq Workers
      /\ now \in Nat /\ \A d \in Ticks : d \in Nat
      /\ \A n \in Nat : ToNs(n) \in Nat
  BY <1>1, TeamDone, SuiteAssumption, ClockAssumption DEF MInv, TInv, ToNs
<1>3. PICK d \in Ticks : meas[0].start + d <= meas[0].end
  BY <1>1, <1>2, TeamDone DEF Measured, TmMeasured
<1>4. PICK span \in Nat : span = meas[0].end - meas[0].start /\ d <= span
  BY <1>1, <1>2, <1>3 DEF MInv, TInv, Stamped
<1>5. OverheadNs <= ToNs(span) /\ ToNs(span) \in Nat
  <2>1. ToNs(d) <= ToNs(span) /\ ToNs(d) \in Nat /\ ToNs(span) \in Nat
    BY <1>2, <1>4, ToNsMonotone
  <2> QED
    BY <2>1, ClockAssumption DEF ClockCosts
<1>6. /\ ToNs(span) <= table'[Cell].producer_ns
      /\ table'[Cell].producer_ns <= table'[Cell].total_ns
  <2>1. TInv
    BY DEF MInv
  <2> QED
    BY <1>2, <1>4, <2>1, ReportEncloses
<1>7. table'[Cell].producer_ns \in Nat /\ table'[Cell].total_ns \in Nat
  <2>1. \A i \in Int : ToNs(ToU64(i)) \in Nat
    BY <1>2, WidthAssumption DEF ToU64
  <2>2. MaxEnd - MinStart \in Int /\ totalEnd - MinStart \in Int
    <3>1. TInv
      BY DEF MInv
    <3> QED
      BY <3>1, TeamTimes
  <2> QED
    BY <2>1, <2>2, ThroughputReported
<1>8. Cell' = Cell
  BY DEF ReportThroughput, Cell
<1>9. PICK old \in Nat, all \in Nat :
        old = table'[Cell].producer_ns /\ all = table'[Cell].total_ns
  BY <1>7
<1>10. OverheadNs <= old /\ OverheadNs <= all
  BY <1>5, <1>6, <1>9, ClockAssumption
<1> QED
  BY <1>8, <1>9, <1>10 DEF TimesCosted

LEMMA NextTimesCosted ==
  ASSUME ClockCosts, CInv, MInv, TimesCosted, now < U64Mod, [Next]_vars
  PROVE  TimesCosted'
<1>1. CASE ReportThroughput
  BY <1>1, ReportThroughputCosts
<1>2. CASE BeginThroughput \/ ReportLatency \/ CreateFails
  BY <1>2 DEF BeginThroughput, Enter, ReportLatency, CreateFails, TimesCosted
<1>3. CASE BeginLatency
  <2>1. /\ ret = -1 /\ phase = "latency" /\ UNCHANGED <<pos, ret, phase>>
        /\ table' = [table EXCEPT ![Cell].thread_count = Threads]
    BY <1>3 DEF BeginLatency, Enter
  <2>2. DOMAIN table[Cell] = Fields /\ Cell \in DOMAIN table
    BY <2>1, AddressInRange DEF CInv, Indexed, CellsWritten, Cell
  <2>3. /\ table'[Cell].producer_ns = table[Cell].producer_ns
        /\ table'[Cell].total_ns = table[Cell].total_ns
    BY <2>1, <2>2 DEF Fields
  <2>4. Cell' = Cell
    BY <2>1 DEF Cell
  <2> QED
    BY <2>1, <2>3, <2>4 DEF TimesCosted
<1>4. CASE UNCHANGED suite
  <2>1. UNCHANGED <<phase, pos, table, ret>> /\ Cell' = Cell
    BY <1>4 DEF suite, Cell
  <2> QED
    BY <2>1 DEF TimesCosted
<1>5. CASE CreateSucceeds \/ Spawn \/ RunInline \/ MainWait \/ Terminate \/ Destroy
  <2>1. UNCHANGED suite
    BY <1>5 DEF CreateSucceeds, Spawn, RunInline, Prepared, MainWait, Terminate, Destroy
  <2> QED
    BY <1>4, <2>1
<1>6. ASSUME NEW w \in Workers, WorkerStep(w) PROVE TimesCosted'
  <2>1. UNCHANGED suite
    BY <1>6 DEF WorkerStep, WorkerWait, StartLogging, LogThroughput, StopThroughput,
       LogLatency, StopLatency, Entry
  <2> QED
    BY <1>4, <2>1
<1>7. CASE UNCHANGED vars
  BY <1>4, <1>7 DEF vars
<1> QED
  BY <1>1, <1>2, <1>3, <1>5, <1>6, <1>7 DEF Next, MainStep

\* What a latency test writes, once more in terms of the cell.
LEMMA LatencyReported ==
  ASSUME CInv, ReportLatency
  PROVE  /\ mpc = "report" /\ phase = "latency" /\ ret = -1
         /\ table'[Cell].producer_ns = CorrectU64(table[Cell].producer_ns)
         /\ table'[Cell].total_ns = CorrectU64(table[Cell].total_ns)
         /\ \A p \in Permilles :
              table'[Cell].latency_ns[p]
                = CorrectU32(ToU32(ToNs(LmPercentile(Finished, p))))
<1>1. mpc = "report" /\ phase = "latency" /\ ret = -1
  BY DEF ReportLatency, H!Return, CInv, Doing
<1> DEFINE ns == [p \in Permilles |-> ToU32(ToNs(LmPercentile(Finished, p)))]
           a == [table[Cell] EXCEPT !.latency_faults = LmFaults(Finished)]
           b == [a EXCEPT !.latency_ns = ns]
<1>2. Cell \in DOMAIN table /\ DOMAIN table[Cell] = Fields
  BY <1>1, AddressInRange DEF CInv, Indexed, CellsWritten, Cell
<1>3. table' = [table EXCEPT ![Cell] = Corrected(b)]
  BY DEF ReportLatency
<1>4. table'[Cell] = Corrected(b)
  BY <1>2, <1>3
<1>5. /\ DOMAIN b = Fields /\ b.latency_ns = ns
      /\ b.producer_ns = table[Cell].producer_ns /\ b.total_ns = table[Cell].total_ns
  <2> HIDE DEF ns
  <2> QED
    BY <1>2 DEF Fields
<1> HIDE DEF b
<1>6. /\ Corrected(b).producer_ns = CorrectU64(b.producer_ns)
      /\ Corrected(b).total_ns = CorrectU64(b.total_ns)
      /\ Corrected(b).latency_ns = [p \in Permilles |-> CorrectU32(b.latency_ns[p])]
  BY <1>5 DEF Corrected, Fields
<1>7. \A p \in Permilles : Corrected(b).latency_ns[p] = CorrectU32(ns[p])
  <2> HIDE DEF ns
  <2> QED
    BY <1>5, <1>6
<1> QED
  BY <1>1, <1>4, <1>5, <1>6, <1>7

\* Each percentile is the time of a sample, which holds the correction.
LEMMA PercentilesAreSamples ==
  ASSUME MsgsFit, MInv, Short, mpc = "report", phase = "latency", NEW p \in Permilles
  PROVE  /\ \E s \in Sampled : LmPercentile(Finished, p) = Sample(s)
         /\ LmPercentile(Finished, p) \in Nat /\ Costed(LmPercentile(Finished, p))
<1> DEFINE rank == 1 + PercentileIndex(Share * tc, p)
<1>1. /\ Joined.results \in Seq(Samples32) /\ Len(Joined.results) = Share * tc
      /\ rank \in 1..Share * tc
      /\ LmPercentile(Finished, p) = Ranked(Joined.results, rank)
  BY FinishedIs
<1> HIDE DEF rank
<1>2. PICK i \in 1..Share * tc : LmPercentile(Finished, p) = Joined.results[i]
  <2>1. Ranked(Joined.results, rank) \in ToSet(Joined.results)
    BY <1>1, RankedIs
  <2>2. DOMAIN Joined.results = 1..Share * tc
    BY <1>1
  <2> QED
    BY <1>1, <2>1, <2>2 DEF ToSet
<1>3. PICK s \in Sampled : LmPercentile(Finished, p) = Sample(s)
  <2>1. PICK s \in Sampled : Place(s) = i
    BY PlacesAreAll
  <2> QED
    BY <1>2, <2>1, PlacesAreAll
<1>4. SamplesCosted(s[1]) /\ s[2] \in DOMAIN meas[s[1]].results
  <2>1. Sampled = Team \X (1..Share)
    BY PlacesAreAll
  <2>2. s[1] \in Team /\ s[2] \in 1..Share
    BY <2>1
  <2>3. s[1] \in Workers /\ wpc[s[1]] = "done" /\ Measured(s[1])
    BY <2>2, TeamDone
  <2>4. Len(meas[s[1]].results) = Share
    BY <2>3 DEF Measured, LmMeasured
  <2>5. SamplesCosted(s[1])
    BY <2>3 DEF Short
  <2>6. PICK a \in Seq(Samples32) : a = meas[s[1]].results
    BY <2>5 DEF SamplesCosted
  <2> QED
    BY <2>2, <2>4, <2>5, <2>6
<1>5. Sample(s) \in Nat /\ Costed(Sample(s))
  <2>1. PICK a \in Seq(Samples32) : a = meas[s[1]].results
    BY <1>4 DEF SamplesCosted
  <2>2. a[s[2]] \in Samples32
    BY <1>4, <2>1
  <2> QED
    BY <1>4, <2>1, <2>2, Widths DEF SamplesCosted, Sample, Samples32
<1> QED
  BY <1>3, <1>5

\* A percentile is reported as its time without the overhead.
LEMMA PercentilesCorrected ==
  ASSUME MsgsFit, CInv, MInv, Short, ReportLatency, NEW p \in Permilles
  PROVE  LET ns == ToNs(LmPercentile(Finished, p))
         IN  /\ ns \in Nat /\ OverheadNs \in Nat /\ OverheadNs <= ns
             /\ ToU32(ns) = ns /\ ToU32(OverheadNs) = OverheadNs
             /\ table'[Cell].latency_ns[p] = ns - OverheadNs
<1>1. mpc = "report" /\ phase = "latency"
  BY LatencyReported
<1>2. LmPercentile(Finished, p) \in Nat /\ Costed(LmPercentile(Finished, p))
  BY <1>1, PercentilesAreSamples
<1>3. PICK ns \in Nat : ns = ToNs(LmPercentile(Finished, p))
  BY <1>2, ClockAssumption DEF ToNs
<1>4. /\ OverheadNs \in Nat /\ OverheadNs <= ns /\ ns < U32Mod
  BY <1>2, <1>3, ClockAssumption DEF Costed
<1>5. ToU32(ns) = ns /\ ToU32(OverheadNs) = OverheadNs /\ ToU32(ns - OverheadNs) = ns - OverheadNs
  <2>1. \A n \in Nat : n < U32Mod => ToU32(n) = n
    BY Widths DEF ToU32
  <2>2. ns - OverheadNs \in Nat /\ ns - OverheadNs < U32Mod /\ OverheadNs < U32Mod
    BY <1>4, Widths
  <2> QED
    BY <1>4, <2>1, <2>2
<1>6. table'[Cell].latency_ns[p] = CorrectU32(ToU32(ns))
  BY <1>3, LatencyReported
<1> QED
  BY <1>3, <1>4, <1>5, <1>6 DEF CorrectU32

\* When reading the clock costs something, and no reading costs less than the
\* overhead measured, the correction takes no field below zero.
LEMMA CorrectionFits ==
  ASSUME MsgsFit, OverheadNs > 0, CInv, MInv, Short, TimesCosted, ReportLatency
  PROVE  LET old == table[Cell]
             new == table'[Cell]
         IN  /\ new.producer_ns < old.producer_ns /\ new.total_ns < old.total_ns
             /\ \A p \in Permilles :
                  new.latency_ns[p] < ToU32(ToNs(LmPercentile(Finished, p)))
<1>1. \A p \in Permilles :
        table'[Cell].latency_ns[p] < ToU32(ToNs(LmPercentile(Finished, p)))
  BY PercentilesCorrected
<1>2. ToU32(OverheadNs) = OverheadNs
  <2>1. 0 \in Permilles
    BY DEF Permilles
  <2> QED
    BY <2>1, PercentilesCorrected
<1>3. ASSUME NEW n \in Nat, OverheadNs <= n PROVE CorrectU64(n) < n
  <2>1. PICK less \in Nat : less = n - OverheadNs /\ less < n
    BY <1>3, ClockAssumption
  <2>2. ToU64(less) <= less
    <3>1. \A m \in Nat : m < U64Mod \/ m >= U64Mod
      BY Widths
    <3>2. U64Mod \in Nat \ {0}
      BY WidthAssumption
    <3>3. less < U64Mod => less % U64Mod = less
      BY <3>2
    <3>4. less % U64Mod \in 0..U64Mod - 1
      BY <3>2
    <3> QED
      BY <3>1, <3>2, <3>3, <3>4 DEF ToU64
  <2>3. ToU64(less) \in Nat
    BY WidthAssumption DEF ToU64
  <2> QED
    BY <1>2, <2>1, <2>2, <2>3 DEF CorrectU64
<1>4. /\ table[Cell].producer_ns \in Nat /\ OverheadNs <= table[Cell].producer_ns
      /\ table[Cell].total_ns \in Nat /\ OverheadNs <= table[Cell].total_ns
  BY LatencyReported DEF TimesCosted
<1> QED
  BY <1>1, <1>3, <1>4, LatencyReported

\* For every number of threads and iterations: the assertion of clock_correct.
THEOREM CorrectionIsHeld ==
  ASSUME MsgsFit, ClockCosts, OverheadNs > 0
  PROVE  Spec /\ [](now < U64Mod) /\ [][EntryShort]_vars => CorrectionDecreases
<1> DEFINE Held ==
      ReportLatency =>
        LET old == table[Cell]
            new == table'[Cell]
        IN  /\ new.producer_ns < old.producer_ns /\ new.total_ns < old.total_ns
            /\ \A p \in Permilles :
                 new.latency_ns[p] < ToU32(ToNs(LmPercentile(Finished, p)))
<1>1. CInv /\ MInv /\ Short /\ TimesCosted /\ [Next]_vars => [Held]_vars
  BY CorrectionFits
<1>2. CInv /\ MInv /\ TimesCosted /\ now < U64Mod /\ [Next]_vars => TimesCosted'
  BY NextTimesCosted
<1>3. CorrectionDecreases <=> [][Held]_vars
  BY DEF CorrectionDecreases
<1> HIDE DEF Held
<1> QED
  BY <1>1, <1>2, <1>3, InitTimesCosted, CellsInvariance, MeasuresInvariance,
     SamplesAreCosted, PTL DEF Spec

-----------------------------------------------------------------------------
(* What the latencies say of the team.                                     *)

\* The ranks of the minimum, the median and the maximum.
LEMMA RanksOfEnds ==
  ASSUME NEW size \in Nat \ {0}
  PROVE  /\ 1 + PercentileIndex(size, 0) = 1 /\ 1 + PercentileIndex(size, 1000) = size
         /\ size <= 2 * (1 + PercentileIndex(size, 500))
<1>1. PercentileIndex(size, 0) = 0 /\ PercentileIndex(size, 1000) = size - 1
  BY PercentileInRange
<1>2. size <= 2 * (1 + PercentileIndex(size, 500))
  <2> DEFINE idx == (size * 500 + 500) \div 1000
  <2>1. PercentileIndex(size, 500) = IF idx < size - 1 THEN idx ELSE size - 1
    BY DEF PercentileIndex
  <2>2. idx \in Nat /\ size * 500 + 500 < 1000 * (idx + 1)
    OBVIOUS
  <2> HIDE DEF idx
  <2> QED
    BY <2>1, <2>2
<1> QED
  BY <1>1, <1>2

LEMMA LatenciesCover ==
  ASSUME MsgsFit, CInv, MInv, Short, ReportLatency
  PROVE  LET ns == [p \in Permilles |-> table'[Cell].latency_ns[p] + OverheadNs]
             AtMost(x) == Cardinality({s \in Sampled : ToNs(Sample(s)) <= x})
         IN  /\ \A s \in Sampled : ToNs(Sample(s)) \in ns[0]..ns[1000]
             /\ {ns[p] : p \in Permilles} \subseteq {ToNs(Sample(s)) : s \in Sampled}
             /\ 2 * AtMost(ns[500]) >= Share * tc
             /\ AtMost(ns[1000]) = Share * tc
<1> DEFINE ns == [p \in Permilles |-> table'[Cell].latency_ns[p] + OverheadNs]
           upTo(x) == {s \in Sampled : ToNs(Sample(s)) <= x}
           size == Share * tc
           samples == Joined.results
<1>1. mpc = "report" /\ phase = "latency"
  BY LatencyReported
<1>2. {0, 500, 1000} \subseteq Permilles
  BY DEF Permilles
<1>3. \A p \in Permilles : /\ ns[p] = ToNs(LmPercentile(Finished, p))
                           /\ ns[p] \in Nat /\ LmPercentile(Finished, p) \in Nat
                           /\ \E s \in Sampled : LmPercentile(Finished, p) = Sample(s)
  <2> SUFFICES ASSUME NEW p \in Permilles
               PROVE  /\ ns[p] = ToNs(LmPercentile(Finished, p))
                      /\ ns[p] \in Nat /\ LmPercentile(Finished, p) \in Nat
                      /\ \E s \in Sampled : LmPercentile(Finished, p) = Sample(s)
    OBVIOUS
  <2>1. PICK t \in Nat : t = ToNs(LmPercentile(Finished, p)) /\ OverheadNs \in Nat
                         /\ table'[Cell].latency_ns[p] = t - OverheadNs
    BY PercentilesCorrected
  <2>2. ns[p] = t
    BY <2>1
  <2> QED
    BY <1>1, <2>1, <2>2, PercentilesAreSamples
<1> HIDE DEF ns
<1>4. /\ samples \in Seq(Samples32) /\ Len(samples) = size /\ size \in Nat \ {0}
      /\ DOMAIN samples = 1..size
      /\ LmPercentile(Finished, 0) = Ranked(samples, 1)
      /\ LmPercentile(Finished, 1000) = Ranked(samples, size)
  <2>1. /\ samples \in Seq(Samples32) /\ Len(samples) = size /\ size \in Nat \ {0}
        /\ \A p \in Permilles :
             LmPercentile(Finished, p) = Ranked(samples, 1 + PercentileIndex(size, p))
    BY <1>1, FinishedIs
  <2> HIDE DEF size, samples
  <2> QED
    BY <1>2, <2>1, RanksOfEnds
<1>5. PICK k \in 1..size : LmPercentile(Finished, 500) = Ranked(samples, k) /\ size <= 2 * k
  <2>1. /\ 1 + PercentileIndex(size, 500) \in 1..size
        /\ LmPercentile(Finished, 500) = Ranked(samples, 1 + PercentileIndex(size, 500))
    BY <1>1, <1>2, FinishedIs
  <2> HIDE DEF size, samples
  <2> QED
    BY <1>4, <2>1, RanksOfEnds
<1>6. /\ IsFiniteSet(Sampled) /\ Cardinality(Sampled) = size
      /\ \A s \in Sampled : Place(s) \in 1..size /\ samples[Place(s)] = Sample(s)
      /\ \A s \in Sampled : Sample(s) \in Nat
  <2>1. /\ IsFiniteSet(Sampled)
        /\ \A s \in Sampled : Place(s) \in 1..size /\ samples[Place(s)] = Sample(s)
    BY <1>1, PlacesAreAll
  <2>2. Cardinality({s \in Sampled : Place(s) \in 1..size}) = Cardinality(1..size)
    BY <1>1, PlacesCount
  <2>3. {s \in Sampled : Place(s) \in 1..size} = Sampled
    BY <2>1
  <2>4. Cardinality(1..size) = size
    <3> HIDE DEF size
    <3> QED
      BY <1>4, FS_Interval
  <2>5. \A i \in 1..size : samples[i] \in Nat
    <3> HIDE DEF size, samples
    <3>1. \A i \in 1..Len(samples) : samples[i] \in Samples32
      BY <1>4
    <3> QED
      BY <1>4, <3>1, Widths DEF Samples32
  <2> HIDE DEF size, samples
  <2> QED
    BY <2>1, <2>2, <2>3, <2>4, <2>5
<1>7. ASSUME NEW s \in Sampled
      PROVE  LmPercentile(Finished, 0) <= Sample(s) /\ Sample(s) <= LmPercentile(Finished, 1000)
  <2> HIDE DEF size, samples
  <2>1. Sample(s) \in ToSet(samples)
    BY <1>4, <1>6 DEF ToSet
  <2>2. Ranked(samples, 1) <= Sample(s)
    <3>1. Place(s) \in NotAbove(samples, Sample(s)) /\ NotAbove(samples, Sample(s)) \subseteq 1..size
      BY <1>4, <1>6 DEF NotAbove
    <3>2. /\ IsFiniteSet(NotAbove(samples, Sample(s)))
          /\ Cardinality(NotAbove(samples, Sample(s))) \in Nat
          /\ Cardinality(NotAbove(samples, Sample(s))) # 0
      <4>1. IsFiniteSet(1..size)
        BY <1>4, FS_Interval
      <4>2. IsFiniteSet(NotAbove(samples, Sample(s)))
        BY <3>1, <4>1, FS_Subset
      <4> QED
        BY <3>1, <4>2, FS_CardinalityType, FS_EmptySet
    <3>3. 1 <= Cardinality(NotAbove(samples, Sample(s)))
      BY <3>2
    <3>4. 1 \in 1..Len(samples)
      BY <1>4
    <3> QED
      BY <1>4, <2>1, <3>3, <3>4, RankedIs
  <2>3. Sample(s) <= Ranked(samples, size)
    <3> DEFINE top == Ranked(samples, size)
    <3>1. size \in 1..Len(samples)
      BY <1>4
    <3>2. size <= Cardinality(NotAbove(samples, top))
      BY <1>4, <3>1, RankedIs
    <3>3. NotAbove(samples, top) \subseteq 1..size
      BY <1>4 DEF NotAbove
    <3> HIDE DEF top
    <3>4. NotAbove(samples, top) = 1..size
      <4>1. IsFiniteSet(1..size) /\ Cardinality(1..size) = size
        BY <1>4, FS_Interval
      <4>2. /\ Cardinality(NotAbove(samples, top)) <= size
            /\ Cardinality(NotAbove(samples, top)) \in Nat
            /\ Cardinality(NotAbove(samples, top)) = size => NotAbove(samples, top) = 1..size
        BY <3>3, <4>1, FS_Subset, FS_CardinalityType
      <4> QED
        BY <1>4, <3>2, <4>2
    <3>5. samples[Place(s)] <= top
      BY <1>6, <3>4 DEF NotAbove
    <3> QED
      BY <1>6, <3>5 DEF top
  <2> QED
    BY <1>4, <2>2, <2>3
<1>8. \A s \in Sampled : ToNs(Sample(s)) \in Nat /\ ToNs(Sample(s)) \in ns[0]..ns[1000]
  <2> SUFFICES ASSUME NEW s \in Sampled
               PROVE  ToNs(Sample(s)) \in Nat /\ ToNs(Sample(s)) \in ns[0]..ns[1000]
    OBVIOUS
  <2>1. ns[0] <= ToNs(Sample(s)) /\ ToNs(Sample(s)) <= ns[1000]
    BY <1>2, <1>3, <1>6, <1>7, ToNsMonotone
  <2>2. ToNs(Sample(s)) \in Nat /\ ns[0] \in Nat /\ ns[1000] \in Nat
    BY <1>2, <1>3, <1>6, ClockAssumption DEF ToNs
  <2> QED
    BY <2>1, <2>2
<1>9. {ns[p] : p \in Permilles} \subseteq {ToNs(Sample(s)) : s \in Sampled}
  BY <1>3
<1>10. Cardinality(upTo(ns[1000])) = size
  <2>1. upTo(ns[1000]) = Sampled
    BY <1>8
  <2> QED
    BY <1>6, <2>1
<1>11. 2 * Cardinality(upTo(ns[500])) >= size
  <2> DEFINE half == Ranked(samples, k)
             places == NotAbove(samples, half)
             found == {s \in Sampled : Place(s) \in places}
  <2>1. k <= Cardinality(places) /\ places \in SUBSET (1..size)
    BY <1>4, <1>5, RankedIs DEF NotAbove
  <2>2. IsFiniteSet(found) /\ Cardinality(found) = Cardinality(places)
    <3> HIDE DEF places
    <3> QED
      BY <1>1, <2>1, PlacesCount
  <2>3. found \subseteq upTo(ns[500])
    <3> SUFFICES ASSUME NEW s \in Sampled, Place(s) \in places
                 PROVE  ToNs(Sample(s)) <= ns[500]
      OBVIOUS
    <3>1. Sample(s) <= half
      BY <1>6 DEF NotAbove
    <3>2. half \in Nat /\ ns[500] = ToNs(half)
      BY <1>2, <1>3, <1>5
    <3> HIDE DEF half
    <3> QED
      BY <1>6, <3>1, <3>2, ToNsMonotone
  <2> HIDE DEF found, places
  <2>4. IsFiniteSet(upTo(ns[500]))
    BY <1>6, FS_Subset
  <2> HIDE DEF upTo, size
  <2>5. Cardinality(found) <= Cardinality(upTo(ns[500]))
    BY <2>3, <2>4, FS_Subset
  <2>6. Cardinality(found) \in Nat /\ Cardinality(upTo(ns[500])) \in Nat
    BY <2>2, <2>4, FS_CardinalityType
  <2> QED
    BY <1>4, <1>5, <2>1, <2>2, <2>5, <2>6
<1>12. \A s \in Sampled : ToNs(Sample(s)) \in ns[0]..ns[1000]
  <2> HIDE DEF upTo, size, samples
  <2> QED
    BY <1>8
<1>13. /\ \A s \in Sampled : ToNs(Sample(s)) \in ns[0]..ns[1000]
       /\ {ns[p] : p \in Permilles} \subseteq {ToNs(Sample(s)) : s \in Sampled}
       /\ 2 * Cardinality(upTo(ns[500])) >= size
       /\ Cardinality(upTo(ns[1000])) = size
  <2> HIDE DEF upTo, size
  <2> QED
    BY <1>9, <1>10, <1>11, <1>12
<1> QED
  BY <1>13 DEF ns

\* For every number of threads, of messages and every interleaving: what a
\* latency test reports describes the samples of all its threads.
THEOREM LatenciesDescribeTeam ==
  ASSUME MsgsFit, ClockCosts
  PROVE  Spec /\ [][EntryShort]_vars => LatencyCoversTeam
<1> DEFINE Covers ==
      ReportLatency =>
        LET ns == [p \in Permilles |-> table'[Cell].latency_ns[p] + OverheadNs]
            AtMost(x) == Cardinality({s \in Sampled : ToNs(Sample(s)) <= x})
        IN  /\ \A s \in Sampled : ToNs(Sample(s)) \in ns[0]..ns[1000]
            /\ {ns[p] : p \in Permilles} \subseteq {ToNs(Sample(s)) : s \in Sampled}
            /\ 2 * AtMost(ns[500]) >= Share * tc
            /\ AtMost(ns[1000]) = Share * tc
<1>1. CInv /\ MInv /\ Short /\ [Next]_vars => [Covers]_vars
  BY LatenciesCover
<1>2. LatencyCoversTeam <=> [][Covers]_vars
  BY DEF LatencyCoversTeam
<1> HIDE DEF Covers
<1> QED
  BY <1>1, <1>2, CellsInvariance, MeasuresInvariance, SamplesAreCosted, PTL DEF Spec

-----------------------------------------------------------------------------
(* Types: the threads.                                                     *)

\* Those who have come to the start line.
Passed == {w \in Workers : wpc[w] \in {"spin", "go", "logging", "done"}}

\* The counter of the start line never exceeds those who came to it.
HInv ==
  /\ mpc \in {"idle", "create", "failed", "spawn", "await", "release", "join",
              "inline", "running", "terminate", "destroy", "report"}
  /\ next \in 0..MaxThreads /\ tc \in 0..MaxThreads
  /\ mpc = "join" => next < tc
  /\ initialized \in Int /\ -1 <= initialized /\ initialized <= Cardinality(Passed)
  /\ life \in {"absent", "created", "terminated"}
  /\ home \in -1..Cpus - 1
  /\ cpu \in [Workers -> -1..Cpus - 1]

LEMMA PassedAreFew ==
  /\ IsFiniteSet(Passed) /\ Cardinality(Passed) \in Nat /\ Cardinality(Passed) <= MaxThreads
<1>1. IsFiniteSet(Workers) /\ Cardinality(Workers) = MaxThreads
  BY SuiteAssumption, FS_Interval DEF Workers, H!Workers
<1>2. Passed \subseteq Workers
  BY DEF Passed
<1> QED
  BY <1>1, <1>2, FS_Subset, FS_CardinalityType

LEMMA HInvTypes == Frame /\ HInv => H!TypeOK
  BY PassedAreFew, SuiteAssumption DEF Frame, Stages, HInv, H!TypeOK, H!Anywhere, Workers

LEMMA InitHInv == Init => HInv
<1> SUFFICES ASSUME Init PROVE HInv
  OBVIOUS
<1>1. /\ tc = 0 /\ next = 0 /\ initialized = 0 /\ mpc = "idle" /\ life = "absent"
      /\ home = -1 /\ cpu = [w \in Workers |-> -1]
  BY DEF Init, H!Init, H!Anywhere, Workers
<1> QED
  BY <1>1, PassedAreFew, SuiteAssumption DEF HInv

LEMMA CpuOfIndex == \A i \in Nat : H!CpuOf(i) \in -1..Cpus - 1
  BY SuiteAssumption DEF H!CpuOf

\* Nobody leaves the line he came to, and one more comes at a time.
LEMMA NextPassed ==
  ASSUME Passed \subseteq Passed'
  PROVE  /\ Cardinality(Passed) <= Cardinality(Passed)'
         /\ Passed # Passed' => Cardinality(Passed) + 1 <= Cardinality(Passed)'
<1>1. /\ IsFiniteSet(Passed) /\ Cardinality(Passed) \in Nat
      /\ IsFiniteSet(Passed') /\ Cardinality(Passed') \in Nat
  <2>1. IsFiniteSet(Passed) /\ Cardinality(Passed) \in Nat
    BY PassedAreFew
  <2>2. Passed' \subseteq Workers /\ IsFiniteSet(Workers)
    BY SuiteAssumption, FS_Interval DEF Passed, Workers, H!Workers
  <2>3. IsFiniteSet(Passed')
    BY <2>2, FS_Subset
  <2> QED
    BY <2>1, <2>3, FS_CardinalityType
<1> QED
  BY <1>1, FS_Subset

LEMMA NextHInv == CInv /\ Frame /\ HInv /\ [Next]_vars => HInv'
<1> SUFFICES ASSUME CInv, Frame, HInv, [Next]_vars PROVE HInv'
  OBVIOUS
<1> USE SuiteAssumption
<1>1. ASSUME Passed \subseteq Passed' PROVE Cardinality(Passed) <= Cardinality(Passed)'
  BY <1>1, NextPassed
<1>2. Cardinality(Passed) \in Nat
  BY PassedAreFew
<1>3. Cardinality(Passed)' \in Nat
  <2>1. Passed' \subseteq Workers /\ IsFiniteSet(Workers)
    BY FS_Interval DEF Passed, Workers, H!Workers
  <2> QED
    BY <2>1, FS_Subset, FS_CardinalityType
<1>4. CASE \E n \in {ThreadCountSeq[t] : t \in 1..ThreadCountIdxs} : H!Call(n)
  <2>1. PICK n \in {ThreadCountSeq[t] : t \in 1..ThreadCountIdxs} : H!Call(n)
    BY <1>4
  <2>2. n \in 1..MaxThreads
    OBVIOUS
  <2> QED
    BY <1>3, <2>1, <2>2 DEF H!Call, HInv, H!Anywhere, Workers
<1>5. CASE /\ wpc' = wpc
           /\ \/ H!CreateSucceeds \/ H!CreateFails \/ H!SeeAllInitialized \/ H!Release
              \/ H!Join \/ H!InlineDone \/ H!Terminate \/ H!Destroy \/ H!Return
              \/ UNCHANGED harness
  <2>1. Passed' = Passed
    BY <1>5 DEF Passed
  <2>2. CASE H!CreateSucceeds
    <3>1. home' \in -1..Cpus - 1
      <4>1. home' = H!CpuOf(IF tc > 1 THEN tc ELSE 0)
        BY <2>2 DEF H!CreateSucceeds
      <4>2. (IF tc > 1 THEN tc ELSE 0) \in Nat
        BY DEF HInv
      <4> QED
        BY <4>1, <4>2, CpuOfIndex
    <3>2. mpc' \in {"spawn", "inline"} /\ life' = "created"
          /\ UNCHANGED <<tc, next, initialized, cpu>>
      BY <2>2 DEF H!CreateSucceeds
    <3> QED
      BY <2>1, <3>1, <3>2 DEF HInv
  <2>3. CASE H!Release
    <3>1. tc \in 1..MaxThreads
      BY <2>3 DEF Frame, H!Release
    <3> QED
      BY <1>3, <2>3, <3>1 DEF H!Release, H!affinity, HInv
  <2>4. CASE H!Join
    <3>1. /\ next < tc /\ next \in 0..MaxThreads /\ tc \in 0..MaxThreads /\ next' = next + 1
          /\ mpc' = IF next + 1 = tc THEN "terminate" ELSE "join"
          /\ UNCHANGED <<tc, initialized, life, home, cpu>>
      BY <2>4 DEF H!Join, H!affinity, HInv
    <3>2. next' \in 0..MaxThreads /\ (mpc' = "join" => next' < tc)
      BY <3>1
    <3> QED
      BY <2>1, <3>1, <3>2 DEF HInv
  <2>5. CASE H!CreateFails \/ H!SeeAllInitialized \/ H!InlineDone \/ H!Terminate
             \/ H!Destroy \/ H!Return
    BY <2>1, <2>5 DEF H!CreateFails, H!SeeAllInitialized, H!InlineDone, H!Terminate,
       H!Destroy, H!Return, H!affinity, HInv
  <2>6. CASE UNCHANGED harness
    BY <2>1, <2>6 DEF harness, HInv
  <2> QED
    BY <1>5, <2>2, <2>3, <2>4, <2>5, <2>6
<1>6. CASE H!Spawn
  <2>1. /\ wpc' = [wpc EXCEPT ![next] = "prepare"] /\ cpu' = [cpu EXCEPT ![next] = home]
        /\ next' = next + 1 /\ mpc = "spawn" /\ mpc' \in {"await", "spawn"}
        /\ UNCHANGED <<tc, initialized, life, home>>
    BY <1>6 DEF H!Spawn
  <2>2. next < tc /\ \A w \in Workers : wpc[w] # "none" => w < next
    BY <2>1 DEF Frame
  <2>3. Passed \subseteq Passed'
    <3>1. \A w \in Passed : w # next
      BY <2>2, Widths DEF Passed, Workers, H!Workers, HInv
    <3> QED
      BY <2>1, <3>1 DEF Passed, Frame
  <2>4. cpu' \in [Workers -> -1..Cpus - 1]
    BY <2>1 DEF HInv
  <2>5. next' \in 0..MaxThreads
    BY <2>1, <2>2 DEF HInv
  <2>6. Cardinality(Passed) <= Cardinality(Passed)'
    BY <1>1, <2>3
  <2>7. initialized' \in Int /\ -1 <= initialized' /\ initialized' <= Cardinality(Passed)'
    BY <1>2, <1>3, <2>1, <2>6 DEF HInv
  <2> QED
    BY <2>1, <2>4, <2>7, <2>5 DEF HInv
<1>7. CASE H!RunInline
  <2>1. /\ wpc' = [wpc EXCEPT ![0] = "prepare"] /\ cpu' = [cpu EXCEPT ![0] = home]
        /\ mpc = "inline" /\ mpc' = "running"
        /\ UNCHANGED <<tc, next, initialized, life, home>>
    BY <1>7 DEF H!RunInline
  <2>2. Passed \subseteq Passed'
    BY <2>1 DEF Passed, Frame
  <2>3. cpu' \in [Workers -> -1..Cpus - 1]
    BY <2>1 DEF HInv
  <2>4. Cardinality(Passed) <= Cardinality(Passed)'
    BY <1>1, <2>2
  <2>5. initialized' \in Int /\ -1 <= initialized' /\ initialized' <= Cardinality(Passed)'
    BY <1>2, <1>3, <2>1, <2>4 DEF HInv
  <2> QED
    BY <2>1, <2>3, <2>5 DEF HInv
<1>8. ASSUME NEW w \in Workers, H!WorkerStep(w) PROVE HInv'
  <2>1. wpc[w] \notin {"none", "done"} /\ UNCHANGED <<tc, mpc, next, life, home>>
    BY <1>8 DEF H!WorkerStep, H!PrepareThread, H!Arrive, H!SeeRelease, H!StartLogging,
                H!StopLogging, H!affinity
  <2>2. cpu' \in [Workers -> -1..Cpus - 1]
    <3>1. H!CpuOf(w) \in -1..Cpus - 1
      BY CpuOfIndex DEF Workers, H!Workers
    <3> QED
      BY <1>8, <3>1 DEF H!WorkerStep, H!PrepareThread, H!Arrive, H!SeeRelease,
         H!StartLogging, H!StopLogging, H!affinity, HInv
  <2>3. Passed \subseteq Passed'
    BY <1>8 DEF H!WorkerStep, H!PrepareThread, H!Arrive, H!SeeRelease, H!StartLogging,
                H!StopLogging, Passed, Frame
  <2>4. initialized' \in Int /\ -1 <= initialized' /\ initialized' <= Cardinality(Passed)'
    <3>1. CASE H!Arrive(w)
      <4>1. w \in Passed' /\ w \notin Passed /\ initialized' = initialized + 1
        BY <3>1 DEF H!Arrive, Passed, Frame
      <4>2. Cardinality(Passed) + 1 <= Cardinality(Passed)'
        BY <2>3, <4>1, NextPassed
      <4> QED
        BY <1>2, <1>3, <4>1, <4>2 DEF HInv
    <3>2. CASE ~H!Arrive(w)
      <4>1. initialized' = initialized
        BY <1>8, <3>2 DEF H!WorkerStep, H!PrepareThread, H!SeeRelease, H!StartLogging,
           H!StopLogging
      <4> QED
        BY <1>1, <1>2, <1>3, <2>3, <4>1 DEF HInv
    <3> QED
      BY <3>1, <3>2
  <2> QED
    BY <2>1, <2>2, <2>4 DEF HInv
<1>9. H!Next \/ UNCHANGED harness
  BY StepsOfHarness DEF H!vars, H!affinity, harness
<1>10. ASSUME \/ H!CreateSucceeds \/ H!CreateFails \/ H!SeeAllInitialized \/ H!Release
              \/ H!Join \/ H!InlineDone \/ H!Terminate \/ H!Destroy \/ H!Return
              \/ UNCHANGED harness
       PROVE  wpc' = wpc
  BY <1>10 DEF H!CreateSucceeds, H!CreateFails, H!SeeAllInitialized, H!Release, H!Join,
     H!InlineDone, H!Terminate, H!Destroy, H!Return, harness
<1>11. H!Next =>
         \/ \E n \in {ThreadCountSeq[t] : t \in 1..ThreadCountIdxs} : H!Call(n)
         \/ H!CreateSucceeds \/ H!CreateFails \/ H!Spawn \/ H!SeeAllInitialized
         \/ H!Release \/ H!Join \/ H!RunInline \/ H!InlineDone
         \/ H!Terminate \/ H!Destroy \/ H!Return
         \/ \E w \in Workers : H!WorkerStep(w)
  BY DEF H!Next, H!MainStep, H!Create, Workers
<1> QED
  BY <1>4, <1>5, <1>6, <1>7, <1>8, <1>9, <1>10, <1>11

-----------------------------------------------------------------------------
(* Types: the results.                                                     *)

\* The clock, also in nanoseconds, does not wrap around.
ClockFits == now < U64Mod /\ ToNs(now) < U64Mod

TableTyped == \A a \in Addresses : table[a] = NoResult \/ ResultOK(table[a])

\* Only the cell of the test changes.
LEMMA CellTyped ==
  ASSUME TableTyped, DOMAIN table = Addresses, NEW new, ResultOK(new),
         table' = [table EXCEPT ![Cell] = new]
  PROVE  TableTyped'
<1> SUFFICES ASSUME NEW a \in Addresses
             PROVE  table'[a] = NoResult \/ ResultOK(table'[a])
  BY DEF TableTyped, ResultOK
<1>1. CASE a = Cell
  BY <1>1
<1>2. CASE a # Cell
  BY <1>2 DEF TableTyped
<1> QED
  BY <1>1, <1>2

LEMMA BeginTyped ==
  ASSUME CInv, TableTyped, BeginThroughput \/ BeginLatency
  PROVE  TableTyped'
<1>1. /\ ret = -1 /\ Cell \in Addresses /\ DOMAIN table = Addresses
      /\ Threads \in 0..MaxThreads /\ Threads # -1
  <2>1. ret = -1
    BY DEF BeginThroughput, BeginLatency
  <2>2. InShape(pos.l, pos.t, pos.it)
    BY <2>1 DEF CInv, Indexed
  <2>3. pos.t + 1 \in 1..ThreadCountIdxs
    BY <2>2, ShapeAssumption DEF InShape
  <2>4. Threads \in 1..MaxThreads
    BY <2>3, SuiteAssumption DEF Threads
  <2> QED
    BY <2>1, <2>2, <2>4, AddressInRange, Widths DEF CInv, CellsWritten, Cell
<1>2. U32Mod - 1 \in Nat /\ U64Mod - 1 \in Nat
  BY WidthAssumption
<1>3. CASE BeginThroughput
  <2> DEFINE new == [ZeroResult EXCEPT !.thread_count = Threads]
  <2>1. ResultOK(new)
    BY <1>1, <1>2 DEF ZeroResult, ResultOK
  <2>2. table' = [table EXCEPT ![Cell] = new]
    BY <1>3 DEF BeginThroughput
  <2> HIDE DEF new
  <2> QED
    BY <1>1, <2>1, <2>2, CellTyped
<1>4. CASE BeginLatency
  <2> DEFINE new == [table[Cell] EXCEPT !.thread_count = Threads]
  <2>1. /\ DOMAIN table[Cell] = Fields /\ table[Cell].thread_count = Threads
        /\ table' = [table EXCEPT ![Cell] = new]
    BY <1>1, <1>4 DEF BeginLatency, CInv, CellsWritten
  <2>2. table[Cell] # NoResult
    <3>1. NoResult.thread_count = -1
      BY DEF NoResult, ZeroResult
    <3> QED
      BY <1>1, <2>1, <3>1
  <2>3. ResultOK(new)
    BY <1>1, <2>1, <2>2 DEF TableTyped, ResultOK, Fields
  <2> HIDE DEF new
  <2> QED
    BY <1>1, <2>1, <2>3, CellTyped
<1> QED
  BY <1>3, <1>4

\* What a test reports on starts from a cell that a test has begun.
LEMMA CellBegun ==
  ASSUME CInv, TableTyped, ret = -1, mpc # "idle"
  PROVE  /\ Cell \in Addresses /\ DOMAIN table = Addresses
         /\ DOMAIN table[Cell] = Fields /\ ResultOK(table[Cell])
<1>1. InShape(pos.l, pos.t, pos.it)
  BY DEF CInv, Indexed
<1>2. Cell \in Addresses
  BY <1>1, AddressInRange DEF Cell
<1>3. /\ DOMAIN table = Addresses /\ DOMAIN table[Cell] = Fields
      /\ table[Cell].thread_count = Threads
  BY DEF CInv, CellsWritten
<1>4. Threads \in 1..MaxThreads
  <2>1. pos.t + 1 \in 1..ThreadCountIdxs
    BY <1>1, ShapeAssumption DEF InShape
  <2> QED
    BY <2>1, SuiteAssumption DEF Threads
<1>5. NoResult.thread_count = -1
  BY DEF NoResult, ZeroResult
<1>6. table[Cell] # NoResult
  BY <1>3, <1>4, <1>5, Widths
<1> QED
  BY <1>2, <1>3, <1>6 DEF TableTyped

LEMMA TeamFaultsTyped ==
  ASSUME MsgsFit, MInv, mpc = "report", phase = "throughput"
  PROVE  TeamFaults \in 0..U64Mod - 1
<1> DEFINE faults == [w \in Team |-> TmFaults(meas[w])]
<1>1. /\ tc \in 1..MaxThreads /\ IsFiniteSet(Team) /\ Team \subseteq Workers
      /\ Share \in Nat /\ Share < U32Mod \div 2
  BY TeamDone, SharesOfTeam
<1>2. faults \in [Team -> 0..Share]
  <2> SUFFICES ASSUME NEW w \in Team PROVE TmFaults(meas[w]) \in 0..Share
    OBVIOUS
  <2>1. /\ meas[w].expected = Share /\ meas[w].successes = counted[w]
        /\ counted[w] \in 0..Share
    BY <1>1, TeamDone DEF Measured, TmMeasured
  <2>2. PICK few \in 0..Share : few = meas[w].expected - meas[w].successes
    BY <1>1, <2>1
  <2>3. few % U32Mod = few /\ few < U32Mod \div 2
    BY <1>1, <2>2, Widths
  <2> QED
    BY <2>2, <2>3 DEF TmFaults, ToInt
<1>3. SumFunction(faults) \in Int
  <2> HIDE DEF faults
  <2>1. SumFunction(faults) \in 0..Share * Cardinality(Team)
    BY <1>1, <1>2, SumBounded
  <2> QED
    BY <2>1
<1>4. SumFunction(faults) % U64Mod \in 0..U64Mod - 1
  <2> HIDE DEF faults
  <2> QED
    BY <1>3, WidthAssumption
<1> QED
  BY <1>4 DEF TeamFaults, ToU64

LEMMA ReportThroughputTyped ==
  ASSUME MsgsFit, CInv, MInv, TableTyped, ClockFits, ReportThroughput
  PROVE  TableTyped'
<1>1. mpc = "report" /\ phase = "throughput" /\ ret = -1
  BY DEF ReportThroughput, H!Return, CInv, Doing
<1>2. /\ Cell \in Addresses /\ DOMAIN table = Addresses
      /\ DOMAIN table[Cell] = Fields /\ ResultOK(table[Cell])
  BY <1>1, CellBegun
<1> DEFINE producers == ToNs(ToU64(MaxEnd - MinStart))
           total == ToNs(ToU64(totalEnd - MinStart))
           a == [table[Cell] EXCEPT !.messages = Msgs]
           b == [a EXCEPT !.throughput_faults = TeamFaults]
           c == [b EXCEPT !.producer_ns = producers]
           new == [c EXCEPT !.total_ns = total]
<1>3. table' = [table EXCEPT ![Cell] = new]
  BY <1>2 DEF ReportThroughput
<1>4. TeamFaults \in 0..U64Mod - 1
  BY <1>1, TeamFaultsTyped
<1>5. producers \in 0..U64Mod - 1 /\ total \in 0..U64Mod - 1
  <2>1. /\ MaxEnd - MinStart \in 0..now /\ totalEnd - MinStart \in 0..now /\ now \in Nat
    <3>1. TInv
      BY DEF MInv
    <3> QED
      BY <3>1, TeamTimes
  <2>2. \A n \in 0..now : ToU64(n) = n /\ n \in Nat
    BY <2>1, Widths DEF ToU64, ClockFits
  <2>3. \A n \in 0..now : ToNs(n) \in Nat /\ ToNs(n) <= ToNs(now)
    BY <2>1, <2>2, ToNsMonotone, ClockAssumption DEF ToNs
  <2>4. ToNs(now) \in Nat /\ ToNs(now) < U64Mod
    BY <2>1, ClockAssumption DEF ToNs, ClockFits
  <2>5. \A n \in 0..now : ToNs(ToU64(n)) \in 0..U64Mod - 1
    BY <2>2, <2>3, <2>4, Widths
  <2> QED
    BY <2>1, <2>5
<1>6. ResultOK(new)
  <2> HIDE DEF producers, total
  <2>1. DOMAIN new = Fields
    BY <1>2
  <2>2. /\ new.messages = Msgs /\ new.throughput_faults = TeamFaults
        /\ new.producer_ns = producers /\ new.total_ns = total
        /\ new.thread_count = table[Cell].thread_count
        /\ new.latency_faults = table[Cell].latency_faults
        /\ new.latency_ns = table[Cell].latency_ns
    BY <1>2 DEF Fields
  <2> HIDE DEF new
  <2> QED
    BY <1>2, <1>4, <1>5, <2>2 DEF ResultOK
<1> HIDE DEF new
<1> QED
  BY <1>2, <1>3, <1>6, CellTyped

LEMMA ReportLatencyTyped ==
  ASSUME MsgsFit, CInv, MInv, TableTyped, ReportLatency
  PROVE  TableTyped'
<1>1. mpc = "report" /\ phase = "latency" /\ ret = -1
  BY LatencyReported
<1>2. /\ Cell \in Addresses /\ DOMAIN table = Addresses
      /\ DOMAIN table[Cell] = Fields /\ ResultOK(table[Cell])
  BY <1>1, CellBegun
<1>3. /\ \A i \in Int : ToU32(i) \in 0..U32Mod - 1 /\ ToU64(i) \in 0..U64Mod - 1
      /\ \A i \in Nat : ToNs(i) \in Int
  BY WidthAssumption, ClockAssumption DEF ToU32, ToU64, ToNs
<1>4. \A i \in Int : CorrectU32(i) \in 0..U32Mod - 1 /\ CorrectU64(i) \in 0..U64Mod - 1
  <2>1. ToU32(OverheadNs) \in Int
    BY <1>3, ClockAssumption
  <2> QED
    BY <1>3, <2>1 DEF CorrectU32, CorrectU64
<1>5. \A p \in Permilles : ToU32(ToNs(LmPercentile(Finished, p))) \in Int
  <2> SUFFICES ASSUME NEW p \in Permilles
               PROVE  LmPercentile(Finished, p) \in Nat
    BY <1>3
  <2> DEFINE rank == 1 + PercentileIndex(Share * tc, p)
  <2>1. PICK samples \in Seq(Samples32) :
          /\ samples = Joined.results /\ rank \in 1..Len(samples)
          /\ LmPercentile(Finished, p) = Ranked(samples, rank)
    BY <1>1, FinishedIs
  <2> HIDE DEF rank
  <2>2. LmPercentile(Finished, p) \in ToSet(samples)
    BY <2>1, RankedIs
  <2>3. \A i \in DOMAIN samples : samples[i] \in Samples32
    OBVIOUS
  <2> QED
    BY <2>2, <2>3, Widths DEF ToSet, Samples32
<1>6. LmFaults(Finished) \in 0..U64Mod - 1
  <2>1. Finished.expected = 0 /\ Finished.success \in Nat
    BY <1>1, FinishedIs
  <2>2. Finished.expected - Finished.success \in Int
    BY <2>1
  <2> QED
    BY <1>3, <2>2 DEF LmFaults
<1> DEFINE ns == [p \in Permilles |-> ToU32(ToNs(LmPercentile(Finished, p)))]
           a == [table[Cell] EXCEPT !.latency_faults = LmFaults(Finished)]
           b == [a EXCEPT !.latency_ns = ns]
<1>7. /\ DOMAIN b = Fields /\ b.latency_ns = ns /\ b.latency_faults = LmFaults(Finished)
      /\ b.producer_ns = table[Cell].producer_ns /\ b.total_ns = table[Cell].total_ns
      /\ b.thread_count = table[Cell].thread_count /\ b.messages = table[Cell].messages
      /\ b.throughput_faults = table[Cell].throughput_faults
  <2> HIDE DEF ns
  <2> QED
    BY <1>2 DEF Fields
<1>8. table' = [table EXCEPT ![Cell] = Corrected(b)]
  BY DEF ReportLatency
<1> HIDE DEF b
<1>9. LET tr == Corrected(b)
      IN  /\ tr.producer_ns = CorrectU64(b.producer_ns)
          /\ tr.total_ns = CorrectU64(b.total_ns)
          /\ tr.latency_ns = [p \in Permilles |-> CorrectU32(b.latency_ns[p])]
          /\ tr.latency_faults = b.latency_faults /\ tr.thread_count = b.thread_count
          /\ tr.messages = b.messages /\ tr.throughput_faults = b.throughput_faults
  BY <1>7 DEF Corrected, Fields
<1>10. ResultOK(Corrected(b))
  <2> DEFINE tr == Corrected(b)
  <2>1. table[Cell].producer_ns \in Int /\ table[Cell].total_ns \in Int
    BY <1>2 DEF ResultOK
  <2>2. tr.producer_ns \in 0..U64Mod - 1 /\ tr.total_ns \in 0..U64Mod - 1
    BY <1>4, <1>7, <1>9, <2>1
  <2>3. tr.latency_ns \in [Permilles -> 0..U32Mod - 1]
    <3>1. \A p \in Permilles : CorrectU32(b.latency_ns[p]) \in 0..U32Mod - 1
      BY <1>4, <1>5, <1>7
    <3> HIDE DEF ns
    <3> QED
      BY <1>9, <3>1
  <2>4. /\ tr.latency_faults \in 0..U64Mod - 1 /\ tr.thread_count = table[Cell].thread_count
        /\ tr.messages = table[Cell].messages
        /\ tr.throughput_faults = table[Cell].throughput_faults
    BY <1>6, <1>7, <1>9
  <2> HIDE DEF tr
  <2> QED
    BY <1>2, <2>2, <2>3, <2>4 DEF ResultOK, tr
<1> QED
  BY <1>2, <1>8, <1>10, CellTyped

LEMMA NextTableTyped ==
  ASSUME MsgsFit, CInv, MInv, TableTyped, ClockFits, [Next]_vars
  PROVE  TableTyped'
<1>1. CASE BeginThroughput \/ BeginLatency
  BY <1>1, BeginTyped
<1>2. CASE ReportThroughput
  BY <1>2, ReportThroughputTyped
<1>3. CASE ReportLatency
  BY <1>3, ReportLatencyTyped
<1>4. CASE CreateFails
  BY <1>4 DEF CreateFails, TableTyped
<1>5. CASE UNCHANGED suite
  <2>1. table' = table
    BY <1>5 DEF suite
  <2> QED
    BY <2>1 DEF TableTyped, ResultOK
<1>6. CASE CreateSucceeds \/ Spawn \/ RunInline \/ MainWait \/ Terminate \/ Destroy
  <2>1. UNCHANGED suite
    BY <1>6 DEF CreateSucceeds, Spawn, RunInline, Prepared, MainWait, Terminate, Destroy
  <2> QED
    BY <1>5, <2>1
<1>7. ASSUME NEW w \in Workers, WorkerStep(w) PROVE TableTyped'
  <2>1. UNCHANGED suite
    BY <1>7 DEF WorkerStep, WorkerWait, StartLogging, LogThroughput, StopThroughput,
       LogLatency, StopLatency, Entry
  <2> QED
    BY <1>5, <2>1
<1>8. CASE UNCHANGED vars
  BY <1>5, <1>8 DEF vars
<1> QED
  BY <1>1, <1>2, <1>3, <1>4, <1>6, <1>7, <1>8 DEF Next, MainStep

\* Types: what the threads are doing for every configuration, and every field
\* of a result within its width while the clock is.
THEOREM SuiteTypes == ASSUME MsgsFit PROVE Spec /\ []ClockFits => []TypeOK
<1>1. Init => HInv /\ TableTyped
  <2>1. Init => TableTyped
    BY DEF Init, TableTyped
  <2> QED
    BY <2>1, InitHInv
<1>2. CInv /\ MInv /\ HInv /\ [Next]_vars => HInv'
  <2>1. MInv => Frame
    BY DEF MInv, TInv
  <2> QED
    BY <2>1, NextHInv
<1>3. MsgsFit /\ CInv /\ MInv /\ TableTyped /\ ClockFits /\ [Next]_vars => TableTyped'
  BY NextTableTyped
<1>4. CInv /\ MInv /\ HInv /\ TableTyped => TypeOK
  <2> SUFFICES ASSUME CInv, MInv, HInv, TableTyped PROVE TypeOK
    OBVIOUS
  <2>1. H!TypeOK
    BY HInvTypes DEF MInv, TInv
  <2>2. phase \in {"throughput", "latency"}
    BY DEF MInv, SInv, Typed
  <2>3. ret \in {-1, 0, 1} /\ (ret # 0 => InShape(pos.l, pos.t, pos.it))
    BY DEF CInv, Doing, Indexed
  <2>4. now \in Nat /\ totalEnd \in 0..now
    BY DEF MInv, TInv
  <2> QED
    BY <2>1, <2>2, <2>3, <2>4 DEF TypeOK, TableTyped
<1> QED
  BY <1>1, <1>2, <1>3, <1>4, CellsInvariance, MeasuresInvariance, PTL DEF Spec
=============================================================================
