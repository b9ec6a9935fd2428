------------------------------ MODULE Latency ------------------------------
(***************************************************************************)
(* latency_measurements.hpp: the samples one producer takes in a latency   *)
(* test, the iterator of its range-for loop, and what run_latency does     *)
(* with the samples afterwards.  m_min and m_max are written by reset()    *)
(* only and never read: they are left out.                                 *)
(***************************************************************************)
EXTENDS CInt, SequencesExt

\* The constructor and reset().
LmReset == [results |-> <<>>, expected |-> 0, success |-> 0]

\* prepare (size_t elements): the test for a negative size_t is never true.
LmPrepare(lm, elements) == [LmReset EXCEPT !.expected = elements]

\* add_sample (cpuclock_t): a sample keeps its low 32 bits.
LmAddSample(lm, sample) == [lm EXCEPT !.results = Append(@, ToU32(sample))]

LmAddSuccesses(lm, count) == [lm EXCEPT !.success = ToU64(@ + count)]

\* mutant: the samples come over, the count of what is expected does not
LmJoinSamplesOnly(lm, other) == [lm EXCEPT !.results = @ \o other.results]

\* join (latency_measurements&): what the first one becomes; the other is
\* reset.
LmJoin(lm, other) ==
  [results  |-> lm.results \o other.results,
   expected |-> ToU64(lm.expected + Len(other.results)),
   success  |-> ToU64(lm.success + other.success)]

\* finish(): false, and nothing done, when samples are missing.
LmComplete(lm) == Len(lm.results) = lm.expected

\* std::sort: in place k, the least sample with k samples not above it.
Ranked(samples, k) ==
  Min({v \in ToSet(samples) : k <= Cardinality({i \in DOMAIN samples : samples[i] <= v})})

Sorted(samples) == [k \in DOMAIN samples |-> Ranked(samples, k)]

LmFinish(lm) ==
  IF LmComplete(lm)
  THEN [lm EXCEPT !.expected = 0, !.results = Sorted(@)]
  ELSE lm

\* size_t get_faults() const.
LmFaults(lm) == ToU64(lm.expected - lm.success)

\* get_percentile_ns (double), the percentile in thousandths; the index is
\* rounded half up and counts from 0.
PercentileIndex(size, permille) ==
  LET idx == (size * permille + 500) \div 1000
  IN  IF idx < size - 1 THEN idx ELSE size - 1

LmPercentile(lm, permille) ==
  lm.results[1 + PercentileIndex(Len(lm.results), permille)]

\* begin(); end() has no effect.  m_prev_point is not initialised.
LmBegin(lm) == [remaining |-> lm.expected, expected |-> lm.expected, prev |-> 0]

\* operator!=, first call (nothing consumed yet): true, whatever is expected.
LmFirst(iter) == iter.remaining = iter.expected

\* operator!=, as what the measurements and the iterator become and whether
\* the loop goes on.  The clock is read for the sample (here) and again for
\* the start of the next one (then).
LmCompare(lm, iter, here, then) ==
  IF LmFirst(iter)
  THEN [lm |-> lm, iter |-> [iter EXCEPT !.prev = then], more |-> TRUE]
  ELSE [lm   |-> LmAddSample(lm, ToU64(here - iter.prev)),
        iter |-> [iter EXCEPT !.prev = then],
        more |-> iter.remaining # 0]

\* operator++: at 0 the assertion of a debug build fails, a release wraps.
LmNext(iter) == [iter EXCEPT !.remaining = ToU64(@ - 1)]
=============================================================================
