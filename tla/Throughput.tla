----------------------------- MODULE Throughput -----------------------------
(***************************************************************************)
(* throughput_measurements.hpp: what one producer records in a throughput  *)
(* test, and the iterator its range-for loop runs on, as operations on     *)
(* records.  begin() makes the iterator, end() stamps the start, the       *)
(* comparison that ends the loop stamps the end.                           *)
(***************************************************************************)
EXTENDS CInt

\* The constructor and reset().
TmReset == [start |-> 0, end |-> 0, expected |-> 0, successes |-> 0]

\* mutant: counts one message fewer
TmPrepareShort(tm, elements) ==
  IF ToInt(elements) < 0 THEN tm ELSE [TmReset EXCEPT !.expected = ToInt(elements) - 1]

\* prepare (int elements), called with a size_t: a count whose conversion
\* is negative is refused, and the caller does not look at the result.
TmPrepare(tm, elements) ==
  IF ToInt(elements) < 0 THEN tm ELSE [TmReset EXCEPT !.expected = ToInt(elements)]

\* mutant: only the last report counts, as a success
TmAddOneSuccess(tm, count) == [tm EXCEPT !.successes = ToU64(@ + 1)]

\* add_successes (uint32_t count).
TmAddSuccesses(tm, count) == [tm EXCEPT !.successes = ToU64(@ + ToU32(count))]

\* int get_faults() const.
TmFaults(tm) == ToInt(tm.expected - tm.successes)

\* begin(), and end(), which the range-for evaluates right after it.
TmBegin(tm) == [remaining |-> ToU64(tm.expected)]
TmEnd(tm, now) == [tm EXCEPT !.start = now]

\* operator!= : may the loop go on?
TmMore(iter) == iter.remaining > 0

\* operator!= when it may not.
TmStop(tm, now) == [tm EXCEPT !.end = now]

\* operator++.
TmNext(iter) == [iter EXCEPT !.remaining = ToU64(@ - 1)]
=============================================================================
