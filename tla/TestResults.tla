---------------------------- MODULE TestResults ----------------------------
(***************************************************************************)
(* test_results (test_results.hpp): a three-dimensional array of results,  *)
(* by logger, thread count and iteration, laid out in one allocation.      *)
(***************************************************************************)
EXTENDS Integers

CONSTANTS
  LoggerCount,      \* m_logger_count
  ThreadCountIdxs,  \* m_thread_count_idxs
  Iterations        \* m_iterations

ASSUME ShapeAssumption ==
  /\ LoggerCount \in Nat /\ ThreadCountIdxs \in Nat /\ Iterations \in Nat

\* init: new test_result[logger_count * thread_count_idxs * iterations].
Addresses == 0..LoggerCount * ThreadCountIdxs * Iterations - 1

\* at: the three indices in range.
InShape(logger, thread, iteration) ==
  /\ logger \in 0..LoggerCount - 1
  /\ thread \in 0..ThreadCountIdxs - 1
  /\ iteration \in 0..Iterations - 1

\* mutant: strides in the wrong order
AddressWrongStride(logger, thread, iteration) ==
  logger * Iterations + thread * Iterations + iteration

\* at: the cell of three indices that are in range.
Address(logger, thread, iteration) ==
  logger * (ThreadCountIdxs * Iterations) + thread * Iterations + iteration
=============================================================================
