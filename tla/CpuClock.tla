------------------------------ MODULE CpuClock ------------------------------
(***************************************************************************)
(* cpuclock.hpp / cpuclock.cpp: conversion of tick counts to nanoseconds,  *)
(* and the correction test_result applies for the cost of reading the      *)
(* clock.  The reading itself (benchmark::cycleclock::Now) is a variable   *)
(* of the module that measures.                                            *)
(***************************************************************************)
EXTENDS CInt

CONSTANTS
  Freq,         \* cpuclockfreq: ticks in NsPerSec nanoseconds
  NsPerSec,     \* 1000000000 in the program
  OverheadNs    \* overhead_ns, the least cost of a reading, as measured

ASSUME ClockAssumption ==
  /\ Freq \in Nat \ {0} /\ NsPerSec \in Nat \ {0}
  /\ OverheadNs \in Nat

\* cpuclock_to_ns: the cast truncates.
ToNs(ticks) == (ticks * NsPerSec) \div Freq

\* mutant: the wrong sign
CorrectU32Up(v) == ToU32(v + ToU32(OverheadNs))

\* test_result::clock_correct on a 32-bit and on a 64-bit field.
CorrectU32(v) == ToU32(v - ToU32(OverheadNs))
CorrectU64(v) == ToU64(v - ToU32(OverheadNs))
=============================================================================
