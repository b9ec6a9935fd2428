---------------------------- MODULE MCRunHarness ----------------------------
(* RunHarness for TLC: the inline path and teams of two to four threads.   *)
EXTENDS RunHarness

MCThreadCounts == {1, 2, 4}
=============================================================================
