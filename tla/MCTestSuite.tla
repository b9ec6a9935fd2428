---------------------------- MODULE MCTestSuite ----------------------------
(* TestSuite for TLC: thread counts, outcomes and clock steps by name.     *)
EXTENDS TestSuite

MCOne == <<1>>
MCTwo == <<2>>
MCOneTwo == <<1, 2>>
MCAnyOutcome == BOOLEAN
MCAlways == {TRUE}
MCTick == {1}
MCStill == {0}
=============================================================================
