-------------------------- MODULE MCGoogleAdaptor --------------------------
(* GoogleAdaptor for TLC: runs of one, two and three threads in any order. *)
EXTENDS GoogleAdaptor

MCThreadCounts == {1, 2, 3}
MCAlways == {TRUE}
MCNever == {FALSE}
MCAny == BOOLEAN
=============================================================================
