----------------------------- MODULE MCAdapters -----------------------------
(* Adapters for TLC: every logger, three threads.                           *)
EXTENDS Adapters, TLC

MCLoggers ==
  {"malc-tls", "malc-heap", "malc-fixed", "malc-fixed-cpu", "malc-tls-heap",
   "malc-fixed-heap", "malc-fixed-cpu-heap", "mal-heap", "mal-fixed",
   "spdlog-async", "spdlog-sync", "glog", "g3log", "nanolog", "nanolog-tls",
   "nanolog-iyengar"}
MCSymmetry == Permutations(Threads)
=============================================================================
