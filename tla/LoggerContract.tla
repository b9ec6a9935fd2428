--------------------------- MODULE LoggerContract ---------------------------
(***************************************************************************)
(* What the abstract class `logger` (logger.hpp) asks of a program that    *)
(* drives a logger, as the order of the virtual calls: one instance is     *)
(* created, every thread of the team returns from prepare_thread before    *)
(* any of them is timed, logging happens only on a created instance,       *)
(* terminate is called once the team has logged and destroy after it.      *)
(* Both benchmark drivers (RunHarness, GoogleAdaptor) implement it.        *)
(***************************************************************************)

CONSTANT Threads  \* identities a producer thread can have

VARIABLES
  life,      \* the logger instance: "absent", "created" or "terminated"
  team,      \* threads that will log into this instance
  ready,     \* threads that have returned from prepare_thread
  logging,   \* threads whose timed logging loop is running
  finished   \* threads that have left it

vars == <<life, team, ready, logging, finished>>

TypeOK ==
  /\ life \in {"absent", "created", "terminated"}
  /\ team \subseteq Threads
  /\ ready \subseteq team
  /\ logging \subseteq ready
  /\ finished \subseteq ready

Init ==
  /\ life = "absent"
  /\ team = {} /\ ready = {} /\ logging = {} /\ finished = {}

\* bool create (std::size_t): an instance for the threads in T.
Create(T) ==
  /\ life = "absent"
  /\ life' = "created"
  /\ team' = T
  /\ ready' = {} /\ logging' = {} /\ finished' = {}

\* bool prepare_thread (std::size_t), on the thread that will log.
PrepareThread(w) ==
  /\ life = "created"
  /\ w \in team \ ready
  /\ ready' = ready \cup {w}
  /\ UNCHANGED <<life, team, logging, finished>>

\* The timed part of run_logging begins: "Time measurements won't start
\* until all threads return from this function" (prepare_thread).
StartLogging(w) ==
  /\ life = "created"
  /\ ready = team
  /\ w \in team \ (logging \cup finished)
  /\ logging' = logging \cup {w}
  /\ UNCHANGED <<life, team, ready, finished>>

StopLogging(w) ==
  /\ life = "created"
  /\ w \in logging
  /\ logging' = logging \ {w}
  /\ finished' = finished \cup {w}
  /\ UNCHANGED <<life, team, ready>>

\* bool terminate(): empties the queue of an asynchronous logger, so that
\* nobody may still be filling it.
Terminate ==
  /\ life = "created"
  /\ finished = team
  /\ life' = "terminated"
  /\ UNCHANGED <<team, ready, logging, finished>>

\* void destroy(). See terminate.
Destroy ==
  /\ life = "terminated"
  /\ life' = "absent"
  /\ team' = {} /\ ready' = {} /\ logging' = {} /\ finished' = {}

Next ==
  \/ \E T \in SUBSET Threads : Create(T)
  \/ \E w \in Threads : PrepareThread(w) \/ StartLogging(w) \/ StopLogging(w)
  \/ Terminate
  \/ Destroy

Spec == Init /\ [][Next]_vars

\* What the order of the calls gives a logger: it is logged into only when
\* the whole team is prepared, and terminated only when nobody will log into
\* it any more.
Orderly ==
  /\ logging \cup finished # {} => life # "absent" /\ ready = team
  /\ life = "terminated" => logging = {} /\ finished = team
=============================================================================
