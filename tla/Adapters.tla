------------------------------ MODULE Adapters ------------------------------
(***************************************************************************)
(* The loggers of init_logvector (malc.cpp, mal.cpp, spdlog.cpp, glog.cpp, *)
(* g3log.cpp, nanolog.cpp, nanolog_iyengar.cpp): what their create,        *)
(* prepare_thread, terminate, destroy and destructors do to the instances  *)
(* of the libraries behind them and to the memory of their queues.         *)
(*                                                                         *)
(* The program drives them, one at a time and many times each, as          *)
(* LoggerContract says; RunHarness and GoogleAdaptor are shown to keep to  *)
(* it.  The libraries are external: an instance of one is what the         *)
(* adapter's member is left with, and may fail where its API can.          *)
(***************************************************************************)
EXTENDS Integers, FiniteSets

CONSTANTS
  Loggers,   \* the loggers compiled in, by their names
  Threads,   \* the threads that may drive one
  MemBytes,  \* the memory create is told to use
  Cpus,      \* bl_get_cpu_count
  None

Malc == {"malc-tls", "malc-heap", "malc-fixed", "malc-fixed-cpu",
         "malc-tls-heap", "malc-fixed-heap", "malc-fixed-cpu-heap"}
Mal == {"mal-heap", "mal-fixed"}
Spdlog == {"spdlog-async", "spdlog-sync"}
Nanolog == {"nanolog", "nanolog-tls"}

\* Libraries that are one instance in the program, and never torn down. The
\* nanologs are not set up by an adapter either: they run from the start.
Singletons == {"glog"} \cup Nanolog

ASSUME AdaptersAssumption ==
  /\ Loggers \subseteq Malc \cup Mal \cup Spdlog \cup Singletons
                         \cup {"g3log", "nanolog-iyengar"}
  /\ None \notin Loggers
  /\ IsFiniteSet(Threads)
  /\ MemBytes \in Nat /\ Cpus \in Nat \ {0}

VARIABLES
  life, team, ready, logging, finished,  \* of LoggerContract
  mode,      \* the subcommand: "own" or "google"
  process,   \* "running", "failed" (by a create), "stuck", "exited" (after its
             \* last test), "gave_up" (after a create that failed) or "aborted"
  cur,       \* the logger that was last created, or None
  member,    \* what each adapter holds of its library
  name,      \* whose logger spdlog has registered as "spdlog", or None
  lost,      \* adapters that overwrote the pointer to an instance
  cfg,       \* the memory the queue of this instance was configured with
  tls        \* the memory given to the threads of this instance

contract == <<life, team, ready, logging, finished>>
memory == <<cfg, tls>>
vars == <<contract, mode, process, cur, member, name, lost, memory>>

C == INSTANCE LoggerContract

\* msg_allocator (malc) or can_use_heap_q (mal); bytes of a fixed queue.
NoQueue == [heap |-> FALSE, bytes |-> 0, per_cpu |-> FALSE]

Init ==
  /\ C!Init
  /\ mode \in {"own", "google"}
  /\ process = "running"
  /\ cur = None
  /\ member = [l \in Loggers |-> IF l \in Nanolog THEN "running" ELSE "null"]
  /\ name = None
  /\ lost = {}
  /\ cfg = NoQueue /\ tls = 0

-----------------------------------------------------------------------------
(* What create tells the library of memory: set_cfg.                       *)

Bounded(c) == [c EXCEPT !.heap = FALSE]
Fixed(c) == [c EXCEPT !.heap = FALSE, !.bytes = MemBytes, !.per_cpu = FALSE]

\* mutant: the memory of a CPU is divided once more
FixedCpuTwice(c) ==
  [c EXCEPT !.heap = FALSE, !.bytes = (MemBytes \div Cpus) \div Cpus, !.per_cpu = TRUE]

FixedCpu(c) == [c EXCEPT !.heap = FALSE, !.bytes = MemBytes \div Cpus, !.per_cpu = TRUE]

\* The heap variants put the allocator back that the others take away.
KeepAllocator(c, changed) == [changed EXCEPT !.heap = c.heap]

\* malc's default allocator is the heap; create takes its other queues away.
MalcDefault == [heap |-> TRUE, bytes |-> 0, per_cpu |-> FALSE]

QueueOf(l) ==
  CASE l = "malc-tls" -> Bounded(MalcDefault)
    [] l \in {"malc-heap", "malc-tls-heap"} -> MalcDefault
    [] l = "malc-fixed" -> Fixed(MalcDefault)
    [] l = "malc-fixed-cpu" -> FixedCpu(MalcDefault)
    [] l = "malc-fixed-heap" -> KeepAllocator(MalcDefault, Fixed(MalcDefault))
    [] l = "malc-fixed-cpu-heap" -> KeepAllocator(MalcDefault, FixedCpu(MalcDefault))
    [] l = "mal-heap" -> [NoQueue EXCEPT !.heap = TRUE]
    [] l = "mal-fixed" -> Fixed(NoQueue)
    [] OTHER -> NoQueue

-----------------------------------------------------------------------------
(* What an adapter holds of its library: what create may leave when it     *)
(* returns false, what terminate and then destroy make of an instance that *)
(* runs, and whether the destructor of the adapter gives it up.            *)

\* create catches what the library throws, at construction or after it. The
\* wrapper is told neither to construct nor to destroy by itself.
MalcAdapter ==
  [failed |-> {"null", "made"}, terminated |-> "stopped", destroyed |-> "null", freed |-> FALSE]

\* mutant: ~mal_base leaves its pointer alone
MalUnfreed ==
  [failed |-> {"made"}, terminated |-> "stopped", destroyed |-> "null", freed |-> FALSE]

\* mutant: destroy deletes and does not set the pointer to null
MalDangling ==
  [failed |-> {"made"}, terminated |-> "stopped", destroyed |-> "stopped", freed |-> TRUE]

\* create returns false with what init_backend could not start; ~mal_base
\* calls destroy.
MalAdapter ==
  [failed |-> {"made"}, terminated |-> "stopped", destroyed |-> "null", freed |-> TRUE]

\* terminate flushes; create throws rather than return false.
SpdlogAdapter ==
  [failed |-> {}, terminated |-> "running", destroyed |-> "null", freed |-> TRUE]

\* mutant: terminate shuts the library down, m_init stays set
GlogShutDown ==
  [failed |-> {}, terminated |-> "stopped", destroyed |-> "stopped", freed |-> FALSE]

\* terminate flushes, destroy is a no-op.
GlogAdapter ==
  [failed |-> {}, terminated |-> "running", destroyed |-> "running", freed |-> FALSE]

\* mutant: terminate keeps the worker, destroy is a no-op
G3logUnterminated ==
  [failed |-> {}, terminated |-> "running", destroyed |-> "running", freed |-> TRUE]

\* The destructor of the worker empties the queue: terminate runs it.
G3logAdapter ==
  [failed |-> {}, terminated |-> "null", destroyed |-> "null", freed |-> TRUE]

\* terminate waits for the library and removes the file; the library runs on.
NanologAdapter ==
  [failed |-> {}, terminated |-> "running", destroyed |-> "running", freed |-> FALSE]

\* As g3log, by a global pointer of the library.
IyengarAdapter ==
  [failed |-> {}, terminated |-> "null", destroyed |-> "null", freed |-> FALSE]

AdapterOf(l) ==
  CASE l \in Malc -> MalcAdapter
    [] l \in Mal -> MalAdapter
    [] l \in Spdlog -> SpdlogAdapter
    [] l = "glog" -> GlogAdapter
    [] l = "g3log" -> G3logAdapter
    [] l \in Nanolog -> NanologAdapter
    [] l = "nanolog-iyengar" -> IyengarAdapter

-----------------------------------------------------------------------------
(* create.                                                                 *)

\* malc cannot construct what is constructed; spdlog refuses a name twice.
CanSucceed(l) ==
  /\ l \in Malc => member[l] = "null"
  /\ l \in Spdlog => name = None

AfterFailure(l) ==
  IF l \in Malc /\ member[l] # "null" THEN {member[l]} ELSE AdapterOf(l).failed

\* mutant: malc loses its instance too
OverwrittenInAny(l) == lost \cup (IF member[l] # "null" THEN {l} ELSE {})

\* mal overwrites its pointer.
Overwritten(l) == lost \cup (IF l \in Mal /\ member[l] # "null" THEN {l} ELSE {})

\* What create makes of what the adapter holds, when it succeeds: nanolog only
\* names the file, glog returns at once if m_init is set, and the others have
\* their library set up anew.
Created(l) ==
  IF l \in Nanolog \/ (l = "glog" /\ member[l] # "null") THEN member[l] ELSE "running"

\* The next test, or run, may begin. After a failed create only Google
\* Benchmark goes on.
MayBegin ==
  /\ life = "absent"
  /\ process = "running" \/ (process = "failed" /\ mode = "google")

CreateAs(l, T, m) ==
  /\ MayBegin /\ CanSucceed(l)
  /\ C!Create(T)
  /\ process' = IF process = "failed" THEN "stuck" ELSE "running"
  /\ cur' = l
  /\ member' = [member EXCEPT ![l] = m]
  /\ name' = IF l \in Spdlog THEN l ELSE name
  /\ lost' = Overwritten(l)
  /\ cfg' = QueueOf(l) /\ tls' = 0
  /\ UNCHANGED mode

\* mutant: create does not look at what init_backend returns
CreateUnchecked(l, T) == \E m \in {Created(l)} \cup AdapterOf(l).failed : CreateAs(l, T, m)

CreateSucceeds(l, T) == CreateAs(l, T, Created(l))

\* Thread 0 of Google Benchmark then leaves the count of runners as it is:
\* the others of its team wait for ever, and if there are none, those of the
\* next run do, once they have created their logger (GoogleAdaptor).
CreateFails(l, T) ==
  /\ MayBegin
  /\ process' = IF process = "failed" \/ (mode = "google" /\ Cardinality(T) > 1)
                THEN "stuck" ELSE "failed"
  /\ cur' = l
  /\ \E m \in AfterFailure(l) : member' = [member EXCEPT ![l] = m]
  /\ lost' = Overwritten(l)
  /\ UNCHANGED <<contract, mode, name, memory>>

\* A library throws (spdlog does when the name is registered, or the file
\* cannot be opened). Only malc catches; else the program is terminated. glog
\* does not call its library a second time.
CreateThrows(l) ==
  /\ MayBegin /\ l \notin Malc
  /\ l = "glog" => member[l] = "null"
  /\ process' = "aborted"
  /\ cur' = l
  /\ UNCHANGED <<contract, mode, member, name, lost, memory>>

-----------------------------------------------------------------------------
(* prepare_thread, run_logging, terminate, destroy.                        *)

\* mutant: every thread gets what all of them may have
WholeShare == MemBytes

\* mem_bytes / thread_count.
MemShare == MemBytes \div Cardinality(team)

\* malc-tls and malc-tls-heap give the thread a queue of its own, unless the
\* library throws; the others return true. In a run that is stuck one thread
\* at least never gets here.
PrepareThread(w) ==
  /\ C!PrepareThread(w)
  /\ process = "stuck" => ready \cup {w} # team
  /\ \/ cur \in {"malc-tls", "malc-tls-heap"} /\ tls' = tls + MemShare
     \/ UNCHANGED tls
  /\ UNCHANGED <<mode, process, cur, member, name, lost, cfg>>

\* run_logging begins and ends, on the instance.
RunLogging(w) ==
  /\ C!StartLogging(w) \/ C!StopLogging(w)
  /\ UNCHANGED <<mode, process, cur, member, name, lost, memory>>

Terminate ==
  /\ C!Terminate
  /\ member' = [member EXCEPT ![cur] = AdapterOf(cur).terminated]
  /\ UNCHANGED <<mode, process, cur, name, lost, memory>>

\* mutant: the adapter lets go of its logger, the registry does not
DestroyKeepingName ==
  /\ C!Destroy
  /\ member' = [member EXCEPT ![cur] = AdapterOf(cur).destroyed]
  /\ UNCHANGED <<mode, process, cur, name, lost, memory>>

\* spdlog drops the name, too.
Destroy ==
  /\ C!Destroy
  /\ member' = [member EXCEPT ![cur] = AdapterOf(cur).destroyed]
  /\ name' = IF cur \in Spdlog THEN None ELSE name
  /\ UNCHANGED <<mode, process, cur, lost, memory>>

\* The subcommand returns, after the last test or a create that failed, and
\* the adapters are destroyed.
Exit ==
  /\ life = "absent"
  /\ \/ process = "running" /\ process' = "exited"
     \/ process = "failed" /\ process' = "gave_up"
  /\ member' = [l \in Loggers |-> IF AdapterOf(l).freed THEN "null" ELSE member[l]]
  /\ UNCHANGED <<contract, mode, cur, name, lost, memory>>

-----------------------------------------------------------------------------
Next ==
  \/ \E l \in Loggers :
       \/ \E T \in (SUBSET Threads) \ {{}} : CreateSucceeds(l, T) \/ CreateFails(l, T)
       \/ CreateThrows(l)
  \/ \E w \in Threads : PrepareThread(w) \/ RunLogging(w)
  \/ Terminate \/ Destroy \/ Exit

Spec == Init /\ [][Next]_vars
-----------------------------------------------------------------------------
TypeOK ==
  /\ C!TypeOK
  /\ mode \in {"own", "google"}
  /\ process \in {"running", "failed", "stuck", "exited", "gave_up", "aborted"}
  /\ cur \in Loggers \cup {None}
  /\ member \in [Loggers -> {"null", "made", "running", "stopped"}]
  /\ name \in (Loggers \cap Spdlog) \cup {None}
  /\ lost \subseteq Loggers \cap Mal
  /\ cfg \in [heap : BOOLEAN, bytes : 0..MemBytes, per_cpu : BOOLEAN]
  /\ tls \in Nat

\* Where create returned true, threads log into an instance that is there and
\* running, whichever tests and loggers came before: all adapters go through
\* m_log, or a global, without looking at it, and glog trusts a flag that its
\* library is still as the first create left it.
LogsIntoRunning == logging # {} => member[cur] = "running"

\* No other logger has an instance while one is tested, the singletons apart
\* (README.md warns of their threads): its consumer thread would compete with
\* the producers that are timed. What a library keeps beside the instance, as
\* spdlog its thread pool, is not seen here.
TestedAlone ==
  life # "absent" =>
    \A l \in Loggers \ Singletons : l # cur => member[l] # "running"

\* spdlog-async and spdlog-sync register under one name and are never in each
\* other's way: whenever a test begins, the name is free.
NameFree == life = "absent" => name = None

\* A pointer to an instance is overwritten in one case only, in which the code
\* does lose it: a create of mal fails in a run of Google Benchmark on one
\* thread, and the next run, which will wait for ever, is of the same logger.
\* No sequence of creates that succeed loses one, in either subcommand.
LostByFailureOnly ==
  lost # {} =>
    /\ mode = "google" /\ process = "stuck"
    /\ lost = {cur} /\ cur \in Mal

\* The program ends with no instance but those of the singletons after its
\* last test. After a create that failed it leaves one more at most, of that
\* logger, and only if that is a malc: half set up, and nobody's to destroy.
InstancesReturned ==
  process \in {"exited", "gave_up"} =>
    /\ name = None
    /\ \A l \in Loggers \ Singletons :
         \/ member[l] = "null"
         \/ process = "gave_up" /\ l = cur /\ l \in Malc /\ member[l] = "made"

\* What the queue of an instance takes, over all CPUs and threads.
Reserved == cfg.bytes * (IF cfg.per_cpu THEN Cpus ELSE 1) + tls

\* The loggers that README.md lets use the heap, and those with one queue, or
\* one for each CPU, of the size they were told.
HeapNamed == {"malc-heap", "malc-tls-heap", "malc-fixed-heap", "malc-fixed-cpu-heap",
              "mal-heap"}
FixedNamed == {"malc-fixed", "malc-fixed-cpu", "malc-fixed-heap", "malc-fixed-cpu-heap",
               "mal-fixed"}

\* A logger with a queue of fixed size takes no more memory for it than it was
\* told, however that is divided by CPUs and by the threads of a test (main.cpp:
\* "recommended memory usage in bytes to be used by each logger"), and, but for
\* the remainder of the CPUs, no less; and of malc and mal those take more,
\* from the heap, that are named for it.
QueueAsNamed ==
  life # "absent" =>
    /\ Reserved <= MemBytes
    /\ cur \in FixedNamed => MemBytes - Reserved < Cpus
    /\ cfg.heap <=> cur \in HeapNamed
=============================================================================
