--------------------------- MODULE Adapters_proofs ---------------------------
(***************************************************************************)
(* The adapters, driven as logger.hpp asks, for every set of loggers and   *)
(* of threads, any memory and any number of CPUs: instances are created    *)
(* and given up over and over without one being logged into, kept, lost or *)
(* given memory that it should not, but for what a create that fails does. *)
(***************************************************************************)
EXTENDS Adapters, FiniteSetTheorems, TLAPS

\* The loggers whose threads are given queues of their own.
Tls == {"malc-tls", "malc-tls-heap"}

\* The threads, as far as the adapters depend on them.
Driven ==
  /\ logging \cap finished = {}
  /\ life # "created" => logging = {}

\* The instance that is tested, and no other, is held and named; the
\* singletons are as they were set up.
Held ==
  /\ life # "absent" => cur \in Loggers /\ cfg = QueueOf(cur)
  /\ life = "created" => member[cur] = "running"
  /\ \A l \in Loggers \ Singletons :
       member[l] = "running" => l = cur /\ life # "absent"
  /\ \A l \in Loggers \cap Singletons :
       member[l] = "running" \/ (l = "glog" /\ member[l] = "null")
  /\ name # None => name = cur /\ life # "absent"

\* What the adapters hold, by what has become of the program.
Returned ==
  /\ process \in {"failed", "exited", "gave_up", "aborted"} => life = "absent"
  /\ process = "running" =>
       \A l \in Loggers \ Singletons : member[l] # "null" => l = cur /\ life # "absent"
  /\ process = "failed" =>
       \A l \in Loggers \ Singletons :
         member[l] # "null" => member[l] = "made" /\ l = cur /\ l \in Malc \cup Mal
  /\ LostByFailureOnly
  /\ process = "exited" => \A l \in Loggers \ Singletons : member[l] = "null"
  /\ process = "gave_up" =>
       \A l \in Loggers \ Singletons :
         member[l] = "null" \/ (l = cur /\ l \in Malc /\ member[l] = "made")

\* No thread is given more than its share.
Shared ==
  life # "absent" =>
    /\ team # {}
    /\ tls # 0 => cur \in Tls
    /\ tls <= Cardinality(ready) * MemShare

IInv == TypeOK /\ Driven /\ Held /\ Returned /\ Shared

-----------------------------------------------------------------------------
(* The tables of the adapters.                                             *)

\* A part of what is divided, as often as it is divided, is no more than it.
LEMMA PartsFit ==
  ASSUME NEW n \in Nat, NEW d \in Nat \ {0}
  PROVE  /\ n \div d \in 0..n
         /\ (n \div d) * d <= n
         /\ n - (n \div d) * d < d
<1>1. /\ n \div d \in Int /\ n % d \in 0..d - 1
      /\ n = (n \div d) * d + (n % d)
  OBVIOUS
<1>2. /\ (n \div d) * d \in Int /\ (n \div d) * d <= n
      /\ n - (n \div d) * d < d
  BY <1>1
<1>3. n \div d \in 0..n
  OBVIOUS
<1> QED
  BY <1>2, <1>3

\* The queue of each logger.
LEMMA QueueOfEach ==
  ASSUME NEW l \in Loggers
  PROVE  /\ l \in {"malc-heap", "malc-tls-heap", "mal-heap"}
              => QueueOf(l) = [heap |-> TRUE, bytes |-> 0, per_cpu |-> FALSE]
         /\ l \in {"malc-fixed", "mal-fixed"}
              => QueueOf(l) = [heap |-> FALSE, bytes |-> MemBytes, per_cpu |-> FALSE]
         /\ l = "malc-fixed-heap"
              => QueueOf(l) = [heap |-> TRUE, bytes |-> MemBytes, per_cpu |-> FALSE]
         /\ l = "malc-fixed-cpu"
              => QueueOf(l) = [heap |-> FALSE, bytes |-> MemBytes \div Cpus, per_cpu |-> TRUE]
         /\ l = "malc-fixed-cpu-heap"
              => QueueOf(l) = [heap |-> TRUE, bytes |-> MemBytes \div Cpus, per_cpu |-> TRUE]
         /\ l \in {"malc-tls", "g3log", "nanolog-iyengar"} \cup Spdlog \cup Singletons
              => QueueOf(l) = [heap |-> FALSE, bytes |-> 0, per_cpu |-> FALSE]
  BY DEF QueueOf, Bounded, Fixed, FixedCpu, KeepAllocator, MalcDefault, NoQueue,
         Spdlog, Singletons, Nanolog

\* What a queue is configured with: as named, and as much as it was told.
LEMMA QueueFits ==
  ASSUME NEW l \in Loggers
  PROVE  /\ QueueOf(l) \in [heap : BOOLEAN, bytes : 0..MemBytes, per_cpu : BOOLEAN]
         /\ QueueOf(l).bytes * (IF QueueOf(l).per_cpu THEN Cpus ELSE 1) <= MemBytes
         /\ QueueOf(l).heap <=> l \in HeapNamed
         /\ l \in Tls => QueueOf(l).bytes = 0
         /\ l \in FixedNamed =>
              MemBytes - QueueOf(l).bytes * (IF QueueOf(l).per_cpu THEN Cpus ELSE 1) < Cpus
<1>1. /\ MemBytes \div Cpus \in 0..MemBytes
      /\ (MemBytes \div Cpus) * Cpus <= MemBytes
      /\ MemBytes - (MemBytes \div Cpus) * Cpus < Cpus
      /\ MemBytes \in Nat /\ Cpus \in Nat \ {0}
  BY AdaptersAssumption, PartsFit
<1> DEFINE q == QueueOf(l)
<1>2. /\ q \in [heap : BOOLEAN, bytes : 0..MemBytes, per_cpu : BOOLEAN]
      /\ q.per_cpu => q.bytes = MemBytes \div Cpus
  <2>1. \/ l \in {"malc-heap", "malc-tls-heap", "mal-heap"}
        \/ l \in {"malc-fixed", "mal-fixed"}
        \/ l = "malc-fixed-heap"
        \/ l = "malc-fixed-cpu"
        \/ l = "malc-fixed-cpu-heap"
        \/ l \in {"malc-tls", "g3log", "nanolog-iyengar"} \cup Spdlog \cup Singletons
    BY AdaptersAssumption DEF Malc, Mal
  <2>2. \/ \E h \in BOOLEAN, b \in {0, MemBytes} : q = [heap |-> h, bytes |-> b, per_cpu |-> FALSE]
        \/ \E h \in BOOLEAN : q = [heap |-> h, bytes |-> MemBytes \div Cpus, per_cpu |-> TRUE]
    BY <2>1, QueueOfEach
  <2> HIDE DEF q
  <2>3. ASSUME NEW h \in BOOLEAN, NEW b \in 0..MemBytes,
               q = [heap |-> h, bytes |-> b, per_cpu |-> FALSE]
        PROVE  q \in [heap : BOOLEAN, bytes : 0..MemBytes, per_cpu : BOOLEAN] /\ ~q.per_cpu
    BY <2>3
  <2>4. ASSUME NEW h \in BOOLEAN,
               q = [heap |-> h, bytes |-> MemBytes \div Cpus, per_cpu |-> TRUE]
        PROVE  /\ q \in [heap : BOOLEAN, bytes : 0..MemBytes, per_cpu : BOOLEAN]
               /\ q.bytes = MemBytes \div Cpus
    BY <1>1, <2>4
  <2> QED
    BY <1>1, <2>2, <2>3, <2>4
<1>3. q.heap <=> l \in HeapNamed
  <2>1. CASE l \in HeapNamed
    <3>1. q.heap
      BY <2>1, QueueOfEach DEF HeapNamed
    <3> QED
      BY <2>1, <3>1
  <2>2. CASE l \notin HeapNamed
    <3>1. ~q.heap
      BY <2>2, QueueOfEach, AdaptersAssumption
      DEF HeapNamed, Malc, Mal, Spdlog, Singletons, Nanolog
    <3> QED
      BY <2>2, <3>1
  <2> QED
    BY <2>1, <2>2
<1>4. l \in Tls => q.bytes = 0
  BY QueueOfEach DEF Tls
<1>5. q.bytes * (IF q.per_cpu THEN Cpus ELSE 1) <= MemBytes
  <2>1. CASE q.per_cpu
    BY <1>1, <1>2, <2>1
  <2>2. CASE ~q.per_cpu
    BY <1>1, <1>2, <2>2
  <2> QED
    BY <2>1, <2>2
<1>6. l \in FixedNamed =>
        MemBytes - q.bytes * (IF q.per_cpu THEN Cpus ELSE 1) < Cpus
  <2>1. CASE l \in {"malc-fixed", "mal-fixed", "malc-fixed-heap"}
    <3>1. q.bytes = MemBytes /\ ~q.per_cpu
      BY <2>1, QueueOfEach
    <3> HIDE DEF q
    <3> QED
      BY <1>1, <3>1
  <2>2. CASE l \in {"malc-fixed-cpu", "malc-fixed-cpu-heap"}
    <3>1. q.bytes = MemBytes \div Cpus /\ q.per_cpu
      BY <2>2, QueueOfEach
    <3> HIDE DEF q
    <3> QED
      BY <1>1, <3>1
  <2> QED
    BY <2>1, <2>2 DEF FixedNamed
<1> QED
  BY <1>2, <1>3, <1>4, <1>5, <1>6

\* What an adapter holds after each of its calls.
LEMMA AdapterHolds ==
  ASSUME NEW l \in Loggers
  PROVE  /\ AdapterOf(l).failed \subseteq {"null", "made"}
         /\ AdapterOf(l).failed # {} => l \in Malc \cup Mal
         /\ AdapterOf(l).terminated \in {"null", "running", "stopped"}
         /\ AdapterOf(l).destroyed \in {"null", "running"}
         /\ AdapterOf(l).freed \in BOOLEAN
         /\ l \notin Singletons => AdapterOf(l).destroyed = "null"
         /\ l \in Mal => AdapterOf(l).freed
         /\ l \in Singletons =>
              /\ AdapterOf(l).terminated = "running" /\ AdapterOf(l).destroyed = "running"
              /\ ~AdapterOf(l).freed
<1> USE DEF Malc, Mal, Spdlog, Singletons, Nanolog, MalcAdapter, MalAdapter,
            SpdlogAdapter, GlogAdapter, G3logAdapter, NanologAdapter, IyengarAdapter
<1>1. CASE l \in Malc
  BY <1>1 DEF AdapterOf
<1>2. CASE l \in Mal
  BY <1>2 DEF AdapterOf
<1>3. CASE l \in Spdlog
  BY <1>3 DEF AdapterOf
<1>4. CASE l \in Singletons
  BY <1>4 DEF AdapterOf
<1>5. CASE l \in {"g3log", "nanolog-iyengar"}
  BY <1>5 DEF AdapterOf
<1> QED
  BY <1>1, <1>2, <1>3, <1>4, <1>5, AdaptersAssumption

\* The share is what a team of as many threads leaves to each.
LEMMA ShareFits ==
  ASSUME TypeOK, team # {}
  PROVE  /\ MemShare \in Nat
         /\ IsFiniteSet(ready) /\ Cardinality(ready) \in Nat
         /\ Cardinality(ready) * MemShare <= MemBytes
<1>1. IsFiniteSet(team) /\ ready \subseteq team
  BY AdaptersAssumption, FS_Subset DEF TypeOK, C!TypeOK
<1>2. IsFiniteSet(ready) /\ Cardinality(ready) <= Cardinality(team)
  BY <1>1, FS_Subset
<1>3. Cardinality(ready) \in Nat /\ Cardinality(team) \in Nat \ {0}
  BY <1>1, <1>2, FS_CardinalityType, FS_EmptySet
<1>4. MemShare \in Nat /\ MemShare * Cardinality(team) <= MemBytes
  BY <1>3, PartsFit, AdaptersAssumption DEF MemShare
<1>5. ASSUME NEW r \in Nat, NEW t \in Nat, NEW m \in Nat, r <= t
      PROVE  r * m <= m * t
  <2>1. t - r \in Nat /\ (t - r) * m \in Nat /\ r * m \in Nat
    BY <1>5
  <2>2. r * m + (t - r) * m = m * t
    BY <1>5
  <2> QED
    BY <2>1, <2>2
<1>6. Cardinality(ready) * MemShare <= MemShare * Cardinality(team)
  BY <1>2, <1>3, <1>4, <1>5
<1>7. Cardinality(ready) * MemShare \in Nat /\ MemShare * Cardinality(team) \in Nat
  BY <1>3, <1>4
<1> QED
  BY <1>2, <1>3, <1>4, <1>6, <1>7, AdaptersAssumption

-----------------------------------------------------------------------------
(* The invariant.                                                          *)

LEMMA InitIInv == Init => IInv
<1> SUFFICES ASSUME Init PROVE IInv
  OBVIOUS
<1>1. TypeOK
  BY AdaptersAssumption DEF Init, TypeOK, C!Init, C!TypeOK, NoQueue
<1>2. \A l \in Loggers \ Singletons : member[l] = "null"
  BY DEF Init, Singletons
<1>3. \A l \in Loggers \cap Singletons :
        member[l] = "running" \/ (l = "glog" /\ member[l] = "null")
  BY DEF Init, Singletons
<1> QED
  BY <1>1, <1>2, <1>3
  DEF Init, C!Init, IInv, Driven, Held, Returned, LostByFailureOnly, Shared

\* create succeeds into an instance that runs: glog and the nanologs find
\* theirs running, or glog sets it up.
LEMMA CreatedRuns ==
  ASSUME IInv, NEW l \in Loggers
  PROVE  Created(l) = "running"
<1>1. l \in Nanolog \/ l = "glog" => l \in Singletons
  BY DEF Singletons
<1>2. l \in Nanolog => l # "glog"
  BY DEF Nanolog
<1> QED
  BY <1>1, <1>2 DEF IInv, Held, Created

\* What mal overwrites, a create that failed has left.
LEMMA OverwrittenByFailure ==
  ASSUME IInv, NEW l \in Loggers, MayBegin, lost' = Overwritten(l), mode' = mode, cur' = l,
         process = "failed" => process' = "stuck"
  PROVE  LostByFailureOnly' /\ lost' \subseteq Loggers \cap Mal
<1>1. lost = {} /\ l \in Loggers /\ life = "absent"
  BY DEF MayBegin, IInv, Returned, LostByFailureOnly
<1>2. CASE l \in Mal /\ member[l] # "null"
  <2>1. l \notin Singletons
    BY <1>2 DEF Mal, Singletons, Nanolog
  <2>2. process = "failed" /\ mode = "google"
    BY <1>1, <1>2, <2>1 DEF MayBegin, IInv, Returned
  <2>3. lost' = {l}
    BY <1>1, <1>2 DEF Overwritten
  <2> QED
    BY <1>1, <1>2, <2>2, <2>3 DEF LostByFailureOnly
<1>3. CASE ~(l \in Mal /\ member[l] # "null")
  BY <1>1, <1>3 DEF Overwritten, LostByFailureOnly
<1> QED
  BY <1>2, <1>3

\* create: what is left of the last test is nobody's instance.
LEMMA CreateKeeps ==
  ASSUME IInv, NEW l \in Loggers, NEW T \in (SUBSET Threads) \ {{}}, CreateSucceeds(l, T)
  PROVE  IInv'
<1> USE DEF IInv
<1>1. /\ life = "absent" /\ process \in {"running", "failed"}
      /\ life' = "created" /\ team' = T /\ ready' = {} /\ logging' = {} /\ finished' = {}
      /\ process' = IF process = "failed" THEN "stuck" ELSE "running"
      /\ cur' = l /\ member' = [member EXCEPT ![l] = "running"]
      /\ name' = IF l \in Spdlog THEN l ELSE name
      /\ lost' = Overwritten(l) /\ cfg' = QueueOf(l) /\ tls' = 0 /\ mode' = mode
  BY CreatedRuns DEF CreateSucceeds, CreateAs, MayBegin, C!Create
<1>2. LostByFailureOnly' /\ lost' \subseteq Loggers \cap Mal
  BY <1>1, OverwrittenByFailure DEF CreateSucceeds, CreateAs
<1>4. TypeOK'
  BY <1>1, <1>2, QueueFits DEF TypeOK, C!TypeOK
<1>5. Driven'
  BY <1>1 DEF Driven
<1>6. Held'
  BY <1>1 DEF Held, TypeOK
<1>7. Returned'
  BY <1>1, <1>2 DEF Returned, TypeOK
<1>8. Shared'
  <2>1. IsFiniteSet(T) /\ Cardinality(T) \in Nat \ {0}
    BY AdaptersAssumption, FS_Subset, FS_CardinalityType, FS_EmptySet
  <2>2. MemShare' = MemBytes \div Cardinality(T)
    BY <1>1 DEF MemShare
  <2>3. MemShare' \in Nat
    BY <2>1, <2>2, PartsFit, AdaptersAssumption
  <2>4. Cardinality(ready') = 0
    BY <1>1, FS_EmptySet
  <2>5. tls' <= Cardinality(ready') * MemShare'
    BY <1>1, <2>3, <2>4
  <2> QED
    BY <1>1, <2>5 DEF Shared
<1> QED
  BY <1>4, <1>5, <1>6, <1>7, <1>8

LEMMA CreateFailsKeeps ==
  ASSUME IInv, NEW l \in Loggers, NEW T, CreateFails(l, T)
  PROVE  IInv'
<1> USE DEF IInv
<1>1. PICK m \in AfterFailure(l) : member' = [member EXCEPT ![l] = m]
  BY DEF CreateFails
<1>2. /\ life = "absent" /\ process \in {"running", "failed"}
      /\ process' \in {"failed", "stuck"}
      /\ process = "failed" => process' = "stuck"
      /\ cur' = l /\ lost' = Overwritten(l)
      /\ UNCHANGED <<life, team, ready, logging, finished, mode, name, cfg, tls>>
  BY DEF CreateFails, MayBegin, contract, memory
<1>3. LostByFailureOnly' /\ lost' \subseteq Loggers \cap Mal
  BY <1>2, OverwrittenByFailure DEF CreateFails
<1>5. /\ m \in {"null", "made", "running", "stopped"}
      /\ m \in {"null", "made"}
      /\ l \in Malc \cup Mal
      /\ l \notin Singletons
  <2>1. CASE l \in Malc /\ member[l] # "null"
    <3>1. l \notin Singletons
      BY <2>1 DEF Malc, Singletons, Nanolog
    <3> QED
      BY <1>1, <1>2, <2>1, <3>1 DEF AfterFailure, Returned
  <2>2. CASE ~(l \in Malc /\ member[l] # "null")
    <3>1. l \in Malc \cup Mal /\ m \in {"null", "made"}
      BY <1>1, <2>2, AdapterHolds DEF AfterFailure
    <3> QED
      BY <3>1 DEF Malc, Mal, Singletons, Nanolog
  <2> QED
    BY <2>1, <2>2
<1>6. TypeOK'
  BY <1>1, <1>2, <1>3, <1>5 DEF TypeOK, C!TypeOK
<1>7. Driven' /\ Shared'
  BY <1>2 DEF Driven, Shared
<1>8. Held'
  BY <1>1, <1>2, <1>5 DEF Held, TypeOK
<1>9. Returned'
  <2>1. CASE process' = "stuck"
    BY <1>3, <2>1 DEF Returned
  <2>2. CASE process' = "failed"
    <3>1. process = "running"
      BY <1>2, <2>2
    <3>2. \A k \in Loggers \ Singletons : k # l => member'[k] = "null"
      BY <1>1, <1>2, <3>1 DEF Returned, TypeOK
    <3>3. member'[l] = m
      BY <1>1 DEF TypeOK
    <3> QED
      BY <1>2, <1>3, <1>5, <2>2, <3>2, <3>3 DEF Returned
  <2> QED
    BY <1>2, <2>1, <2>2
<1> QED
  BY <1>6, <1>7, <1>8, <1>9

LEMMA CreateThrowsKeeps ==
  ASSUME IInv, NEW l \in Loggers, CreateThrows(l)
  PROVE  IInv'
<1>1. /\ life = "absent" /\ process \in {"running", "failed"}
      /\ process' = "aborted" /\ cur' = l
      /\ UNCHANGED <<life, team, ready, logging, finished, mode, member, name, lost, cfg, tls>>
  BY DEF CreateThrows, MayBegin, contract, memory
<1> QED
  BY <1>1 DEF IInv, TypeOK, C!TypeOK, Driven, Held, Returned, LostByFailureOnly, Shared

\* The calls of the threads touch nothing but their queues.
LEMMA PrepareKeeps ==
  ASSUME IInv, NEW w \in Threads, PrepareThread(w)
  PROVE  IInv'
<1> USE DEF IInv
<1>1. /\ life = "created" /\ w \in team \ ready /\ ready' = ready \cup {w}
      /\ UNCHANGED <<life, team, logging, finished, mode, process, cur, member, name, lost, cfg>>
      /\ process = "stuck" => ready' # team
      /\ tls' = tls \/ (cur \in Tls /\ tls' = tls + MemShare)
  BY DEF PrepareThread, C!PrepareThread, Tls
<1>2. MemShare \in Nat /\ IsFiniteSet(ready) /\ Cardinality(ready) \in Nat /\ MemShare' = MemShare
  BY <1>1, ShareFits DEF Shared, MemShare
<1>3. Cardinality(ready') = Cardinality(ready) + 1
  BY <1>1, <1>2, FS_AddElement
<1>4. TypeOK'
  BY <1>1, <1>2 DEF TypeOK, C!TypeOK
<1>5. Driven' /\ Held' /\ Returned'
  BY <1>1 DEF Driven, Held, Returned, LostByFailureOnly
<1>6. Cardinality(ready') * MemShare = Cardinality(ready) * MemShare + MemShare
  BY <1>2, <1>3
<1>7. Cardinality(ready) * MemShare \in Nat
  BY <1>2
<1>8. tls' <= Cardinality(ready') * MemShare'
  BY <1>1, <1>2, <1>6, <1>7 DEF Shared, TypeOK
<1>9. Shared'
  BY <1>1, <1>8 DEF Shared
<1> QED
  BY <1>4, <1>5, <1>9

LEMMA RunLoggingKeeps ==
  ASSUME IInv, NEW w \in Threads, RunLogging(w)
  PROVE  IInv'
<1>1. /\ life = "created" /\ w \in team /\ ready' = ready
      /\ \/ ready = team /\ w \notin finished /\ logging' = logging \cup {w} /\ finished' = finished
         \/ w \in logging /\ logging' = logging \ {w} /\ finished' = finished \cup {w}
      /\ UNCHANGED <<life, team, mode, process, cur, member, name, lost, cfg, tls>>
  BY DEF RunLogging, C!StartLogging, C!StopLogging, memory, IInv, TypeOK, C!TypeOK
<1>2. MemShare' = MemShare
  BY <1>1 DEF MemShare
<1>3. TypeOK' /\ Driven'
  BY <1>1 DEF IInv, TypeOK, C!TypeOK, Driven
<1>4. Held' /\ Returned'
  BY <1>1 DEF IInv, Held, Returned, LostByFailureOnly
<1>5. Shared'
  BY <1>1, <1>2 DEF IInv, Shared
<1> QED
  BY <1>3, <1>4, <1>5 DEF IInv

LEMMA TerminateKeeps == IInv /\ Terminate => IInv'
<1> SUFFICES ASSUME IInv, Terminate PROVE IInv'
  OBVIOUS
<1> USE DEF IInv
<1>1. /\ life = "created" /\ finished = team /\ life' = "terminated"
      /\ member' = [member EXCEPT ![cur] = AdapterOf(cur).terminated]
      /\ UNCHANGED <<team, ready, logging, finished, mode, process, cur, name, lost, cfg, tls>>
  BY DEF Terminate, C!Terminate, memory
<1>2. /\ cur \in Loggers /\ AdapterOf(cur).terminated \in {"null", "running", "stopped"}
      /\ cur \in Singletons => AdapterOf(cur).terminated = "running"
  BY <1>1, AdapterHolds DEF Held
<1>3. MemShare' = MemShare
  BY <1>1 DEF MemShare
<1>4. TypeOK'
  BY <1>1, <1>2 DEF TypeOK, C!TypeOK
<1>5. Driven'
  BY <1>1 DEF Driven, TypeOK, C!TypeOK
<1>6. Held'
  BY <1>1, <1>2 DEF Held, TypeOK
<1>7. Returned'
  BY <1>1, <1>2 DEF Returned, LostByFailureOnly, TypeOK
<1>8. Shared'
  BY <1>1, <1>3 DEF Shared
<1> QED
  BY <1>4, <1>5, <1>6, <1>7, <1>8

LEMMA DestroyKeeps == IInv /\ Destroy => IInv'
<1> SUFFICES ASSUME IInv, Destroy PROVE IInv'
  OBVIOUS
<1> USE DEF IInv
<1>1. /\ life = "terminated" /\ life' = "absent"
      /\ team' = {} /\ ready' = {} /\ logging' = {} /\ finished' = {}
      /\ member' = [member EXCEPT ![cur] = AdapterOf(cur).destroyed]
      /\ name' = IF cur \in Spdlog THEN None ELSE name
      /\ UNCHANGED <<mode, process, cur, lost, cfg, tls>>
  BY DEF Destroy, C!Destroy, memory
<1>2. /\ cur \in Loggers /\ AdapterOf(cur).destroyed \in {"null", "running"}
      /\ cur \notin Singletons => AdapterOf(cur).destroyed = "null"
      /\ cur \in Singletons => AdapterOf(cur).destroyed = "running"
  BY <1>1, AdapterHolds DEF Held
<1>3. name' = None
  BY <1>1 DEF Held, TypeOK
<1>4. TypeOK'
  BY <1>1, <1>2, <1>3 DEF TypeOK, C!TypeOK
<1>5. Driven' /\ Shared'
  BY <1>1 DEF Driven, Shared
<1>6. Held'
  BY <1>1, <1>2, <1>3 DEF Held, TypeOK
<1>7. Returned'
  BY <1>1, <1>2 DEF Returned, LostByFailureOnly, TypeOK
<1> QED
  BY <1>4, <1>5, <1>6, <1>7

LEMMA ExitKeeps == IInv /\ Exit => IInv'
<1> SUFFICES ASSUME IInv, Exit PROVE IInv'
  OBVIOUS
<1> USE DEF IInv
<1>1. /\ life = "absent"
      /\ \/ process = "running" /\ process' = "exited"
         \/ process = "failed" /\ process' = "gave_up"
      /\ member' = [l \in Loggers |-> IF AdapterOf(l).freed THEN "null" ELSE member[l]]
      /\ UNCHANGED <<life, team, ready, logging, finished, mode, cur, name, lost, cfg, tls>>
  BY DEF Exit, contract, memory
<1>2. lost = {}
  BY <1>1 DEF Returned, LostByFailureOnly
<1>3. \A l \in Loggers : member'[l] \in {"null", member[l]}
  BY <1>1
<1>4. \A l \in Loggers \cap Singletons : member'[l] = member[l]
  BY <1>1, AdapterHolds
<1>5. TypeOK'
  BY <1>1, <1>3 DEF TypeOK, C!TypeOK
<1>6. Driven' /\ Shared'
  BY <1>1 DEF Driven, Shared
<1>7. Held'
  <2>1. \A l \in Loggers \ Singletons : member'[l] # "running"
    BY <1>1, <1>3 DEF Held
  <2>2. \A l \in Loggers \cap Singletons :
          member'[l] = "running" \/ (l = "glog" /\ member'[l] = "null")
    BY <1>4 DEF Held
  <2> QED
    BY <1>1, <2>1, <2>2 DEF Held
<1>8. Returned'
  <2>1. CASE process = "running"
    <3>1. \A l \in Loggers \ Singletons : member'[l] = "null"
      BY <1>1, <1>3, <2>1 DEF Returned
    <3> QED
      BY <1>1, <1>2, <2>1, <3>1 DEF Returned, LostByFailureOnly
  <2>2. CASE process = "failed"
    <3>1. \A l \in Loggers \ Singletons :
            member'[l] # "null" => member'[l] = "made" /\ l = cur /\ l \in Malc
      <4> SUFFICES ASSUME NEW l \in Loggers \ Singletons, member'[l] # "null"
                   PROVE  member'[l] = "made" /\ l = cur /\ l \in Malc
        OBVIOUS
      <4>1. member'[l] = member[l] /\ ~AdapterOf(l).freed
        BY <1>1
      <4>2. member[l] = "made" /\ l = cur /\ l \in Malc \cup Mal
        BY <2>2, <4>1 DEF Returned
      <4> QED
        BY <4>1, <4>2, AdapterHolds
    <3> QED
      BY <1>1, <1>2, <2>2, <3>1 DEF Returned, LostByFailureOnly
  <2> QED
    BY <1>1, <2>1, <2>2
<1> QED
  BY <1>5, <1>6, <1>7, <1>8

LEMMA NextIInv == IInv /\ [Next]_vars => IInv'
<1> SUFFICES ASSUME IInv, [Next]_vars PROVE IInv'
  OBVIOUS
<1>1. CASE UNCHANGED vars
  <2>1. MemShare' = MemShare
    BY <1>1 DEF vars, contract, MemShare
  <2> QED
    BY <1>1, <2>1 DEF vars, contract, memory, IInv, TypeOK, C!TypeOK, Driven, Held, Returned,
       LostByFailureOnly, Shared
<1> QED
  BY <1>1, CreateKeeps, CreateFailsKeeps, CreateThrowsKeeps, PrepareKeeps, RunLoggingKeeps,
     TerminateKeeps, DestroyKeeps, ExitKeeps
  DEF Next
-----------------------------------------------------------------------------
\* The instances, and the memory they take, are as IInv says after every
\* sequence of tests.
THEOREM Invariance == Spec => []IInv
  BY InitIInv, NextIInv, PTL DEF Spec

\* The state of the adapters keeps its type (TypeOK), mal's alone being the
\* pointers that may be lost.
THEOREM TypeCorrect == Spec => []TypeOK
<1>1. IInv => TypeOK
  BY DEF IInv
<1> QED
  BY <1>1, Invariance, PTL

\* Where create returned true, threads log into an instance that runs
\* (LogsIntoRunning), whatever the tests before have left: glog, which does
\* not set its library up again, finds it running, and no terminate or destroy
\* has stopped what the nanologs share.
THEOREM LogsAreTaken == Spec => []LogsIntoRunning
<1>1. IInv => LogsIntoRunning
  BY DEF IInv, Driven, Held, TypeOK, C!TypeOK, LogsIntoRunning
<1> QED
  BY <1>1, Invariance, PTL

\* No other logger than the one tested runs, glog and the nanologs apart
\* (TestedAlone).
THEOREM NobodyCompetes == Spec => []TestedAlone
<1>1. IInv => TestedAlone
  BY DEF IInv, Held, TestedAlone
<1> QED
  BY <1>1, Invariance, PTL

\* The name of the spdlog loggers is free when a test begins (NameFree).
THEOREM NameIsFree == Spec => []NameFree
<1>1. IInv => NameFree
  BY DEF IInv, Held, NameFree
<1> QED
  BY <1>1, Invariance, PTL

\* A pointer to an instance is overwritten only by the run of Google Benchmark
\* that creates a mal again after its create has failed, and never in the own
\* tests (LostByFailureOnly).
THEOREM OnlyFailureLoses == Spec => []LostByFailureOnly
<1>1. IInv => LostByFailureOnly
  BY DEF IInv, Returned
<1> QED
  BY <1>1, Invariance, PTL

\* The program ends without an instance, the singletons apart, after any
\* sequence of tests; if a create failed, with at most what that one left of
\* a malc (InstancesReturned).
THEOREM NothingLeaks == Spec => []InstancesReturned
<1>1. IInv => InstancesReturned
  BY DEF IInv, Held, TypeOK, Returned, InstancesReturned
<1> QED
  BY <1>1, Invariance, PTL

\* The queues of an instance, those of its threads included, fit into the
\* memory it was told, for any memory, team and number of CPUs, and use the
\* heap where their logger is named for it; one of fixed size leaves less
\* unused than there are CPUs (QueueAsNamed).
THEOREM QueuesFit == Spec => []QueueAsNamed
<1>1. IInv => QueueAsNamed
  <2> SUFFICES ASSUME IInv, life # "absent"
               PROVE  /\ Reserved <= MemBytes
                      /\ cur \in FixedNamed => MemBytes - Reserved < Cpus
                      /\ cfg.heap <=> cur \in HeapNamed
    BY DEF QueueAsNamed
  <2>1. cur \in Loggers /\ cfg = QueueOf(cur)
    BY DEF IInv, Held
  <2> DEFINE fixed == cfg.bytes * (IF cfg.per_cpu THEN Cpus ELSE 1)
  <2>2. /\ fixed <= MemBytes /\ (cur \in FixedNamed => MemBytes - fixed < Cpus)
        /\ cfg.heap <=> cur \in HeapNamed
        /\ cur \in Tls => cfg.bytes = 0 /\ cur \notin FixedNamed
    BY <2>1, QueueFits DEF Tls, FixedNamed
  <2>3. /\ cfg.bytes \in Nat /\ tls \in Nat /\ MemBytes \in Nat /\ Cpus \in Nat
        /\ fixed \in Nat
    BY AdaptersAssumption DEF IInv, TypeOK
  <2>4. CASE cur \in Tls
    <3>1. fixed = 0
      BY <2>2, <2>3, <2>4
    <3>2. tls <= MemBytes
      <4>1. /\ MemShare \in Nat /\ Cardinality(ready) \in Nat
            /\ Cardinality(ready) * MemShare <= MemBytes
        BY ShareFits DEF IInv, Shared
      <4>2. Cardinality(ready) * MemShare \in Nat
        BY <4>1
      <4> QED
        BY <2>3, <4>1, <4>2 DEF IInv, Shared
    <3> QED
      BY <2>2, <2>3, <3>1, <3>2 DEF Reserved
  <2>5. CASE cur \notin Tls
    <3>1. tls = 0
      BY <2>5 DEF IInv, Shared
    <3> QED
      BY <2>2, <2>3, <3>1 DEF Reserved
  <2> QED
    BY <2>4, <2>5
<1> QED
  BY <1>1, Invariance, PTL
=============================================================================
