-------------------------- MODULE RunHarness_proofs --------------------------
(***************************************************************************)
(* The start line of run_throughput and run_latency is safe for every      *)
(* number of threads: the type invariant and the safety properties of      *)
(* RunHarness follow from one inductive invariant, and every step of the   *)
(* code is a step of the contract of logger.hpp or leaves it alone.        *)
(***************************************************************************)
EXTENDS RunHarness, FiniteSetTheorems, TLAPS

\* Those who wait at the start line.
Waiting == {w \in Workers : wpc[w] = "spin"}

\* The threads there are, by where the calling thread is.
ThreadsExist ==
  /\ mpc # "idle" => tc \in 1..MaxThreads
  /\ mpc \in {"create", "failed", "inline"} => \A w \in Workers : wpc[w] = "none"
  /\ mpc = "create" => initialized = 0 /\ next = 0
  /\ mpc = "spawn" => next < tc /\ \A w \in Workers : wpc[w] # "none" <=> w < next
  /\ mpc \in {"await", "release", "join", "running", "terminate", "destroy", "report", "idle"}
       => \A w \in Workers : wpc[w] # "none" <=> w \in Team
  /\ mpc \in {"spawn", "await", "release", "join"} => tc > 1
  /\ mpc \in {"inline", "running"} => tc = 1
  /\ mpc \in {"terminate", "destroy", "report", "idle"}
       => \A w \in Workers : wpc[w] \in {"none", "done"}

\* Until the line opens the counter counts those who wait, and only they
\* can get to it; once it is open nobody is behind it.
LineHolds ==
  /\ mpc \in {"spawn", "await", "release"}
       => /\ initialized = Cardinality(Waiting)
          /\ \A w \in Workers : wpc[w] \in {"none", "prepare", "arrive", "spin"}
  /\ mpc = "release" => \A w \in Team : wpc[w] = "spin"
  /\ mpc = "join"
       => /\ \A w \in Team : wpc[w] \in {"spin", "go", "logging", "done"}
          /\ next < tc
          /\ \A w \in Team : w < next => wpc[w] = "done"
  /\ mpc = "running" => wpc[0] \in {"prepare", "go", "logging", "done"}

\* The life of the instance follows the calling thread.
LifeFollows ==
  /\ mpc \in {"spawn", "await", "release", "join", "inline", "running", "terminate"}
       => life = "created"
  /\ mpc = "destroy" => life = "terminated"
  /\ mpc \in {"idle", "create", "failed", "report"} => life = "absent"

\* The caller is pinned from create on, a producer once it is prepared.
Pinned ==
  /\ mpc \in {"spawn", "await", "release", "join"} => home = CpuOf(tc)
  /\ \A w \in Workers :
       tc > 1 /\ wpc[w] \in {"arrive", "spin", "go", "logging", "done"} => cpu[w] = CpuOf(w)

IInv == TypeOK /\ ThreadsExist /\ LineHolds /\ LifeFollows /\ Pinned

-----------------------------------------------------------------------------
(* CPUs.                                                                   *)

\* There is a CPU for every index, and one of its own for a small one.
LEMMA CpuOfIndex ==
  ASSUME NEW i \in Nat
  PROVE  /\ CpuOf(i) \in Anywhere..Cpus - 1 /\ CpuOf(i) # Anywhere
         /\ i < Cpus => CpuOf(i) = i
  BY HarnessAssumption DEF CpuOf, Anywhere

-----------------------------------------------------------------------------
(* Counting those who wait.                                                *)

\* The producers are as many as the largest thread count.
LEMMA WorkersFinite == IsFiniteSet(Workers) /\ Cardinality(Workers) = MaxThreads
  BY HarnessAssumption, FS_Interval DEF Workers

\* Some of them are finitely many, and no more.
LEMMA SomeWorkers ==
  ASSUME NEW S \in SUBSET Workers
  PROVE  IsFiniteSet(S) /\ Cardinality(S) \in 0..MaxThreads
<1>1. IsFiniteSet(S) /\ Cardinality(S) <= Cardinality(Workers)
  BY WorkersFinite, FS_Subset
<1>2. Cardinality(S) \in Nat
  BY <1>1, FS_CardinalityType
<1> QED
  BY <1>1, <1>2, WorkersFinite, HarnessAssumption

\* As many waiting as there are threads means that every thread waits.
LEMMA AllWait ==
  ASSUME tc \in 1..MaxThreads, Waiting \subseteq Team, Cardinality(Waiting) = tc
  PROVE  Waiting = Team
<1>1. IsFiniteSet(Team) /\ Cardinality(Team) = tc
  BY HarnessAssumption, FS_Interval DEF Team
<1> QED
  BY <1>1, FS_Subset

-----------------------------------------------------------------------------
(* The invariant.                                                          *)

USE DEF Workers, Team

LEMMA InitInv == Init => IInv
  BY HarnessAssumption
  DEF Init, IInv, TypeOK, ThreadsExist, LineHolds, LifeFollows, Pinned, Anywhere

LEMMA NextInv == IInv /\ [Next]_vars => IInv'
<1> SUFFICES ASSUME IInv, [Next]_vars PROVE IInv'
  OBVIOUS
<1> USE HarnessAssumption DEF IInv, TypeOK, ThreadsExist, LineHolds, LifeFollows, Pinned, Anywhere, affinity
<1>1. ASSUME NEW n \in ThreadCounts, Call(n) PROVE IInv'
  BY <1>1 DEF Call
<1>2. CASE CreateSucceeds
  <2>1. mpc' = "spawn" => Waiting' = {}
    BY <1>2 DEF CreateSucceeds, Waiting
  <2>2. home' \in Anywhere..Cpus - 1
    BY <1>2, CpuOfIndex DEF CreateSucceeds
  <2>3. TypeOK'
    BY <1>2, <2>2 DEF CreateSucceeds
  <2>4. ThreadsExist' /\ LifeFollows'
    BY <1>2 DEF CreateSucceeds
  <2>5. LineHolds'
    BY <1>2, <2>1, FS_EmptySet DEF CreateSucceeds
  <2>6. Pinned'
    BY <1>2 DEF CreateSucceeds
  <2> QED
    BY <2>3, <2>4, <2>5, <2>6
<1>3. CASE CreateFails
  BY <1>3 DEF CreateFails
<1>4. CASE Spawn
  <2>1. Waiting' = Waiting
    BY <1>4 DEF Spawn, Waiting
  <2>2. TypeOK'
    BY <1>4 DEF Spawn
  <2>3. Pinned'
    BY <1>4 DEF Spawn
  <2>4. ThreadsExist'
    <3>1. /\ tc' = tc /\ next' = next + 1 /\ next \in Nat /\ next < tc
          /\ tc \in 1..MaxThreads /\ tc > 1
          /\ mpc' = IF next + 1 = tc THEN "await" ELSE "spawn"
          /\ wpc' = [wpc EXCEPT ![next] = "prepare"] /\ DOMAIN wpc = Workers
          /\ \A w \in Workers : wpc[w] # "none" <=> w < next
      BY <1>4 DEF Spawn
    <3> HIDE DEF IInv, TypeOK, LineHolds, LifeFollows, Pinned
    <3>2. \A w \in Workers : wpc'[w] # "none" <=> w < next + 1
      BY <3>1
    <3>3. CASE next + 1 = tc
      BY <3>1, <3>2, <3>3
    <3>4. CASE next + 1 # tc
      BY <3>1, <3>2, <3>4
    <3> QED
      BY <3>3, <3>4
  <2>5. LineHolds' /\ LifeFollows'
    BY <1>4, <2>1 DEF Spawn
  <2> QED
    BY <2>2, <2>3, <2>4, <2>5
<1>5. CASE SeeAllInitialized
  <2>1. Waiting' = Waiting
    BY <1>5 DEF SeeAllInitialized, Waiting
  <2>2. Waiting \subseteq Team
    BY <1>5 DEF SeeAllInitialized, Waiting
  <2>3. Waiting = Team
    BY <1>5, <2>2, AllWait DEF SeeAllInitialized
  <2> QED
    BY <1>5, <2>1, <2>3 DEF SeeAllInitialized, Waiting
<1>6. CASE Release
  BY <1>6 DEF Release
<1>7. CASE Join
  <2>1. TypeOK' /\ Pinned'
    BY <1>7 DEF Join
  <2>2. ThreadsExist'
    BY <1>7 DEF Join
  <2>3. LineHolds' /\ LifeFollows'
    BY <1>7 DEF Join
  <2> QED
    BY <2>1, <2>2, <2>3
<1>8. CASE RunInline
  BY <1>8 DEF RunInline
<1>9. CASE InlineDone
  BY <1>9 DEF InlineDone
<1>10. CASE Terminate
  BY <1>10 DEF Terminate
<1>11. CASE Destroy
  BY <1>11 DEF Destroy
<1>12. CASE Return
  BY <1>12 DEF Return
<1>13. ASSUME NEW w \in Workers, PrepareThread(w) PROVE IInv'
  <2>1. Waiting' = Waiting
    BY <1>13 DEF PrepareThread, Waiting
  <2>2. CpuOf(w) \in Anywhere..Cpus - 1
    BY CpuOfIndex
  <2> QED
    BY <1>13, <2>1, <2>2 DEF PrepareThread
<1>14. ASSUME NEW w \in Workers, Arrive(w) PROVE IInv'
  <2>1. Waiting' = Waiting \cup {w} /\ w \notin Waiting
    BY <1>14 DEF Arrive, Waiting
  <2>2. Waiting \in SUBSET Workers /\ Waiting' \in SUBSET Workers
    BY <2>1 DEF Waiting
  <2>3. Cardinality(Waiting') = Cardinality(Waiting) + 1
    BY <2>1, <2>2, SomeWorkers, FS_AddElement
  <2>4. Cardinality(Waiting') \in 0..MaxThreads
    BY <2>2, SomeWorkers
  <2>5. mpc \in {"spawn", "await"}
    BY <1>14 DEF Arrive
  <2>6. initialized' = Cardinality(Waiting')
    BY <1>14, <2>3, <2>5 DEF Arrive
  <2>7. TypeOK' /\ Pinned'
    BY <1>14, <2>4, <2>6 DEF Arrive
  <2>8. ThreadsExist' /\ LifeFollows'
    BY <1>14 DEF Arrive
  <2>9. LineHolds'
    BY <1>14, <2>5, <2>6 DEF Arrive
  <2> QED
    BY <2>7, <2>8, <2>9
<1>15. ASSUME NEW w \in Workers, SeeRelease(w) PROVE IInv'
  <2>1. Cardinality(Waiting) \in Nat
    BY SomeWorkers DEF Waiting
  <2>2. mpc = "join"
    BY <1>15, <2>1 DEF SeeRelease
  <2>3. TypeOK' /\ ThreadsExist' /\ LifeFollows'
    BY <1>15, <2>2 DEF SeeRelease
  <2>4. LineHolds' /\ Pinned'
    BY <1>15, <2>2 DEF SeeRelease
  <2> QED
    BY <2>3, <2>4
<1>16. ASSUME NEW w \in Workers, StartLogging(w) PROVE IInv'
  BY <1>16 DEF StartLogging
<1>17. ASSUME NEW w \in Workers, StopLogging(w) PROVE IInv'
  <2>1. TypeOK' /\ ThreadsExist' /\ LifeFollows'
    BY <1>17 DEF StopLogging
  <2>2. LineHolds' /\ Pinned'
    BY <1>17 DEF StopLogging
  <2> QED
    BY <2>1, <2>2
<1>18. CASE UNCHANGED vars
  <2>1. Waiting' = Waiting
    BY <1>18 DEF vars, Waiting
  <2> QED
    BY <1>18, <2>1 DEF vars
<1> QED
  BY <1>1, <1>2, <1>3, <1>4, <1>5, <1>6, <1>7, <1>8, <1>9, <1>10, <1>11, <1>12,
     <1>13, <1>14, <1>15, <1>16, <1>17, <1>18
  DEF Next, MainStep, WorkerStep, Create

\* The invariant holds in every state of every call.
THEOREM Invariance == Spec => []IInv
  BY InitInv, NextInv, PTL DEF Spec

-----------------------------------------------------------------------------
(* What follows from it.                                                   *)

\* Type correctness.
THEOREM TypeCorrect == Spec => []TypeOK
<1>1. IInv => TypeOK
  BY DEF IInv
<1> QED
  BY <1>1, Invariance, PTL

\* No producer of a call is past the start line while another has yet to
\* return from prepare_thread, however many there are.
THEOREM StartsTogether == Spec => []StartTogether
<1>1. IInv => StartTogether
  <2> SUFFICES ASSUME IInv, NEW v \in Workers, wpc[v] \in {"go", "logging", "done"},
                      NEW w \in Team
               PROVE  wpc[w] \notin {"none", "prepare"}
    BY DEF StartTogether
  <2>1. w \in Workers
    BY HarnessAssumption DEF IInv, TypeOK
  <2>2. CASE mpc \in {"join", "running"}
    BY <2>2 DEF IInv, ThreadsExist, LineHolds
  <2>3. CASE mpc \in {"terminate", "destroy", "report", "idle"}
    BY <2>1, <2>3 DEF IInv, ThreadsExist
  <2> QED
    BY <2>2, <2>3 DEF IInv, TypeOK, ThreadsExist, LineHolds
<1> QED
  BY <1>1, Invariance, PTL

\* Nothing is called on a logger before create or after terminate.
THEOREM UsesLiveLogger == Spec => []AliveWhileUsed
<1>1. IInv => AliveWhileUsed
  BY HarnessAssumption
  DEF IInv, TypeOK, ThreadsExist, LifeFollows, AliveWhileUsed
<1> QED
  BY <1>1, Invariance, PTL

\* No thread outlives the locals of the call that it refers to.
THEOREM JoinsEveryThread == Spec => []FrameOutlivesThreads
<1>1. IInv => FrameOutlivesThreads
  BY DEF IInv, ThreadsExist, FrameOutlivesThreads
<1> QED
  BY <1>1, Invariance, PTL

\* Where there are more CPUs than threads, each producer is timed on one of
\* its own, however many there are.
THEOREM TimesApart == Spec => []TimedApart
<1>1. IInv => TimedApart
  <2> SUFFICES ASSUME IInv, NEW u \in Workers, wpc[u] = "logging", tc > 1, Cpus > tc
               PROVE  /\ \A w \in Team : cpu[w] \notin {home, Anywhere}
                      /\ \A v, w \in Team : v # w => cpu[v] # cpu[w]
    BY DEF TimedApart
  <2>1. mpc = "join" /\ home = CpuOf(tc) /\ tc \in 0..MaxThreads
    BY DEF IInv, TypeOK, ThreadsExist, LineHolds, Pinned
  <2>2. home = tc
    BY <2>1, CpuOfIndex
  <2>3. ASSUME NEW w \in Team PROVE cpu[w] = w
    <3>1. w \in Workers /\ w \in Nat /\ w < Cpus /\ cpu[w] = CpuOf(w)
      BY <2>1, HarnessAssumption DEF IInv, LineHolds, Pinned
    <3> QED
      BY <3>1, CpuOfIndex
  <2> QED
    BY <2>1, <2>2, <2>3 DEF Anywhere
<1> QED
  BY <1>1, Invariance, PTL

-----------------------------------------------------------------------------
(* The refinement of LoggerContract.                                       *)

USE DEF At, Done, Contract!vars

\* A call starts without an instance.
LEMMA InitContract == Init => Contract!Init
  BY DEF Init, Contract!Init

\* Each step is the call of the contract that it makes, or a stutter.
LEMMA NextContract == IInv /\ [Next]_vars => [Contract!Next]_(Contract!vars)
<1> SUFFICES ASSUME IInv, [Next]_vars PROVE [Contract!Next]_(Contract!vars)
  OBVIOUS
<1> USE HarnessAssumption DEF IInv, TypeOK, ThreadsExist, LineHolds, LifeFollows, Pinned, Anywhere, affinity
<1>1. ASSUME NEW n \in ThreadCounts, Call(n) PROVE UNCHANGED Contract!vars
  BY <1>1 DEF Call
<1>2. ASSUME CreateSucceeds PROVE \E T \in SUBSET Workers : Contract!Create(T)
  <2>1. Team \in SUBSET Workers
    BY <1>2 DEF CreateSucceeds
  <2>2. Contract!Create(Team)
    BY <1>2 DEF CreateSucceeds, Contract!Create
  <2> QED
    BY <2>1, <2>2 DEF Contract!Create
<1>3. ASSUME CreateFails PROVE UNCHANGED Contract!vars
  BY <1>3 DEF CreateFails
<1>4. ASSUME Spawn PROVE UNCHANGED Contract!vars
  <2>1. next \in Workers /\ wpc[next] = "none"
    BY <1>4 DEF Spawn
  <2>2. At({"logging"})' = At({"logging"}) /\ At({"done"})' = At({"done"})
    BY <1>4, <2>1 DEF Spawn
  <2>3. At({"arrive", "spin", "go", "logging"})' = At({"arrive", "spin", "go", "logging"})
    BY <1>4, <2>1 DEF Spawn
  <2> QED
    BY <1>4, <2>2, <2>3 DEF Spawn
<1>5. ASSUME SeeAllInitialized \/ Release \/ Join \/ InlineDone \/ Return
      PROVE  UNCHANGED Contract!vars
  BY <1>5 DEF SeeAllInitialized, Release, Join, InlineDone, Return
<1>6. ASSUME RunInline PROVE UNCHANGED Contract!vars
  BY <1>6 DEF RunInline
<1>7. ASSUME Terminate PROVE Contract!Terminate
  BY <1>7 DEF Terminate, Contract!Terminate
<1>8. ASSUME Destroy PROVE Contract!Destroy
  BY <1>8 DEF Destroy, Contract!Destroy
<1>9. ASSUME NEW w \in Workers, PrepareThread(w) PROVE Contract!PrepareThread(w)
  <2>1. mpc \in {"spawn", "await", "running"} /\ life = "created"
    BY <1>9 DEF PrepareThread
  <2>2. w \in Team
    BY <1>9, <2>1 DEF PrepareThread
  <2> QED
    BY <1>9, <2>1, <2>2 DEF PrepareThread, Contract!PrepareThread
<1>10. ASSUME NEW w \in Workers, Arrive(w) \/ SeeRelease(w)
       PROVE  UNCHANGED Contract!vars
  BY <1>10 DEF Arrive, SeeRelease
<1>11. ASSUME NEW w \in Workers, StartLogging(w) PROVE Contract!StartLogging(w)
  <2>1. mpc \in {"join", "running"} /\ life = "created"
    BY <1>11 DEF StartLogging
  <2>2. w \in Team
    BY <1>11, <2>1 DEF StartLogging
  <2>3. At({"arrive", "spin", "go", "logging"}) \cup Done = Team
    BY <1>11, <2>1 DEF StartLogging
  <2> QED
    BY <1>11, <2>1, <2>2, <2>3 DEF StartLogging, Contract!StartLogging
<1>12. ASSUME NEW w \in Workers, StopLogging(w) PROVE Contract!StopLogging(w)
  BY <1>12 DEF StopLogging, Contract!StopLogging
<1>13. ASSUME UNCHANGED vars PROVE UNCHANGED Contract!vars
  BY <1>13 DEF vars
<1> QED
  BY <1>1, <1>2, <1>3, <1>4, <1>5, <1>6, <1>7, <1>8, <1>9, <1>10, <1>11, <1>12, <1>13
  DEF Next, MainStep, WorkerStep, Create, Contract!Next

\* run_throughput and run_latency drive a logger as logger.hpp asks, for
\* every sequence of calls and every thread count.
THEOREM Implements == Spec => KeepsContract
  BY InitContract, NextContract, Invariance, PTL DEF Spec, KeepsContract, Contract!Spec
=============================================================================
