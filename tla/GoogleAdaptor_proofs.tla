------------------------ MODULE GoogleAdaptor_proofs ------------------------
(***************************************************************************)
(* run_google_benchmark, for every number of threads and every sequence of *)
(* runs, while loggers can be created: `runners` counts those who are      *)
(* between its two points, so that each point holds who it has to hold,    *)
(* the statics are handed over clean, and the logger is driven as          *)
(* logger.hpp asks.                                                        *)
(***************************************************************************)
EXTENDS GoogleAdaptor, FiniteSetTheorems, TLAPS

\* Where a run whose create fails ends is another matter (RunsReturn).
NeverFails == CreateOutcomes \subseteq {TRUE}

\* Stages of a thread, by the points that it has passed.
Arriving == {"create", "enter"}
Preparing == {"gather", "prepare"}
Looping == {"begin", "loop"}
Ending == {"terminate", "destroy", "reset", "last"}
Leaving == {"leave", "scatter"} \cup Ending

\* Those who have entered and not left.
Counted == {w \in Workers : pc[w] \in Preparing \cup Looping \cup {"end", "leave"} \cup Ending}

Typed ==
  /\ tc \in 0..MaxThreads
  /\ pc \in [Workers -> {"returned", "end"} \cup Arriving \cup Preparing \cup Looping \cup Leaving]
  /\ error \subseteq Workers

\* Who can be where: thread 0 alone creates and ends, the others scatter.
Roles ==
  /\ \A w \in Workers : pc[w] # "returned" => w \in Team
  /\ \A w \in Workers : pc[w] \in {"create"} \cup Ending => w = 0
  /\ pc[0] # "scatter"

\* Nobody is past a point while another is before it.
Points ==
  /\ (\E w \in Workers : pc[w] \in {"prepare", "end"} \cup Looping \cup Leaving)
       => \A v \in Workers : pc[v] \notin Arriving
  /\ (\E w \in Workers : pc[w] \in {"loop", "end"} \cup Leaving)
       => \A v \in Workers : pc[v] \notin Preparing
  /\ (\E w \in Workers : pc[w] \in Leaving)
       => \A v \in Workers : pc[v] \notin Looping

\* Thread 0 ends a run alone, and only then does anybody return.
Alone ==
  /\ pc[0] \in Ending => \A v \in Team : v # 0 => pc[v] = "scatter"
  /\ (\E v \in Team : pc[v] = "returned") => \A w \in Workers : pc[w] \in {"scatter", "returned"}

\* The instance and what is told of it follow thread 0.
Follows ==
  /\ initstatus =
       IF pc[0] \in {"create", "last", "returned"} THEN "unitialized" ELSE "init_ok"
  /\ life = IF pc[0] \in {"create", "reset", "last", "returned"} THEN "absent"
            ELSE IF pc[0] = "destroy" THEN "terminated" ELSE "created"

IInv ==
  /\ Typed /\ Roles /\ Points /\ Alone /\ Follows
  /\ runners = Cardinality(Counted)

-----------------------------------------------------------------------------
(* Counting.                                                               *)

LEMMA WorkersFinite == IsFiniteSet(Workers) /\ Cardinality(Workers) = MaxThreads
  BY AdaptorAssumption, FS_Interval DEF Workers

\* As many as the workers at most, of which one is thread 0.
LEMMA CountedFinite ==
  IsFiniteSet(Counted) /\ Cardinality(Counted) \in 0..MaxThreads
<1>1. Counted \subseteq Workers
  BY DEF Counted
<1>2. IsFiniteSet(Counted) /\ Cardinality(Counted) <= Cardinality(Workers)
  BY <1>1, WorkersFinite, FS_Subset
<1>3. Cardinality(Counted) \in Nat
  BY <1>2, FS_CardinalityType
<1> QED
  BY <1>2, <1>3, WorkersFinite, AdaptorAssumption

\* When the count is that of the team, the team has entered.
LEMMA AllCounted ==
  ASSUME tc \in 1..MaxThreads, Counted \subseteq Team, Cardinality(Counted) = tc
  PROVE  Counted = Team
<1>1. IsFiniteSet(Team) /\ Cardinality(Team) = tc
  BY AdaptorAssumption, FS_Interval DEF Team
<1> QED
  BY <1>1, FS_Subset

\* When it is at most one, whoever is counted is alone.
LEMMA OneCounted ==
  ASSUME NEW w \in Counted, Cardinality(Counted) <= 1
  PROVE  Counted = {w}
<1>1. IsFiniteSet(Counted) /\ {w} \subseteq Counted
  BY CountedFinite
<1>2. Cardinality({w}) = 1
  BY FS_Singleton
<1>3. Cardinality({w}) <= Cardinality(Counted)
  BY <1>1, FS_Subset
<1>4. Cardinality(Counted) \in Nat
  BY CountedFinite
<1> QED
  BY <1>1, <1>2, <1>3, <1>4, FS_Subset

\* One more, one less.
LEMMA CountOneMore ==
  ASSUME NEW w, w \notin Counted, Counted' = Counted \cup {w}
  PROVE  Cardinality(Counted') = Cardinality(Counted) + 1
  BY CountedFinite, FS_AddElement

LEMMA CountOneLess ==
  ASSUME NEW w \in Counted, Counted' = Counted \ {w}
  PROVE  Cardinality(Counted') = Cardinality(Counted) - 1
  BY CountedFinite, FS_RemoveElement

-----------------------------------------------------------------------------
(* The invariant.                                                          *)

USE DEF Workers, Team, Arriving, Preparing, Looping, Ending, Leaving

LEMMA InitIInv == Init => IInv
<1> SUFFICES ASSUME Init PROVE IInv
  OBVIOUS
<1>1. Counted = {}
  BY DEF Init, Counted
<1> QED
  BY <1>1, FS_EmptySet, AdaptorAssumption
  DEF Init, IInv, Typed, Roles, Points, Alone, Follows

LEMMA NextIInv == NeverFails /\ IInv /\ [Next]_vars => IInv'
<1> SUFFICES ASSUME NeverFails, IInv, [Next]_vars PROVE IInv'
  OBVIOUS
<1> USE AdaptorAssumption DEF IInv, Typed, Roles, Points, Alone, Follows, Goto
<1>1. ASSUME NEW n \in ThreadCounts, StartRun(n) PROVE IInv'
  <2>1. Counted = {} /\ Counted' = {}
    BY <1>1 DEF StartRun, Counted
  <2> QED
    BY <1>1, <2>1 DEF StartRun
<1>2. CASE Create
  <2>1. Counted' = Counted
    BY <1>2 DEF Create, Counted
  <2>2. life' = "created" /\ initstatus' = "init_ok" /\ error' = error
    BY <1>2 DEF Create, NeverFails
  <2> QED
    BY <1>2, <2>1, <2>2 DEF Create
<1>3. ASSUME NEW w \in Workers, Enter(w) PROVE IInv'
  <2>1. w \notin Counted /\ Counted' = Counted \cup {w}
    BY <1>3 DEF Enter, Counted
  <2>2. runners' = Cardinality(Counted')
    BY <1>3, <2>1, CountOneMore DEF Enter
  <2> QED
    BY <1>3, <2>2 DEF Enter
<1>4. ASSUME NEW w \in Workers, Gather(w) PROVE IInv'
  <2>1. Counted' = Counted
    BY <1>4 DEF Gather, Counted
  <2>2. Counted \subseteq Team
    BY DEF Counted
  <2>3. Counted = Team
    <3>1. tc \in 1..MaxThreads
      BY <1>4 DEF Gather
    <3> QED
      BY <1>4, <2>2, <3>1, AllCounted DEF Gather
  <2>4. \A v \in Workers : pc[v] \notin Arriving
    BY <2>3 DEF Counted
  <2>5. \A v \in Workers : pc[v] \notin {"loop", "end"} \cup Leaving
    BY <1>4 DEF Gather
  <2>6. Points'
    BY <1>4, <2>4, <2>5 DEF Gather
  <2>7. Typed' /\ Roles' /\ Alone' /\ Follows'
    BY <1>4 DEF Gather
  <2> QED
    BY <1>4, <2>1, <2>6, <2>7 DEF Gather
<1>5. ASSUME NEW w \in Workers, Prepare(w) PROVE IInv'
  <2>1. Counted' = Counted
    BY <1>5 DEF Prepare, Counted
  <2>2. error' \subseteq Workers
    BY <1>5 DEF Prepare
  <2> QED
    BY <1>5, <2>1, <2>2 DEF Prepare
<1>6. ASSUME NEW w \in Workers, Begin(w) PROVE IInv'
  <2>1. Counted' = Counted
    BY <1>6 DEF Begin, Counted
  <2> QED
    BY <1>6, <2>1 DEF Begin
<1>7. ASSUME NEW w \in Workers, Loop(w) PROVE IInv'
  <2>1. Counted' = Counted
    BY <1>7 DEF Loop, Counted
  <2> QED
    BY <1>7, <2>1 DEF Loop
<1>8. ASSUME NEW w \in Workers, End(w) PROVE IInv'
  <2>1. Counted' = Counted
    BY <1>8 DEF End, Counted
  <2> QED
    BY <1>8, <2>1 DEF End
<1>9. ASSUME NEW w \in Workers, Leave(w) PROVE IInv'
  <2>1. w \in Counted /\ Counted' = Counted \ {w}
    BY <1>9 DEF Leave, Counted
  <2>2. runners' = Cardinality(Counted')
    BY <1>9, <2>1, CountOneLess DEF Leave
  <2> QED
    BY <1>9, <2>2 DEF Leave
<1>10. ASSUME NEW w \in Workers, Scatter(w) PROVE IInv'
  <2>1. Counted = {}
    BY <1>10, CountedFinite, FS_EmptySet DEF Scatter
  <2>2. Counted' = Counted
    BY <1>10 DEF Scatter, Counted
  <2>3. \A v \in Workers : pc[v] \in {"scatter", "returned"}
    BY <1>10, <2>1 DEF Scatter, Counted
  <2>4. w # 0 /\ pc' = [pc EXCEPT ![w] = "returned"] /\ UNCHANGED <<tc, runners, initstatus, error, life>>
    BY <1>10 DEF Scatter
  <2>5. \A v \in Workers : pc'[v] \in {"scatter", "returned"}
    BY <2>3, <2>4
  <2>6. Points' /\ Alone'
    BY <2>5
  <2>7. Typed' /\ Roles' /\ Follows'
    BY <2>4
  <2> QED
    BY <2>2, <2>4, <2>6, <2>7
<1>11. CASE Drain
  <2>1. initstatus = "init_ok" /\ runners <= 1 /\ pc[0] = "leave" /\ pc' = [pc EXCEPT ![0] = "terminate"]
    BY <1>11 DEF Drain
  <2>2. 0 \in Counted /\ Counted' = Counted
    BY <2>1 DEF Counted
  <2>3. Counted = {0}
    BY <2>1, <2>2, OneCounted
  <2>4. \A v \in Team : v # 0 => pc[v] = "scatter"
    BY <2>1, <2>3 DEF Counted
  <2> QED
    BY <1>11, <2>1, <2>2, <2>4 DEF Drain
<1>12. CASE Terminate
  <2>1. Counted' = Counted
    BY <1>12 DEF Terminate, Counted
  <2> QED
    BY <1>12, <2>1 DEF Terminate
<1>13. CASE Destroy
  <2>1. Counted' = Counted
    BY <1>13 DEF Destroy, Counted
  <2> QED
    BY <1>13, <2>1 DEF Destroy
<1>14. CASE Reset
  <2>1. Counted' = Counted
    BY <1>14 DEF Reset, Counted
  <2> QED
    BY <1>14, <2>1 DEF Reset
<1>15. CASE LeaveLast
  <2>1. 0 \in Counted /\ Counted' = Counted \ {0}
    BY <1>15 DEF LeaveLast, Counted
  <2>2. runners' = Cardinality(Counted')
    BY <1>15, <2>1, CountOneLess DEF LeaveLast
  <2> QED
    BY <1>15, <2>2 DEF LeaveLast
<1>16. CASE UNCHANGED vars
  <2>1. Counted' = Counted
    BY <1>16 DEF vars, Counted
  <2> QED
    BY <1>16, <2>1 DEF vars
<1> QED
  BY <1>1, <1>2, <1>3, <1>4, <1>5, <1>6, <1>7, <1>8, <1>9, <1>10, <1>11, <1>12,
     <1>13, <1>14, <1>15, <1>16
  DEF Next, ThreadStep

\* The invariant holds throughout every sequence of runs.
THEOREM Invariance == ASSUME NeverFails PROVE Spec => []IInv
<1>1. IInv /\ [Next]_vars => IInv'
  BY NextIInv
<1> QED
  BY <1>1, InitIInv, PTL DEF Spec

-----------------------------------------------------------------------------
(* What follows from it.                                                   *)

\* Type correctness: the unsigned count of runners never wraps around.
THEOREM TypeCorrect == ASSUME NeverFails PROVE Spec => []TypeOK
<1>1. IInv => TypeOK
  BY CountedFinite DEF IInv, Typed, Follows, TypeOK
<1> QED
  BY <1>1, Invariance, PTL

\* Every run leaves the statics as it found them, and no instance.
THEOREM HandsOverClean == ASSUME NeverFails PROVE Spec => []CleanHandover
<1>1. IInv => CleanHandover
  <2> SUFFICES ASSUME IInv, \A w \in Workers : pc[w] = "returned"
               PROVE  runners = 0 /\ initstatus = "unitialized" /\ life = "absent"
    BY DEF CleanHandover
  <2>1. Counted = {}
    BY DEF Counted
  <2>2. 0 \in Workers
    BY AdaptorAssumption
  <2> QED
    BY <2>1, <2>2, FS_EmptySet DEF IInv, Follows
<1> QED
  BY <1>1, Invariance, PTL

-----------------------------------------------------------------------------
(* The refinement of LoggerContract.                                       *)

USE DEF At, Done, Contract!vars

\* The first run starts without an instance.
LEMMA InitContract == Init => Contract!Init
  BY DEF Init, Contract!Init

\* Each step is the call of the contract that it makes, or a stutter.
LEMMA NextContract ==
  NeverFails /\ IInv /\ [Next]_vars => [Contract!Next]_(Contract!vars)
<1> SUFFICES ASSUME NeverFails, IInv, [Next]_vars PROVE [Contract!Next]_(Contract!vars)
  OBVIOUS
<1> USE AdaptorAssumption DEF IInv, Typed, Roles, Points, Alone, Follows, Goto
<1>1. ASSUME NEW n \in ThreadCounts, StartRun(n) PROVE UNCHANGED Contract!vars
  BY <1>1 DEF StartRun
<1>2. ASSUME Create PROVE \E T \in SUBSET Workers : Contract!Create(T)
  <2>1. life' = "created" /\ life = "absent" /\ tc' = tc
    BY <1>2 DEF Create, NeverFails
  <2>2. \A w \in Workers : pc[w] \in {"create", "enter", "gather", "returned"}
    BY <1>2 DEF Create
  <2>3. \A w \in Workers : pc'[w] \in {"enter", "gather", "returned"}
    BY <1>2, <2>2 DEF Create
  <2>4. Contract!Create(Team)
    BY <2>1, <2>3 DEF Contract!Create
  <2>5. Team \in SUBSET Workers
    OBVIOUS
  <2> QED
    BY <2>4, <2>5 DEF Contract!Create
<1>3. ASSUME NEW w \in Workers, Enter(w) \/ Gather(w) PROVE UNCHANGED Contract!vars
  <2>1. CASE Enter(w)
    BY <2>1 DEF Enter
  <2>2. CASE Gather(w)
    BY <2>2 DEF Gather
  <2> QED
    BY <1>3, <2>1, <2>2
<1>4. ASSUME NEW w \in Workers, Prepare(w) PROVE Contract!PrepareThread(w)
  <2>1. pc[w] = "prepare" /\ pc' = [pc EXCEPT ![w] = "begin"] /\ UNCHANGED <<tc, life>>
    BY <1>4 DEF Prepare
  <2>2. w \in Team /\ pc[0] \in {"gather", "prepare", "begin"}
    BY <2>1
  <2>3. life = "created"
    BY <2>2
  <2>4. At({"begin", "loop"})' = At({"begin", "loop"}) \cup {w} /\ w \notin At({"begin", "loop"})
    BY <2>1
  <2>5. At({"loop"})' = At({"loop"}) /\ Done' = Done /\ w \notin Done
    BY <2>1
  <2> QED
    BY <2>1, <2>2, <2>3, <2>4, <2>5 DEF Contract!PrepareThread
<1>5. ASSUME NEW w \in Workers, Begin(w) PROVE Contract!StartLogging(w)
  <2>1. pc[w] = "begin" /\ pc' = [pc EXCEPT ![w] = "loop"] /\ UNCHANGED <<tc, life>>
    BY <1>5 DEF Begin
  <2>2. w \in Team /\ pc[0] \in {"begin", "loop", "end"}
    BY <1>5, <2>1 DEF Begin
  <2>3. life = "created"
    BY <2>2
  <2>4. \A v \in Team : pc[v] \in {"begin", "loop", "end"}
    BY <1>5, <2>1 DEF Begin
  <2>5. At({"begin", "loop"}) \cup Done = Team
    BY <2>3, <2>4
  <2>6. At({"begin", "loop"})' = At({"begin", "loop"}) /\ Done' = Done /\ w \notin Done
    BY <2>1
  <2>7. At({"loop"})' = At({"loop"}) \cup {w} /\ w \notin At({"loop"})
    BY <2>1
  <2> QED
    BY <2>1, <2>2, <2>3, <2>5, <2>6, <2>7 DEF Contract!StartLogging
<1>6. ASSUME NEW w \in Workers, Loop(w) PROVE Contract!StopLogging(w)
  BY <1>6 DEF Loop, Contract!StopLogging
<1>7. ASSUME NEW w \in Workers, End(w) \/ Leave(w) \/ Scatter(w)
      PROVE  UNCHANGED Contract!vars
  <2>1. ASSUME NEW v \in {"leave", "scatter"}, pc[w] \in {"end", "leave"},
               pc' = [pc EXCEPT ![w] = v], UNCHANGED <<tc, life>>
        PROVE  UNCHANGED Contract!vars
    <3>1. At({"begin", "loop"})' = At({"begin", "loop"}) /\ At({"loop"})' = At({"loop"})
      BY <2>1
    <3>2. Done' = Done
      BY <2>1
    <3> QED
      BY <2>1, <3>1, <3>2
  <2>2. CASE Scatter(w)
    <3>1. Counted = {}
      BY <2>2, CountedFinite, FS_EmptySet DEF Scatter
    <3>2. pc[0] = "returned"
      <4>1. 0 \in Workers /\ pc[w] = "scatter"
        BY <2>2 DEF Scatter
      <4>2. pc[0] \notin Arriving
        BY <4>1
      <4> QED
        BY <3>1, <4>1, <4>2 DEF Counted
    <3>3. Done = {} /\ Done' = {}
      BY <2>2, <3>2 DEF Scatter
    <3>4. At({"begin", "loop"})' = At({"begin", "loop"}) /\ At({"loop"})' = At({"loop"})
      BY <2>2 DEF Scatter
    <3>5. life' = life /\ Team' = Team
      BY <2>2 DEF Scatter
    <3> QED
      BY <3>3, <3>4, <3>5
  <2> QED
    BY <1>7, <2>1, <2>2 DEF End, Leave
<1>8. ASSUME Drain PROVE UNCHANGED Contract!vars
  BY <1>8 DEF Drain
<1>9. ASSUME Terminate PROVE Contract!Terminate
  BY <1>9 DEF Terminate, Contract!Terminate
<1>10. ASSUME Destroy PROVE Contract!Destroy
  BY <1>10 DEF Destroy, Contract!Destroy
<1>11. ASSUME Reset \/ LeaveLast PROVE UNCHANGED Contract!vars
  BY <1>11 DEF Reset, LeaveLast
<1>12. ASSUME UNCHANGED vars PROVE UNCHANGED Contract!vars
  BY <1>12 DEF vars
<1> QED
  BY <1>1, <1>2, <1>3, <1>4, <1>5, <1>6, <1>7, <1>8, <1>9, <1>10, <1>11, <1>12
  DEF Next, ThreadStep, Contract!Next

\* run_google_benchmark drives a logger as logger.hpp asks, for every
\* sequence of runs and every thread count.
THEOREM Implements == ASSUME NeverFails PROVE Spec => KeepsContract
<1>1. IInv /\ [Next]_vars => [Contract!Next]_(Contract!vars)
  BY NextContract
<1> QED
  BY <1>1, InitContract, Invariance, PTL DEF Spec, KeepsContract, Contract!Spec
=============================================================================
