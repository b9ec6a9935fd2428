-------------------------- MODULE TestSuite_proofs --------------------------
(***************************************************************************)
(* run_tests, for every number of loggers, thread counts, iterations and   *)
(* messages: its threads are those of RunHarness, every result lands in    *)
(* the cell of its own test and stays there, and every producer logs its   *)
(* share.                                                                  *)
(***************************************************************************)
EXTENDS TestSuite, DataLemmas

-----------------------------------------------------------------------------
(* The address arithmetic of test_results::at.                             *)

\* A product grows by at least its other factor.
LEMMA ProductStep ==
  ASSUME NEW a \in Nat, NEW b \in Nat, NEW m \in Nat, a < b
  PROVE  a * m + m <= b * m
<1> DEFINE d == b - a - 1
<1>1. d \in Nat /\ b = a + 1 + d
  OBVIOUS
<1>2. b * m = a * m + m + d * m
  <2>1. (a + 1 + d) * m = a * m + m + d * m
    BY <1>1
  <2> QED
    BY <1>1, <2>1
<1>3. d * m \in Nat /\ a * m \in Nat
  BY <1>1
<1> QED
  BY <1>2, <1>3

\* A digit and a remainder below the radix stay below the product.
LEMMA DigitInRange ==
  ASSUME NEW n \in Nat, NEW m \in Nat, NEW d \in 0..n - 1, NEW r \in 0..m - 1
  PROVE  d * m + r \in 0..n * m - 1
<1>1. d \in Nat /\ d < n
  OBVIOUS
<1>2. d * m + m <= n * m
  BY <1>1, ProductStep
<1>3. d * m \in Nat /\ n * m \in Nat
  BY <1>1
<1> QED
  BY <1>2, <1>3

\* A number has one digit and one remainder.
LEMMA DigitUnique ==
  ASSUME NEW m \in Nat, NEW a \in Nat, NEW b \in Nat,
         NEW r \in 0..m - 1, NEW s \in 0..m - 1,
         a * m + r = b * m + s
  PROVE  a = b /\ r = s
<1>1. a * m \in Nat /\ b * m \in Nat
  OBVIOUS
<1>2. ~(a < b)
  <2> SUFFICES ASSUME a < b PROVE FALSE
    OBVIOUS
  <2>1. a * m + m <= b * m
    BY ProductStep
  <2> QED
    BY <1>1, <2>1
<1>3. ~(b < a)
  <2> SUFFICES ASSUME b < a PROVE FALSE
    OBVIOUS
  <2>1. b * m + m <= a * m
    BY ProductStep
  <2> QED
    BY <1>1, <2>1
<1>4. a = b
  BY <1>2, <1>3
<1> QED
  BY <1>1, <1>4

\* Inside a logger's block the cell is found by thread count and iteration.
Offset(thread, iteration) == thread * Iterations + iteration
Block == ThreadCountIdxs * Iterations

LEMMA OffsetInBlock ==
  ASSUME NEW t \in 0..ThreadCountIdxs - 1, NEW i \in 0..Iterations - 1
  PROVE  Offset(t, i) \in 0..Block - 1
  BY ShapeAssumption, DigitInRange DEF Offset, Block

\* at() stays inside the allocation that init() made.
THEOREM AddressInRange ==
  ASSUME NEW l, NEW t, NEW i, InShape(l, t, i)
  PROVE  Address(l, t, i) \in Addresses
<1>1. /\ l \in 0..LoggerCount - 1 /\ Offset(t, i) \in 0..Block - 1
      /\ Block \in Nat
  BY ShapeAssumption, OffsetInBlock DEF InShape, Block
<1>2. l * Block + Offset(t, i) \in 0..LoggerCount * Block - 1
  BY <1>1, ShapeAssumption, DigitInRange
<1>3. LoggerCount * Block = LoggerCount * ThreadCountIdxs * Iterations
  BY ShapeAssumption DEF Block
<1>4. l * Block + Offset(t, i) = Address(l, t, i)
  BY <1>1, ShapeAssumption DEF Address, Offset, Block, InShape
<1> QED
  BY <1>2, <1>3, <1>4 DEF Addresses

\* The results of different tests never share a cell.
THEOREM AddressInjective ==
  ASSUME NEW l, NEW t, NEW i, InShape(l, t, i),
         NEW k, NEW u, NEW j, InShape(k, u, j),
         Address(l, t, i) = Address(k, u, j)
  PROVE  l = k /\ t = u /\ i = j
<1>1. /\ l \in Nat /\ k \in Nat /\ t \in Nat /\ u \in Nat
      /\ i \in 0..Iterations - 1 /\ j \in 0..Iterations - 1
      /\ Block \in Nat
  BY ShapeAssumption DEF InShape, Block
<1>2. Offset(t, i) \in 0..Block - 1 /\ Offset(u, j) \in 0..Block - 1
  BY OffsetInBlock DEF InShape
<1>3. l * Block + Offset(t, i) = k * Block + Offset(u, j)
  BY <1>1, ShapeAssumption DEF Address, Offset, Block
<1>4. l = k /\ Offset(t, i) = Offset(u, j)
  <2>1. \A x, y \in 0..Block - 1 :
          l * Block + x = k * Block + y => l = k /\ x = y
    BY <1>1, DigitUnique
  <2> QED
    BY <1>2, <1>3, <2>1
<1>5. t = u /\ i = j
  BY <1>1, <1>4, ShapeAssumption, DigitUnique DEF Offset
<1> QED
  BY <1>4, <1>5

-----------------------------------------------------------------------------
(* The cells.                                                              *)

Fields == {"thread_count", "messages", "throughput_faults", "latency_faults",
           "producer_ns", "total_ns", "latency_ns"}

\* The cell of a test that is over.
Written(l, t, it) ==
  LET tr == table[Address(l, t, it)]
  IN  tr.thread_count = ThreadCountSeq[t + 1] /\ tr.messages = Msgs

\* What run_tests is doing is seen from where its caller is.
Doing ==
  /\ ret \in {-1, 0, 1}
  /\ ret = 0 => mpc = "idle"
  /\ ret = 1 => mpc = "failed"

\* The loop indices: of a cell, until the loops are over.
Indexed ==
  /\ pos \in [it : Nat, l : Nat, t : Nat]
  /\ ret # 0 => InShape(pos.l, pos.t, pos.it)
  /\ ret = 0 => pos.it = Iterations \/ Addresses = {}

\* The cells up to the one the loops are at.
CellsWritten ==
  /\ DOMAIN table = Addresses
  /\ ret # 1 =>
       \A l, t, it : InShape(l, t, it) /\ Before([it |-> it, l |-> l, t |-> t], pos)
                       => Written(l, t, it)
  /\ ret = -1 /\ (phase = "latency" \/ mpc # "idle")
       => DOMAIN table[Cell] = Fields /\ table[Cell].thread_count = Threads
  /\ ret = -1 /\ phase = "latency" => table[Cell].messages = Msgs

CInv == Doing /\ Indexed /\ CellsWritten

\* The step to the next test passes over no cell: what is before it is what
\* was before, or is over now.
LEMMA FollowingSteps ==
  ASSUME Indexed, ret = -1
  PROVE  /\ Following \in [it : Nat, l : Nat, t : Nat]
         /\ Following.it # Iterations => InShape(Following.l, Following.t, Following.it)
         /\ \A l, t, it :
              InShape(l, t, it) /\ Before([it |-> it, l |-> l, t |-> t], Following)
                => \/ Before([it |-> it, l |-> l, t |-> t], pos)
                   \/ it = pos.it /\ l = pos.l /\ t = pos.t
<1>1. /\ pos.it \in Nat /\ pos.l \in Nat /\ pos.t \in Nat
      /\ pos = [it |-> pos.it, l |-> pos.l, t |-> pos.t]
      /\ pos.it < Iterations /\ pos.l < LoggerCount /\ pos.t < ThreadCountIdxs
      /\ Iterations \in Nat /\ LoggerCount \in Nat /\ ThreadCountIdxs \in Nat
  BY ShapeAssumption DEF Indexed, InShape
<1>2. CASE pos.t + 1 < ThreadCountIdxs
  <2>1. /\ Following = [it |-> pos.it, l |-> pos.l, t |-> pos.t + 1]
        /\ Following.it = pos.it /\ Following.l = pos.l /\ Following.t = pos.t + 1
    BY <1>1, <1>2 DEF Following
  <2> QED
    BY <1>1, <1>2, <2>1 DEF InShape, Before
<1>3. CASE pos.t + 1 >= ThreadCountIdxs /\ pos.l + 1 < LoggerCount
  <2>1. /\ Following = [it |-> pos.it, l |-> pos.l + 1, t |-> 0]
        /\ Following.it = pos.it /\ Following.l = pos.l + 1 /\ Following.t = 0
    <3>1. Following = [[pos EXCEPT !.t = 0] EXCEPT !.l = pos.l + 1]
      BY <1>1, <1>3 DEF Following
    <3>2. [pos EXCEPT !.t = 0] = [it |-> pos.it, l |-> pos.l, t |-> 0]
      BY <1>1
    <3> QED
      BY <3>1, <3>2
  <2> QED
    BY <1>1, <1>3, <2>1 DEF InShape, Before
<1>4. CASE pos.t + 1 >= ThreadCountIdxs /\ pos.l + 1 >= LoggerCount
  <2>1. /\ Following = [it |-> pos.it + 1, l |-> 0, t |-> 0]
        /\ Following.it = pos.it + 1 /\ Following.l = 0 /\ Following.t = 0
    BY <1>1, <1>4 DEF Following
  <2> QED
    BY <1>1, <1>4, <2>1 DEF InShape, Before
<1> QED
  BY <1>1, <1>2, <1>3, <1>4

\* What is in the cells changes at pos alone, and never in a place before it.
LEMMA OtherCells ==
  ASSUME CInv, ret = -1, NEW new, table' = [table EXCEPT ![Cell] = new],
         NEW l, NEW t, NEW it, InShape(l, t, it),
         ~(it = pos.it /\ l = pos.l /\ t = pos.t)
  PROVE  table'[Address(l, t, it)] = table[Address(l, t, it)]
<1>1. InShape(pos.l, pos.t, pos.it)
  BY DEF CInv, Indexed
<1>2. Address(l, t, it) # Cell
  BY <1>1, AddressInjective DEF Cell
<1>3. Address(l, t, it) \in DOMAIN table
  BY AddressInRange DEF CInv, CellsWritten
<1> QED
  BY <1>2, <1>3

\* A place before pos is not pos.
LEMMA BeforeIsOther ==
  ASSUME Indexed, ret # 0, NEW l, NEW t, NEW it, InShape(l, t, it),
         Before([it |-> it, l |-> l, t |-> t], pos)
  PROVE  ~(it = pos.it /\ l = pos.l /\ t = pos.t)
  BY ShapeAssumption DEF Indexed, InShape, Before

LEMMA InitCInv == Init => CInv
<1> SUFFICES ASSUME Init PROVE CInv
  OBVIOUS
<1>1. pos = [it |-> 0, l |-> 0, t |-> 0] /\ phase = "throughput" /\ mpc = "idle"
  BY DEF Init, H!Init
<1>2. ret = IF Addresses = {} THEN 0 ELSE -1
  BY DEF Init
<1>3. ret # 0 => InShape(0, 0, 0)
  <2> SUFFICES ASSUME Addresses # {} PROVE InShape(0, 0, 0)
    BY <1>2
  <2>1. LoggerCount * ThreadCountIdxs * Iterations > 0
    BY ShapeAssumption DEF Addresses
  <2>2. LoggerCount > 0 /\ ThreadCountIdxs > 0 /\ Iterations > 0
    BY <2>1, ShapeAssumption
  <2> QED
    BY <2>2, ShapeAssumption DEF InShape
<1>4. Indexed
  BY <1>1, <1>2, <1>3 DEF Indexed
<1>5. ASSUME NEW l, NEW t, NEW it, InShape(l, t, it)
      PROVE  ~Before([it |-> it, l |-> l, t |-> t], pos)
  BY <1>1, <1>5, ShapeAssumption DEF InShape, Before
<1>6. DOMAIN table = Addresses
  BY DEF Init
<1>7. CellsWritten
  BY <1>1, <1>5, <1>6 DEF CellsWritten
<1> QED
  BY <1>1, <1>2, <1>4, <1>7 DEF CInv, Doing

\* A change of the current cell, and nothing else, leaves what is before it.
LEMMA CurrentCellChanges ==
  ASSUME CInv, ret = -1, NEW new, table' = [table EXCEPT ![Cell] = new],
         UNCHANGED <<pos, ret>>
  PROVE  /\ DOMAIN table' = Addresses /\ Indexed' /\ table'[Cell] = new /\ Cell' = Cell
         /\ Threads' = Threads
         /\ \A l, t, it : InShape(l, t, it) /\ Before([it |-> it, l |-> l, t |-> t], pos)
                            => Written(l, t, it)'
<1>1. InShape(pos.l, pos.t, pos.it)
  BY DEF CInv, Indexed
<1>2. Cell \in DOMAIN table
  BY <1>1, AddressInRange DEF CInv, CellsWritten, Cell
<1>3. ASSUME NEW l, NEW t, NEW it, InShape(l, t, it), Before([it |-> it, l |-> l, t |-> t], pos)
      PROVE  Written(l, t, it)'
  <2>1. ~(it = pos.it /\ l = pos.l /\ t = pos.t)
    <3>1. Indexed /\ ret # 0
      BY DEF CInv
    <3> QED
      BY <1>3, <3>1, BeforeIsOther
  <2>2. table'[Address(l, t, it)] = table[Address(l, t, it)]
    BY <1>3, <2>1, OtherCells
  <2>3. Written(l, t, it)
    BY <1>3 DEF CInv, CellsWritten
  <2> QED
    BY <2>2, <2>3 DEF Written
<1>4. Cell' = Cell /\ Threads' = Threads /\ Indexed'
  BY DEF CInv, Indexed, Cell, Threads
<1>5. DOMAIN table' = Addresses /\ table'[Cell] = new
  BY <1>2 DEF CInv, CellsWritten
<1> QED
  BY <1>3, <1>4, <1>5

LEMMA BeginKeeps == CInv /\ (BeginThroughput \/ BeginLatency) => CInv'
<1> SUFFICES ASSUME CInv, BeginThroughput \/ BeginLatency PROVE CInv'
  OBVIOUS
<1>1. /\ ret = -1 /\ UNCHANGED <<phase, pos, ret>> /\ mpc' = "create"
      /\ phase \in {"throughput", "latency"}
  BY DEF BeginThroughput, BeginLatency, Enter, H!Call
<1>2. PICK new : /\ table' = [table EXCEPT ![Cell] = new]
                 /\ DOMAIN new = Fields /\ new.thread_count = Threads
                 /\ phase = "latency" => new.messages = Msgs
  <2>1. CASE BeginThroughput
    <3> DEFINE zero == [ZeroResult EXCEPT !.thread_count = Threads]
    <3>1. table' = [table EXCEPT ![Cell] = zero] /\ phase = "throughput"
      BY <2>1 DEF BeginThroughput
    <3>2. DOMAIN zero = Fields /\ zero.thread_count = Threads
      BY DEF ZeroResult, Fields
    <3> HIDE DEF zero
    <3> QED
      BY <3>1, <3>2
  <2>2. CASE BeginLatency
    <3> DEFINE same == [table[Cell] EXCEPT !.thread_count = Threads]
    <3>0. InShape(pos.l, pos.t, pos.it)
      BY <1>1 DEF CInv, Indexed
    <3>1. phase = "latency" /\ table' = [table EXCEPT ![Cell] = same]
      BY <2>2 DEF BeginLatency
    <3>2. DOMAIN table[Cell] = Fields /\ table[Cell].messages = Msgs
      BY <1>1, <3>1 DEF CInv, CellsWritten
    <3>3. DOMAIN same = Fields /\ same.thread_count = Threads /\ same.messages = Msgs
      BY <3>2 DEF Fields
    <3> HIDE DEF same
    <3> QED
      BY <3>1, <3>3
  <2> QED
    BY <2>1, <2>2
<1>3. /\ DOMAIN table' = Addresses /\ Indexed' /\ table'[Cell] = new /\ Cell' = Cell
      /\ Threads' = Threads
      /\ \A l, t, it : InShape(l, t, it) /\ Before([it |-> it, l |-> l, t |-> t], pos)
                         => Written(l, t, it)'
  BY <1>1, <1>2, CurrentCellChanges
<1>4. CellsWritten'
  BY <1>1, <1>2, <1>3 DEF CellsWritten
<1>5. Doing'
  BY <1>1 DEF Doing
<1> QED
  BY <1>3, <1>4, <1>5 DEF CInv

LEMMA ReportThroughputKeeps == CInv /\ ReportThroughput => CInv'
<1> SUFFICES ASSUME CInv, ReportThroughput PROVE CInv'
  OBVIOUS
<1>1. /\ mpc = "report" /\ mpc' = "idle" /\ phase' = "latency" /\ UNCHANGED <<pos, ret>>
  BY DEF ReportThroughput, H!Return
<1>2. ret = -1
  BY <1>1 DEF CInv, Doing
<1>3. DOMAIN table[Cell] = Fields /\ table[Cell].thread_count = Threads
  BY <1>1, <1>2 DEF CInv, CellsWritten
<1>4. PICK new : /\ table' = [table EXCEPT ![Cell] = new]
                 /\ DOMAIN new = Fields /\ new.thread_count = Threads
                 /\ new.messages = Msgs
  <2> DEFINE a == [table[Cell] EXCEPT !.messages = Msgs]
             b == [a EXCEPT !.throughput_faults = TeamFaults]
             c == [b EXCEPT !.producer_ns = ToNs(ToU64(MaxEnd - MinStart))]
             d == [c EXCEPT !.total_ns = ToNs(ToU64(totalEnd - MinStart))]
  <2>1. Cell \in DOMAIN table
    BY <1>2, AddressInRange DEF CInv, Indexed, CellsWritten, Cell
  <2>2. table' = [table EXCEPT ![Cell] = d]
    BY <2>1 DEF ReportThroughput
  <2>3. DOMAIN d = Fields /\ d.thread_count = Threads /\ d.messages = Msgs
    BY <1>3 DEF Fields
  <2> QED
    BY <2>2, <2>3
<1>5. /\ DOMAIN table' = Addresses /\ Indexed' /\ table'[Cell] = new /\ Cell' = Cell
      /\ Threads' = Threads
      /\ \A l, t, it : InShape(l, t, it) /\ Before([it |-> it, l |-> l, t |-> t], pos)
                         => Written(l, t, it)'
  BY <1>1, <1>2, <1>4, CurrentCellChanges
<1>6. CellsWritten'
  BY <1>1, <1>2, <1>4, <1>5 DEF CellsWritten
<1>7. Doing'
  BY <1>1, <1>2 DEF Doing
<1> QED
  BY <1>5, <1>6, <1>7 DEF CInv

LEMMA ReportLatencyKeeps == CInv /\ ReportLatency => CInv'
<1> SUFFICES ASSUME CInv, ReportLatency PROVE CInv'
  OBVIOUS
<1>1. /\ mpc = "report" /\ mpc' = "idle" /\ phase = "latency" /\ phase' = "throughput"
      /\ pos' = Following /\ ret' = IF Following.it = Iterations THEN 0 ELSE -1
  BY DEF ReportLatency, H!Return
<1>2. ret = -1
  BY <1>1 DEF CInv, Doing
<1>3. /\ DOMAIN table[Cell] = Fields /\ table[Cell].thread_count = Threads
      /\ table[Cell].messages = Msgs
  BY <1>1, <1>2 DEF CInv, CellsWritten
<1>4. PICK new : /\ table' = [table EXCEPT ![Cell] = new]
                 /\ new.thread_count = Threads /\ new.messages = Msgs
  <2> DEFINE a == [table[Cell] EXCEPT !.latency_faults = LmFaults(Finished)]
             b == [a EXCEPT !.latency_ns =
                     [p \in Permilles |-> ToU32(ToNs(LmPercentile(Finished, p)))]]
  <2>1. table' = [table EXCEPT ![Cell] = Corrected(b)]
    BY DEF ReportLatency
  <2>2. DOMAIN b = Fields /\ b.thread_count = Threads /\ b.messages = Msgs
    BY <1>3 DEF Fields
  <2> HIDE DEF b
  <2>3. Corrected(b).thread_count = Threads /\ Corrected(b).messages = Msgs
    BY <2>2 DEF Corrected, Fields
  <2> QED
    BY <2>1, <2>3
<1>5. /\ DOMAIN table' = Addresses /\ table'[Cell] = new
      /\ \A l, t, it : InShape(l, t, it) /\ Before([it |-> it, l |-> l, t |-> t], pos)
                         => Written(l, t, it)'
  <2>1. InShape(pos.l, pos.t, pos.it)
    BY <1>2 DEF CInv, Indexed
  <2>2. Cell \in DOMAIN table
    BY <2>1, AddressInRange DEF CInv, CellsWritten, Cell
  <2>3. ASSUME NEW l, NEW t, NEW it, InShape(l, t, it),
               Before([it |-> it, l |-> l, t |-> t], pos)
        PROVE  Written(l, t, it)'
    <3>1. ~(it = pos.it /\ l = pos.l /\ t = pos.t)
      <4>1. Indexed /\ ret # 0
        BY <1>2 DEF CInv
      <4> QED
        BY <2>3, <4>1, BeforeIsOther
    <3>2. table'[Address(l, t, it)] = table[Address(l, t, it)]
      BY <1>2, <1>4, <2>3, <3>1, OtherCells
    <3>3. Written(l, t, it)
      BY <1>2, <2>3 DEF CInv, CellsWritten
    <3> QED
      BY <3>2, <3>3 DEF Written
  <2> QED
    BY <1>4, <2>2, <2>3 DEF CInv, CellsWritten
<1>6. ASSUME NEW l, NEW t, NEW it, it = pos.it, l = pos.l, t = pos.t
      PROVE  Written(l, t, it)'
  <2>1. table'[Address(l, t, it)] = new /\ new.thread_count = ThreadCountSeq[t + 1]
    BY <1>4, <1>5, <1>6 DEF Cell, Threads
  <2> QED
    BY <1>4, <2>1 DEF Written
<1>7. Indexed'
  <2>1. /\ Following \in [it : Nat, l : Nat, t : Nat]
        /\ Following.it # Iterations => InShape(Following.l, Following.t, Following.it)
    BY <1>2, FollowingSteps DEF CInv
  <2> QED
    BY <1>1, <2>1 DEF Indexed
<1>8. \A l, t, it : InShape(l, t, it) /\ Before([it |-> it, l |-> l, t |-> t], pos')
                     => Written(l, t, it)'
  <2> SUFFICES ASSUME NEW l, NEW t, NEW it, InShape(l, t, it),
                      Before([it |-> it, l |-> l, t |-> t], Following)
               PROVE  Written(l, t, it)'
    BY <1>1
  <2>1. \/ Before([it |-> it, l |-> l, t |-> t], pos)
        \/ it = pos.it /\ l = pos.l /\ t = pos.t
    <3>1. \A k, u, j :
            InShape(k, u, j) /\ Before([it |-> j, l |-> k, t |-> u], Following)
              => \/ Before([it |-> j, l |-> k, t |-> u], pos)
                 \/ j = pos.it /\ k = pos.l /\ u = pos.t
      BY <1>2, FollowingSteps DEF CInv
    <3> QED
      BY <3>1
  <2>2. CASE Before([it |-> it, l |-> l, t |-> t], pos)
    BY <1>5, <2>2
  <2>3. CASE it = pos.it /\ l = pos.l /\ t = pos.t
    BY <1>6, <2>3
  <2> QED
    BY <2>1, <2>2, <2>3
<1>9. CellsWritten'
  BY <1>1, <1>5, <1>8 DEF CellsWritten
<1> QED
  BY <1>1, <1>7, <1>9 DEF CInv, Doing

LEMMA CreateFailsKeeps == CInv /\ CreateFails => CInv'
<1> SUFFICES ASSUME CInv, CreateFails PROVE CInv'
  OBVIOUS
<1>1. /\ mpc = "create" /\ mpc' = "failed" /\ ret' = 1 /\ pos' = pos
      /\ DOMAIN table' = Addresses
  BY DEF CreateFails, H!CreateFails
<1>2. ret = -1
  BY <1>1 DEF CInv, Doing
<1>3. Doing' /\ Indexed'
  BY <1>1, <1>2 DEF CInv, Doing, Indexed
<1>4. CellsWritten'
  BY <1>1 DEF CellsWritten
<1> QED
  BY <1>3, <1>4 DEF CInv

\* The steps between the entry of a call and its report leave the cells and
\* the loops alone.
Between ==
  \/ CreateSucceeds \/ Spawn \/ RunInline \/ MainWait \/ Terminate \/ Destroy
  \/ \E w \in Workers : WorkerStep(w)

LEMMA BetweenSteps ==
  ASSUME Between \/ UNCHANGED vars
  PROVE  /\ UNCHANGED suite
         /\ mpc' = mpc \/ {mpc, mpc'} \cap {"idle", "failed"} = {}
<1>1. CASE CreateSucceeds
  BY <1>1 DEF CreateSucceeds, H!CreateSucceeds
<1>2. CASE Spawn
  BY <1>2 DEF Spawn, H!Spawn, Prepared
<1>3. CASE RunInline
  BY <1>3 DEF RunInline, H!RunInline, Prepared
<1>4. CASE MainWait
  BY <1>4 DEF MainWait, H!SeeAllInitialized, H!Release, H!Join, H!InlineDone
<1>5. CASE Terminate
  BY <1>5 DEF Terminate, H!Terminate
<1>6. CASE Destroy
  BY <1>6 DEF Destroy, H!Destroy
<1>7. ASSUME NEW w \in Workers, WorkerStep(w)
      PROVE  UNCHANGED suite /\ mpc' = mpc
  <2>1. CASE WorkerWait(w)
    BY <2>1 DEF WorkerWait, H!PrepareThread, H!Arrive, H!SeeRelease
  <2>2. CASE StartLogging(w)
    BY <2>2 DEF StartLogging, H!StartLogging
  <2>3. CASE LogThroughput(w)
    BY <2>3 DEF LogThroughput, Entry, harness
  <2>4. CASE StopThroughput(w)
    BY <2>4 DEF StopThroughput, H!StopLogging
  <2>5. CASE LogLatency(w)
    BY <2>5 DEF LogLatency, Entry, harness
  <2>6. CASE StopLatency(w)
    BY <2>6 DEF StopLatency, H!StopLogging
  <2> QED
    BY <1>7, <2>1, <2>2, <2>3, <2>4, <2>5, <2>6 DEF WorkerStep
<1>8. CASE UNCHANGED vars
  BY <1>8 DEF vars, harness
<1> QED
  BY <1>1, <1>2, <1>3, <1>4, <1>5, <1>6, <1>7, <1>8 DEF Between

LEMMA BetweenKeeps == CInv /\ (Between \/ UNCHANGED vars) => CInv'
<1> SUFFICES ASSUME CInv, Between \/ UNCHANGED vars PROVE CInv'
  OBVIOUS
<1>1. /\ UNCHANGED <<phase, pos, table, ret>>
      /\ mpc' = mpc \/ {mpc, mpc'} \cap {"idle", "failed"} = {}
  BY BetweenSteps DEF suite
<1>2. Doing' /\ Indexed'
  BY <1>1 DEF CInv, Doing, Indexed
<1>3. Cell' = Cell /\ Threads' = Threads
  BY <1>1 DEF Cell, Threads
<1>4. \A l, t, it : Written(l, t, it)' <=> Written(l, t, it)
  BY <1>1 DEF Written
<1>5. mpc' # "idle" <=> mpc # "idle"
  BY <1>1
<1>6. CellsWritten
  BY DEF CInv
<1>7. CellsWritten'
  BY <1>1, <1>3, <1>4, <1>5, <1>6 DEF CellsWritten
<1> QED
  BY <1>2, <1>7 DEF CInv

LEMMA NextCInv == CInv /\ [Next]_vars => CInv'
<1>1. [Next]_vars =>
        \/ BeginThroughput \/ BeginLatency \/ CreateFails
        \/ ReportThroughput \/ ReportLatency
        \/ Between \/ UNCHANGED vars
  BY DEF Next, MainStep, Between
<1> QED
  BY <1>1, BeginKeeps, CreateFailsKeeps, ReportThroughputKeeps, ReportLatencyKeeps,
     BetweenKeeps

\* The cells before the loop indices hold the results of their tests, and the
\* one at them what the test in progress has written, for every shape.
THEOREM CellsInvariance == Spec => []CInv
  BY InitCInv, NextCInv, PTL DEF Spec

\* For every shape of the results: when run_tests succeeds each cell holds the
\* result of the test its place stands for.
THEOREM CellsReported == Spec => []EveryCellReported
<1>1. CInv => EveryCellReported
  <2> SUFFICES ASSUME CInv, ret = 0,
                      NEW l \in 0..LoggerCount - 1, NEW t \in 0..ThreadCountIdxs - 1,
                      NEW it \in 0..Iterations - 1
               PROVE  Written(l, t, it)
    BY DEF EveryCellReported, Written
  <2>1. InShape(l, t, it)
    BY DEF InShape
  <2>2. Addresses # {}
    BY <2>1, AddressInRange
  <2>3. pos.it = Iterations /\ it < Iterations
    BY <2>2, ShapeAssumption DEF CInv, Indexed
  <2>4. Before([it |-> it, l |-> l, t |-> t], pos)
    BY <2>3 DEF Before
  <2> QED
    BY <2>1, <2>4 DEF CInv, CellsWritten
<1> QED
  BY <1>1, CellsInvariance, PTL

\* And no test ever touches the cell of a test that is over.
THEOREM CellsKept == Spec => CompletedCellsKept
<1> DEFINE Kept ==
      \A l \in 0..LoggerCount - 1, t \in 0..ThreadCountIdxs - 1, it \in 0..Iterations - 1 :
        Before([it |-> it, l |-> l, t |-> t], pos)
          => ret' = 1 \/ table'[Address(l, t, it)] = table[Address(l, t, it)]
<1>1. CInv /\ [Next]_vars => Kept
  <2> SUFFICES ASSUME CInv, [Next]_vars,
                      NEW l \in 0..LoggerCount - 1, NEW t \in 0..ThreadCountIdxs - 1,
                      NEW it \in 0..Iterations - 1,
                      Before([it |-> it, l |-> l, t |-> t], pos), ret' # 1
               PROVE  table'[Address(l, t, it)] = table[Address(l, t, it)]
    OBVIOUS
  <2>1. InShape(l, t, it)
    BY DEF InShape
  <2>2. ASSUME NEW new, ret = -1, table' = [table EXCEPT ![Cell] = new]
        PROVE  table'[Address(l, t, it)] = table[Address(l, t, it)]
    <3>1. ~(it = pos.it /\ l = pos.l /\ t = pos.t)
      <4>1. Indexed /\ ret # 0
        BY <2>2 DEF CInv
      <4> QED
        BY <2>1, <4>1, BeforeIsOther
    <3> QED
      BY <2>1, <2>2, <3>1, OtherCells
  <2>3. mpc = "report" => ret = -1
    BY DEF CInv, Doing
  <2>4. CASE BeginThroughput
    BY <2>2, <2>4 DEF BeginThroughput
  <2>5. CASE BeginLatency
    BY <2>2, <2>5 DEF BeginLatency
  <2>6. CASE CreateFails
    BY <2>6 DEF CreateFails
  <2>7. CASE ReportThroughput
    BY <2>2, <2>3, <2>7 DEF ReportThroughput, H!Return
  <2>8. CASE ReportLatency
    BY <2>2, <2>3, <2>8 DEF ReportLatency, H!Return
  <2>9. CASE Between \/ UNCHANGED vars
    BY <2>9, BetweenSteps DEF suite
  <2> QED
    BY <2>4, <2>5, <2>6, <2>7, <2>8, <2>9 DEF Next, MainStep, Between
<1>2. CInv /\ [Next]_vars => [Kept]_vars
  BY <1>1
<1> QED
  BY <1>2, CellsInvariance, PTL DEF Spec, CompletedCellsKept

-----------------------------------------------------------------------------
(* The threads.                                                            *)

\* Every step is one of RunHarness, or none of its business.
LEMMA StepsOfHarness == CInv /\ [Next]_vars => [H!Next]_(H!vars)
<1> SUFFICES ASSUME CInv, [Next]_vars PROVE H!Next \/ UNCHANGED harness
  BY DEF H!vars, H!affinity, harness
<1>1. CASE BeginThroughput \/ BeginLatency
  <2>1. H!Call(Threads) /\ ret = -1
    BY <1>1 DEF BeginThroughput, BeginLatency, Enter
  <2>2. pos.t \in 0..ThreadCountIdxs - 1
    BY <2>1 DEF CInv, Indexed, InShape
  <2>3. Threads \in {ThreadCountSeq[t] : t \in 1..ThreadCountIdxs}
    BY <2>2, ShapeAssumption DEF Threads
  <2> QED
    BY <2>1, <2>3 DEF H!Next
<1>2. CASE CreateSucceeds
  BY <1>2 DEF CreateSucceeds, H!Next, H!MainStep, H!Create
<1>3. CASE CreateFails
  BY <1>3 DEF CreateFails, H!Next, H!MainStep, H!Create
<1>4. CASE Spawn
  BY <1>4 DEF Spawn, H!Next, H!MainStep
<1>5. CASE RunInline
  BY <1>5 DEF RunInline, H!Next, H!MainStep
<1>6. CASE MainWait
  BY <1>6 DEF MainWait, H!Next, H!MainStep
<1>7. CASE Terminate
  BY <1>7 DEF Terminate, H!Next, H!MainStep
<1>8. CASE Destroy
  BY <1>8 DEF Destroy, H!Next, H!MainStep
<1>9. CASE ReportThroughput \/ ReportLatency
  BY <1>9 DEF ReportThroughput, ReportLatency, H!Next, H!MainStep
<1>10. ASSUME NEW w \in Workers, WorkerStep(w) PROVE H!Next \/ UNCHANGED harness
  <2>1. CASE WorkerWait(w)
    BY <2>1 DEF WorkerWait, H!Next, H!WorkerStep, Workers
  <2>2. CASE StartLogging(w)
    BY <2>2 DEF StartLogging, H!Next, H!WorkerStep, Workers
  <2>3. CASE LogThroughput(w) \/ LogLatency(w)
    BY <2>3 DEF LogThroughput, LogLatency, Entry
  <2>4. CASE StopThroughput(w) \/ StopLatency(w)
    BY <2>4 DEF StopThroughput, StopLatency, H!Next, H!WorkerStep, Workers
  <2> QED
    BY <1>10, <2>1, <2>2, <2>3, <2>4 DEF WorkerStep
<1>11. CASE UNCHANGED vars
  BY <1>11 DEF vars
<1> QED
  BY <1>1, <1>2, <1>3, <1>4, <1>5, <1>6, <1>7, <1>8, <1>9, <1>10, <1>11 DEF Next, MainStep

\* The detailed tests implement the thread skeleton, so that what is proved of
\* RunHarness holds of them.
THEOREM ImplementsHarness == Spec => RunsHarness
<1>1. Init => H!Init
  BY DEF Init
<1> QED
  BY <1>1, StepsOfHarness, CellsInvariance, PTL DEF Spec, RunsHarness, H!Spec

-----------------------------------------------------------------------------
(* The shares.                                                             *)

\* prepare takes the share as an int, from a size_t: larger ones are cut.
MsgsFit == Msgs < U32Mod \div 2

Stages == {"none", "prepare", "arrive", "spin", "go", "logging", "done"}

\* The threads of a test are all there, and all done, when the test reports.
Frame ==
  /\ wpc \in [Workers -> Stages]
  /\ tc \in Nat /\ next \in Nat
  /\ mpc # "idle" => tc \in 1..MaxThreads
  /\ mpc \in {"create", "inline", "failed"} => \A w \in Workers : wpc[w] = "none"
  /\ mpc = "create" => next = 0
  /\ mpc = "spawn" => next < tc /\ \A w \in Workers : wpc[w] # "none" => w < next
  /\ mpc \in {"await", "release", "join"}
       => \A w \in Workers : wpc[w] # "none" => w < tc
  /\ mpc = "join" => \A w \in Workers : w < next => wpc[w] \in {"none", "done"}
  /\ mpc = "running" => wpc[0] # "none" /\ \A w \in Workers : w # 0 => wpc[w] = "none"
  /\ mpc \in {"inline", "running"} => tc = 1
  /\ mpc = "spawn" => \A w \in Workers : w < next => wpc[w] # "none"
  /\ mpc \in {"await", "release", "join", "terminate", "destroy", "report"}
       => \A w \in Workers : w < tc => wpc[w] # "none"
  /\ mpc \in {"terminate", "destroy", "report", "idle"}
       => \A w \in Workers : wpc[w] \in {"none", "done"}

Typed ==
  /\ DOMAIN meas = Workers /\ DOMAIN iter = Workers
  /\ backend \in [Workers -> [accepted : Nat, refused : Nat]]
  /\ phase \in {"throughput", "latency"}

\* What a producer has left, and what it has logged, are its share together.
Working(w) ==
  /\ wpc[w] = "none" => Attempts(w) = 0
  /\ wpc[w] \in {"prepare", "arrive", "spin", "go"}
       => Attempts(w) = 0 /\ meas[w].expected = Share
  /\ wpc[w] = "logging"
       => /\ iter[w].remaining \in Nat /\ iter[w].remaining + Attempts(w) = Share
          /\ phase = "throughput" => DOMAIN iter[w] = {"remaining"}
          /\ phase = "latency"
               => /\ DOMAIN iter[w] = {"remaining", "expected", "prev"}
                  /\ iter[w].expected = Share
  /\ wpc[w] = "done" => Attempts(w) = Share

SInv == Frame /\ Typed /\ \A w \in Workers : Working(w)

\* The widths, as far as they matter here.
LEMMA Widths ==
  /\ U32Mod \in Nat /\ U64Mod \in Nat /\ U32Mod <= U64Mod /\ U32Mod \div 2 <= U32Mod
  /\ MaxThreads \in Nat /\ Msgs \in Nat /\ Msgs >= MaxThreads
<1>1. U32Mod \in Nat \ {0} /\ U64Mod \in Nat \ {0} /\ U64Mod % U32Mod = 0
  BY WidthAssumption
<1>2. ~(U64Mod < U32Mod)
  <2> SUFFICES ASSUME U64Mod < U32Mod PROVE FALSE
    OBVIOUS
  <2>1. U64Mod % U32Mod = U64Mod
    BY <1>1
  <2> QED
    BY <1>1, <2>1
<1>3. U32Mod \div 2 <= U32Mod
  BY <1>1
<1> QED
  BY <1>1, <1>2, <1>3, SuiteAssumption

\* A share is at least one message and survives every conversion.
LEMMA ShareFits ==
  ASSUME MsgsFit, tc \in 1..MaxThreads
  PROVE  /\ Share \in Nat /\ 0 < Share
         /\ ToInt(Share) = Share /\ ToU64(Share) = Share
         /\ \A n \in Nat : n <= Share => ToU64(n) = n
<1>1. Share \in Nat /\ 0 < Share /\ Share <= Msgs
  <2> DEFINE n == Msgs \div tc
  <2>1. Msgs \in Nat /\ tc \in Nat \ {0} /\ tc <= Msgs
    BY Widths
  <2>2. n \in Nat /\ n * tc <= Msgs /\ Msgs < n * tc + tc
    BY <2>1
  <2>3. n # 0
    BY <2>1, <2>2
  <2>4. n <= n * tc
    BY <2>1, <2>2
  <2> QED
    BY <2>1, <2>2, <2>3, <2>4 DEF Share
<1>2. Share < U32Mod \div 2 /\ Share < U32Mod /\ Share < U64Mod
  BY <1>1, Widths DEF MsgsFit
<1>3. ToInt(Share) = Share
  <2>1. Share % U32Mod = Share
    BY <1>1, <1>2, Widths
  <2> QED
    BY <1>2, <2>1 DEF ToInt
<1>4. \A n \in Nat : n <= Share => ToU64(n) = n
  BY <1>1, <1>2, Widths DEF ToU64
<1> QED
  BY <1>1, <1>3, <1>4

LEMMA InitSInv == Init => SInv
<1> SUFFICES ASSUME Init PROVE SInv
  OBVIOUS
<1>1. wpc = [w \in Workers |-> "none"] /\ mpc = "idle" /\ tc = 0 /\ next = 0
  BY DEF Init, H!Init, Workers
<1>2. Frame
  BY <1>1 DEF Frame, Stages
<1>3. Typed
  BY DEF Init, Typed, NoEntries
<1>4. ASSUME NEW w \in Workers PROVE Working(w)
  <2>1. wpc[w] = "none" /\ backend[w] = NoEntries
    BY <1>1 DEF Init
  <2> QED
    BY <2>1 DEF Working, Attempts, NoEntries
<1> QED
  BY <1>2, <1>3, <1>4 DEF SInv

\* Where the threads are: the steps of RunHarness, without its counter.
LEMMA NextFrame == Frame /\ CInv /\ [Next]_vars => Frame'
<1> SUFFICES ASSUME Frame, CInv, [Next]_vars PROVE Frame'
  OBVIOUS
<1>1. CASE \E n \in {ThreadCountSeq[t] : t \in 1..ThreadCountIdxs} : H!Call(n)
  <2>1. PICK n \in {ThreadCountSeq[t] : t \in 1..ThreadCountIdxs} : H!Call(n)
    BY <1>1
  <2>2. n \in 1..MaxThreads
    BY SuiteAssumption
  <2>3. /\ mpc' = "create" /\ tc' = n /\ next' = 0
        /\ wpc' = [w \in Workers |-> "none"]
    BY <2>1 DEF H!Call, Workers
  <2> QED
    BY <2>2, <2>3, Widths DEF Frame, Stages
<1>2. CASE H!CreateSucceeds
  <2>1. /\ mpc = "create" /\ mpc' = IF tc > 1 THEN "spawn" ELSE "inline"
        /\ UNCHANGED <<tc, next, wpc>>
    BY <1>2 DEF H!CreateSucceeds
  <2>2. tc \in 1..MaxThreads /\ next = 0 /\ \A w \in Workers : wpc[w] = "none" /\ ~(w < 0)
    BY <2>1, Widths DEF Frame, Workers, H!Workers
  <2>3. /\ mpc' \in {"spawn", "inline"} /\ (mpc' = "spawn" => next < tc)
        /\ mpc' = "inline" => tc = 1
    BY <2>1, <2>2, Widths
  <2> QED
    BY <2>1, <2>2, <2>3 DEF Frame
<1>3. CASE H!CreateFails
  BY <1>3 DEF H!CreateFails, Frame
<1>4. CASE H!Spawn
  <2>1. /\ wpc' = [wpc EXCEPT ![next] = "prepare"] /\ tc' = tc /\ next' = next + 1
        /\ mpc = "spawn" /\ mpc' = IF next + 1 = tc THEN "await" ELSE "spawn"
    BY <1>4 DEF H!Spawn
  <2>2. wpc' \in [Workers -> Stages]
    BY <2>1 DEF Frame, Stages
  <2>3. tc \in 1..MaxThreads /\ next \in Nat /\ next < tc
    BY <2>1 DEF Frame
  <2>4. \A w \in Workers : w \in Nat
    BY Widths DEF Workers, H!Workers
  <2>5. \A w \in Workers : wpc'[w] # "none" => w < next + 1
    BY <2>1, <2>3, <2>4 DEF Frame
  <2>6. \A w \in Workers : w < next + 1 => wpc'[w] # "none"
    BY <2>1, <2>3, <2>4 DEF Frame
  <2>7. /\ mpc' \in {"await", "spawn"} /\ (mpc' = "spawn" => next + 1 < tc)
        /\ mpc' = "await" => next + 1 = tc
    BY <2>1, <2>3, Widths
  <2> QED
    BY <2>1, <2>2, <2>3, <2>5, <2>6, <2>7 DEF Frame
<1>5. CASE H!SeeAllInitialized
  BY <1>5 DEF H!SeeAllInitialized, Frame
<1>6. CASE H!Release
  <2>1. \A w \in Workers : ~(w < 0)
    BY Widths DEF Workers, H!Workers
  <2> QED
    BY <1>6, <2>1 DEF H!Release, Frame
<1>7. CASE H!Join
  <2>1. /\ mpc = "join" /\ wpc[next] = "done" /\ next' = next + 1
        /\ mpc' = IF next + 1 = tc THEN "terminate" ELSE "join"
        /\ wpc' = wpc /\ tc' = tc
    BY <1>7 DEF H!Join
  <2>2. \A w \in Workers : w \in Nat
    BY Widths DEF Workers, H!Workers
  <2>3. next \in Nat /\ tc \in 1..MaxThreads
    BY <2>1 DEF Frame
  <2>4. \A w \in Workers : w < next + 1 => wpc[w] \in {"none", "done"}
    BY <2>1, <2>2, <2>3 DEF Frame
  <2>5. mpc' = "terminate" => \A w \in Workers : wpc[w] \in {"none", "done"}
    BY <2>1, <2>4 DEF Frame
  <2> QED
    BY <2>1, <2>3, <2>4, <2>5 DEF Frame
<1>8. CASE H!RunInline
  <2>1. /\ mpc = "inline" /\ mpc' = "running" /\ tc' = tc /\ next' = next
        /\ wpc' = [wpc EXCEPT ![0] = "prepare"]
    BY <1>8 DEF H!RunInline
  <2>2. wpc' \in [Workers -> Stages]
    BY <2>1 DEF Frame, Stages
  <2>3. \A w \in Workers : w # 0 => wpc'[w] = "none"
    BY <2>1 DEF Frame
  <2>4. wpc'[0] = "prepare" /\ tc = 1
    <3>1. 0 \in Workers
      BY SuiteAssumption DEF Workers, H!Workers
    <3> QED
      BY <2>1, <3>1 DEF Frame
  <2> QED
    BY <2>1, <2>2, <2>3, <2>4 DEF Frame
<1>9. CASE H!InlineDone
  <2>1. /\ mpc = "running" /\ wpc[0] = "done" /\ mpc' = "terminate"
        /\ UNCHANGED <<tc, next, wpc>>
    BY <1>9 DEF H!InlineDone
  <2>2. \A w \in Workers : w < 1 => w = 0
    BY Widths DEF Workers, H!Workers
  <2>3. tc = 1
    BY <2>1 DEF Frame
  <2> QED
    BY <2>1, <2>2, <2>3 DEF Frame
<1>10. CASE H!Terminate
  BY <1>10 DEF H!Terminate, Frame
<1>11. CASE H!Destroy
  BY <1>11 DEF H!Destroy, Frame
<1>12. CASE H!Return
  BY <1>12 DEF H!Return, Frame
<1>13. ASSUME NEW w \in Workers, H!WorkerStep(w) PROVE Frame'
  <2>1. /\ \E stage \in Stages \ {"none"} : wpc' = [wpc EXCEPT ![w] = stage]
        /\ wpc[w] \in Stages \ {"none", "done"}
        /\ UNCHANGED <<tc, mpc, next>>
    BY <1>13 DEF H!WorkerStep, H!PrepareThread, H!Arrive, H!SeeRelease, H!StartLogging,
                 H!StopLogging, Stages
  <2>2. wpc' \in [Workers -> Stages]
    BY <2>1 DEF Frame
  <2>3. /\ wpc[w] \notin {"none", "done"}
        /\ \A v \in Workers : v # w => wpc'[v] = wpc[v]
    BY <2>1 DEF Frame, Stages
  <2> QED
    BY <2>1, <2>2, <2>3 DEF Frame
<1>14. CASE UNCHANGED harness
  BY <1>14 DEF harness, Frame
<1>15. H!Next \/ UNCHANGED harness
  BY StepsOfHarness DEF H!vars, H!affinity, harness
<1>16. H!Next =>
         \/ \E n \in {ThreadCountSeq[t] : t \in 1..ThreadCountIdxs} : H!Call(n)
         \/ H!CreateSucceeds \/ H!CreateFails \/ H!Spawn \/ H!SeeAllInitialized
         \/ H!Release \/ H!Join \/ H!RunInline \/ H!InlineDone
         \/ H!Terminate \/ H!Destroy \/ H!Return
         \/ \E w \in Workers : H!WorkerStep(w)
  BY DEF H!Next, H!MainStep, H!Create, Workers
<1> QED
  BY <1>1, <1>2, <1>3, <1>4, <1>5, <1>6, <1>7, <1>8, <1>9, <1>10, <1>11, <1>12, <1>13,
     <1>14, <1>15, <1>16

\* A producer that a step does not concern keeps what it has; where a stage is
\* left for one of the same kind, too.
Waits == {"prepare", "arrive", "spin", "go"}

Kept(w) ==
  /\ UNCHANGED <<meas[w], iter[w], backend[w]>>
  /\ tc' = tc
  /\ wpc'[w] = wpc[w] \/ {wpc[w], wpc'[w]} \subseteq Waits
  /\ wpc[w] = "logging" => phase' = phase

LEMMA KeptWorks ==
  ASSUME NEW w \in Workers, Working(w), Kept(w)
  PROVE  Working(w)'
<1>1. Attempts(w)' = Attempts(w) /\ Share' = Share
  BY DEF Kept, Attempts, Share
<1> QED
  BY <1>1 DEF Working, Kept, Waits

\* The entry of a test.
LEMMA EnterWorks ==
  ASSUME SInv, CInv, BeginThroughput \/ BeginLatency
  PROVE  Typed' /\ \A w \in Workers : Working(w)'
<1>1. /\ wpc' = [w \in Workers |-> "none"] /\ phase' = phase
      /\ backend' = [w \in Workers |-> NoEntries]
      /\ iter' = [w \in Workers |-> NoIter]
      /\ DOMAIN meas' = Workers
  BY DEF BeginThroughput, BeginLatency, Enter, H!Call, Workers
<1>2. Typed'
  BY <1>1 DEF SInv, Typed, NoEntries
<1>3. ASSUME NEW w \in Workers PROVE Working(w)'
  <2>1. wpc'[w] = "none" /\ backend'[w] = NoEntries
    BY <1>1
  <2> QED
    BY <2>1 DEF Working, Attempts, NoEntries
<1> QED
  BY <1>2, <1>3

\* A producer is started.
LEMMA StartWorks ==
  ASSUME SInv, MsgsFit, NEW p \in Workers,
         mpc # "idle", tc' = tc, wpc[p] = "none",
         wpc' = [wpc EXCEPT ![p] = "prepare"], Prepared(p)
  PROVE  Typed' /\ \A w \in Workers : Working(w)'
<1>1. /\ UNCHANGED <<iter, backend, phase>>
      /\ meas' = [meas EXCEPT ![p] = IF phase = "throughput"
                                     THEN TmPrepare(meas[p], Share)
                                     ELSE LmPrepare(meas[p], Share)]
      /\ DOMAIN meas = Workers
  BY DEF Prepared, suite, SInv, Typed
<1>2. Typed'
  BY <1>1 DEF SInv, Typed
<1>3. meas'[p].expected = Share
  <2>0. tc \in 1..MaxThreads
    BY DEF SInv, Frame
  <2>1. Share \in Nat /\ ToInt(Share) = Share
    BY <2>0, ShareFits
  <2>2. TmPrepare(meas[p], Share).expected = Share
    BY <2>1 DEF TmPrepare, TmReset
  <2>3. LmPrepare(meas[p], Share).expected = Share
    BY DEF LmPrepare, LmReset
  <2> QED
    BY <1>1, <2>2, <2>3
<1>4. Working(p)'
  <2>1. wpc'[p] = "prepare"
    BY DEF SInv, Frame
  <2>2. Attempts(p) = 0
    BY DEF SInv, Working
  <2>3. Attempts(p)' = Attempts(p) /\ Share' = Share
    BY <1>1 DEF Attempts, Share
  <2> QED
    BY <1>3, <2>1, <2>2, <2>3 DEF Working
<1>5. ASSUME NEW w \in Workers, w # p PROVE Working(w)'
  <2>1. Kept(w)
    BY <1>1, <1>5 DEF Kept, SInv, Frame
  <2> QED
    BY <2>1, KeptWorks DEF SInv
<1> QED
  BY <1>2, <1>4, <1>5

\* A producer begins to log.
LEMMA BeginWorks ==
  ASSUME SInv, MsgsFit, NEW p \in Workers, StartLogging(p)
  PROVE  Typed' /\ \A w \in Workers : Working(w)'
<1>1. /\ wpc[p] = "go" /\ wpc' = [wpc EXCEPT ![p] = "logging"] /\ tc' = tc /\ mpc' = mpc
      /\ UNCHANGED <<backend, phase>>
      /\ iter' = [iter EXCEPT ![p] = IF phase = "throughput"
                                     THEN TmBegin(meas[p]) ELSE LmBegin(meas[p])]
      /\ DOMAIN meas' = Workers /\ \A w \in Workers : w # p => meas'[w] = meas[w]
  BY DEF StartLogging, H!StartLogging, suite, SInv, Typed
<1>2. Typed'
  BY <1>1 DEF SInv, Typed
<1>3. mpc # "idle"
  BY <1>1 DEF SInv, Frame
<1>4. Share \in Nat /\ ToU64(Share) = Share
  BY <1>3, ShareFits DEF SInv, Frame
<1>5. meas[p].expected = Share /\ Attempts(p) = 0
  BY <1>1 DEF SInv, Working
<1>6. Working(p)'
  <2>1. wpc'[p] = "logging" /\ Share' = Share /\ Attempts(p)' = 0
    BY <1>1, <1>5 DEF SInv, Frame, Share, Attempts
  <2>2. CASE phase = "throughput"
    <3>1. iter'[p] = [remaining |-> Share]
      BY <1>1, <1>4, <1>5, <2>2 DEF TmBegin, SInv, Typed
    <3> QED
      BY <1>1, <1>4, <2>1, <2>2, <3>1 DEF Working
  <2>3. CASE phase = "latency"
    <3>1. iter'[p] = [remaining |-> Share, expected |-> Share, prev |-> 0]
      BY <1>1, <1>5, <2>3 DEF LmBegin, SInv, Typed
    <3> QED
      BY <1>1, <1>4, <2>1, <2>3, <3>1 DEF Working
  <2> QED
    BY <2>2, <2>3 DEF SInv, Typed
<1>7. ASSUME NEW w \in Workers, w # p PROVE Working(w)'
  <2>1. Kept(w)
    BY <1>1, <1>7 DEF Kept, SInv, Typed, Frame
  <2> QED
    BY <2>1, KeptWorks DEF SInv
<1> QED
  BY <1>2, <1>6, <1>7

\* An entry: the one side gains what the other loses.
LEMMA LogWorks ==
  ASSUME SInv, MsgsFit, NEW p \in Workers, LogThroughput(p) \/ LogLatency(p)
  PROVE  Typed' /\ \A w \in Workers : Working(w)'
<1>1. UNCHANGED <<tc, mpc, wpc, phase>> /\ wpc[p] = "logging"
  BY DEF LogThroughput, LogLatency, Entry, harness, suite
<1>2. /\ backend' \in [Workers -> [accepted : Nat, refused : Nat]]
      /\ \A w \in Workers : w # p => backend'[w] = backend[w]
      /\ Attempts(p)' = Attempts(p) + 1 /\ Attempts(p) \in Nat
  <2>1. PICK accepted \in Outcomes :
          backend' = [backend EXCEPT ![p][Answer(accepted)] = @ + 1]
    BY DEF LogThroughput, LogLatency, Entry
  <2>2. backend \in [Workers -> [accepted : Nat, refused : Nat]]
    BY DEF SInv, Typed
  <2>3. CASE Answer(accepted) = "accepted"
    BY <2>1, <2>2, <2>3 DEF Attempts
  <2>4. CASE Answer(accepted) = "refused"
    BY <2>1, <2>2, <2>4 DEF Attempts
  <2> QED
    BY <2>3, <2>4 DEF Answer
<1>3. /\ iter[p].remaining \in Nat /\ iter[p].remaining + Attempts(p) = Share
      /\ Share \in Nat /\ 0 < Share
      /\ \A n \in Nat : n <= Share => ToU64(n) = n
  <2>1. mpc # "idle"
    BY <1>1 DEF SInv, Frame
  <2> QED
    BY <1>1, <2>1, ShareFits DEF SInv, Working, Frame
<1>4. /\ DOMAIN iter' = Workers /\ DOMAIN meas' = Workers
      /\ \A w \in Workers : w # p => iter'[w] = iter[w] /\ meas'[w] = meas[w]
  BY DEF LogThroughput, LogLatency, SInv, Typed
<1>5. Typed'
  BY <1>1, <1>2, <1>4 DEF SInv, Typed
<1>6. Share' = Share
  BY <1>1 DEF Share
<1>7. Working(p)'
  <2>1. CASE LogThroughput(p)
    <3>1. /\ phase = "throughput" /\ iter[p].remaining > 0
          /\ iter' = [iter EXCEPT ![p] = TmNext(iter[p])]
      BY <2>1 DEF LogThroughput, TmMore
    <3>2. DOMAIN iter[p] = {"remaining"}
      BY <1>1, <3>1 DEF SInv, Working
    <3>3. /\ iter[p].remaining - 1 \in Nat
          /\ ToU64(iter[p].remaining - 1) = iter[p].remaining - 1
      BY <1>2, <1>3, <3>1
    <3>4. DOMAIN iter'[p] = {"remaining"} /\ iter'[p].remaining = iter[p].remaining - 1
      BY <3>1, <3>2, <3>3 DEF TmNext, SInv, Typed
    <3> QED
      BY <1>1, <1>2, <1>3, <1>6, <3>1, <3>3, <3>4 DEF Working
  <2>2. CASE LogLatency(p)
    <3>1. PICK r \in Comparisons(p) :
            /\ phase = "latency" /\ Compared(p, r).more
            /\ iter' = [iter EXCEPT ![p] = LmNext(Compared(p, r).iter)]
      BY <2>2 DEF LogLatency
    <3>2. /\ DOMAIN iter[p] = {"remaining", "expected", "prev"}
          /\ iter[p].expected = Share
      BY <1>1, <3>1 DEF SInv, Working
    <3>3. iter[p].remaining > 0
      <4>1. CASE LmFirst(iter[p])
        BY <1>3, <3>2, <4>1 DEF LmFirst
      <4>2. CASE ~LmFirst(iter[p])
        <5>1. iter[p].remaining # 0
          BY <3>1, <4>2 DEF Compared, LmCompare
        <5> QED
          BY <1>3, <5>1
      <4> QED
        BY <4>1, <4>2
    <3>4. Compared(p, r).iter = [iter[p] EXCEPT !.prev = r[2]]
      BY DEF Compared, LmCompare
    <3>5. /\ iter[p].remaining - 1 \in Nat
          /\ ToU64(iter[p].remaining - 1) = iter[p].remaining - 1
      BY <1>2, <1>3, <3>3
    <3>6. /\ DOMAIN iter'[p] = {"remaining", "expected", "prev"}
          /\ iter'[p].remaining = iter[p].remaining - 1 /\ iter'[p].expected = Share
      BY <3>1, <3>2, <3>4, <3>5 DEF LmNext, SInv, Typed
    <3> QED
      BY <1>1, <1>2, <1>3, <1>6, <3>1, <3>5, <3>6 DEF Working
  <2> QED
    BY <2>1, <2>2
<1>8. ASSUME NEW w \in Workers, w # p PROVE Working(w)'
  <2>1. Kept(w)
    BY <1>1, <1>2, <1>4, <1>8 DEF Kept
  <2> QED
    BY <2>1, KeptWorks DEF SInv
<1> QED
  BY <1>5, <1>7, <1>8

\* A producer that has nothing left has logged its share.
LEMMA StopWorks ==
  ASSUME SInv, MsgsFit, NEW p \in Workers, StopThroughput(p) \/ StopLatency(p)
  PROVE  Typed' /\ \A w \in Workers : Working(w)'
<1>1. /\ wpc[p] = "logging" /\ wpc' = [wpc EXCEPT ![p] = "done"] /\ tc' = tc /\ mpc' = mpc
      /\ UNCHANGED <<backend, phase>>
      /\ DOMAIN iter' = Workers /\ DOMAIN meas' = Workers
      /\ \A w \in Workers : w # p => iter'[w] = iter[w] /\ meas'[w] = meas[w]
  BY DEF StopThroughput, StopLatency, H!StopLogging, suite, SInv, Typed
<1>2. Typed'
  BY <1>1 DEF SInv, Typed
<1>3. /\ iter[p].remaining \in Nat /\ iter[p].remaining + Attempts(p) = Share
      /\ phase = "latency" => iter[p].expected = Share
      /\ Attempts(p) \in Nat
  BY <1>1 DEF SInv, Working, Typed, Attempts
<1>4. iter[p].remaining = 0
  <2>1. CASE StopThroughput(p)
    BY <1>3, <2>1 DEF StopThroughput, TmMore
  <2>2. CASE StopLatency(p)
    <3>1. PICK r \in Comparisons(p) : ~Compared(p, r).more
      BY <2>2 DEF StopLatency
    <3> QED
      BY <3>1 DEF Compared, LmCompare
  <2> QED
    BY <2>1, <2>2
<1>5. Working(p)'
  <2>1. Attempts(p)' = Attempts(p) /\ Share' = Share /\ wpc'[p] = "done"
    BY <1>1 DEF Attempts, Share, SInv, Frame
  <2> QED
    BY <1>3, <1>4, <2>1 DEF Working
<1>6. ASSUME NEW w \in Workers, w # p PROVE Working(w)'
  <2>1. Kept(w)
    BY <1>1, <1>6 DEF Kept, SInv, Frame
  <2> QED
    BY <2>1, KeptWorks DEF SInv
<1> QED
  BY <1>2, <1>5, <1>6

LEMMA NextSInv == MsgsFit /\ CInv /\ SInv /\ [Next]_vars => SInv'
<1> SUFFICES ASSUME MsgsFit, CInv, SInv, [Next]_vars PROVE SInv'
  OBVIOUS
<1>1. Frame'
  BY NextFrame DEF SInv
<1>2. CASE BeginThroughput \/ BeginLatency
  BY <1>1, <1>2, EnterWorks DEF SInv
<1>3. CASE Spawn
  <2>1. H!Spawn /\ Prepared(next)
    BY <1>3 DEF Spawn
  <2>2. /\ mpc = "spawn" /\ tc' = tc /\ wpc' = [wpc EXCEPT ![next] = "prepare"]
    BY <2>1 DEF H!Spawn
  <2>3. next \in Workers
    BY <2>2, Widths DEF SInv, Frame, Workers, H!Workers
  <2>4. wpc[next] = "none"
    BY <2>2, <2>3 DEF SInv, Frame
  <2> QED
    BY <1>1, <2>1, <2>2, <2>3, <2>4, StartWorks DEF SInv
<1>4. CASE RunInline
  <2>1. H!RunInline /\ Prepared(0)
    BY <1>4 DEF RunInline
  <2>2. /\ mpc = "inline" /\ tc' = tc /\ wpc' = [wpc EXCEPT ![0] = "prepare"]
    BY <2>1 DEF H!RunInline
  <2>3. 0 \in Workers
    BY SuiteAssumption DEF Workers, H!Workers
  <2>4. wpc[0] = "none"
    BY <2>2, <2>3 DEF SInv, Frame
  <2> QED
    BY <1>1, <2>1, <2>2, <2>3, <2>4, StartWorks DEF SInv
<1>5. ASSUME NEW p \in Workers, StartLogging(p) PROVE SInv'
  BY <1>1, <1>5, BeginWorks DEF SInv
<1>6. ASSUME NEW p \in Workers, LogThroughput(p) \/ LogLatency(p) PROVE SInv'
  BY <1>1, <1>6, LogWorks DEF SInv
<1>7. ASSUME NEW p \in Workers, StopThroughput(p) \/ StopLatency(p) PROVE SInv'
  BY <1>1, <1>7, StopWorks DEF SInv
<1>8. /\ UNCHANGED <<tc, wpc, meas, iter, backend>>
      /\ phase' = phase \/ (phase' \in {"throughput", "latency"} /\ mpc = "report")
      => SInv'
  <2> SUFFICES ASSUME UNCHANGED <<tc, wpc, meas, iter, backend>>,
                      phase' = phase \/ (phase' \in {"throughput", "latency"} /\ mpc = "report")
               PROVE  SInv'
    OBVIOUS
  <2>1. Typed'
    BY DEF SInv, Typed
  <2>2. ASSUME NEW w \in Workers PROVE Kept(w)
    BY <2>2 DEF Kept, SInv, Frame
  <2> QED
    BY <1>1, <2>1, <2>2, KeptWorks DEF SInv
<1>9. CASE CreateSucceeds \/ CreateFails \/ MainWait \/ Terminate \/ Destroy
  <2>1. UNCHANGED <<tc, wpc, meas, iter, backend, phase>>
    <3>1. CASE CreateSucceeds
      BY <3>1 DEF CreateSucceeds, H!CreateSucceeds, suite, measuring
    <3>2. CASE CreateFails
      BY <3>2 DEF CreateFails, H!CreateFails, measuring
    <3>3. CASE MainWait
      BY <3>3 DEF MainWait, H!SeeAllInitialized, H!Release, H!Join, H!InlineDone, suite,
                  measuring
    <3>4. CASE Terminate \/ Destroy
      BY <3>4 DEF Terminate, H!Terminate, Destroy, H!Destroy, suite, measuring
    <3> QED
      BY <1>9, <3>1, <3>2, <3>3, <3>4
  <2> QED
    BY <1>8, <2>1
<1>10. CASE ReportThroughput \/ ReportLatency
  <2>1. UNCHANGED <<tc, wpc, meas, iter, backend>>
    BY <1>10 DEF ReportThroughput, ReportLatency, H!Return, measuring
  <2>2. mpc = "report" /\ phase' \in {"throughput", "latency"}
    BY <1>10 DEF ReportThroughput, ReportLatency, H!Return
  <2> QED
    BY <1>8, <2>1, <2>2
<1>11. ASSUME NEW p \in Workers, WorkerWait(p) PROVE SInv'
  <2>1. /\ UNCHANGED <<meas, iter, backend, tc, phase>>
        /\ \E stage \in Waits : wpc' = [wpc EXCEPT ![p] = stage]
        /\ wpc[p] \in Waits
    BY <1>11 DEF WorkerWait, H!PrepareThread, H!Arrive, H!SeeRelease, measuring, suite, Waits
  <2>2. Typed'
    BY <2>1 DEF SInv, Typed
  <2>3. ASSUME NEW w \in Workers PROVE Kept(w)
    BY <2>1 DEF Kept, SInv, Frame
  <2> QED
    BY <1>1, <2>2, <2>3, KeptWorks DEF SInv
<1>12. CASE UNCHANGED vars
  <2>1. UNCHANGED <<tc, wpc, meas, iter, backend, phase>>
    BY <1>12 DEF vars, harness, suite, measuring
  <2> QED
    BY <1>8, <2>1
<1> QED
  BY <1>2, <1>3, <1>4, <1>5, <1>6, <1>7, <1>9, <1>10, <1>11, <1>12
  DEF Next, MainStep, WorkerStep

\* For every thread count and every number of messages that an int holds, a
\* producer that leaves run_logging has made exactly the entries of its share.
THEOREM SharesAreLogged == ASSUME MsgsFit PROVE Spec => []ShareLogged
<1>1. SInv /\ CInv /\ [Next]_vars => SInv'
  BY NextSInv
<1>2. SInv => ShareLogged
  BY DEF SInv, Working, ShareLogged
<1> QED
  BY <1>1, <1>2, InitSInv, CellsInvariance, PTL DEF Spec

\* The rounded index of a percentile lies in the sample, and the least and the
\* greatest percentile are its ends (get_percentile_ns clamps to the last).
THEOREM PercentileInRange ==
  ASSUME NEW size \in Nat \ {0}, NEW permille \in Nat
  PROVE  /\ PercentileIndex(size, permille) \in 0..size - 1
         /\ PercentileIndex(size, 0) = 0
         /\ PercentileIndex(size, 1000) = size - 1
<1>1. size * permille \in Nat /\ size * 0 = 0 /\ size * 1000 \in Nat
  OBVIOUS
<1>2. \A n \in Nat : (n + 500) \div 1000 \in Nat
  OBVIOUS
<1>3. PercentileIndex(size, permille) \in 0..size - 1
  BY <1>1, <1>2 DEF PercentileIndex
<1>4. PercentileIndex(size, 0) = 0
  BY <1>1 DEF PercentileIndex
<1>5. (size * 1000 + 500) \div 1000 = size
  OBVIOUS
<1>6. PercentileIndex(size, 1000) = size - 1
  BY <1>5 DEF PercentileIndex
<1> QED
  BY <1>3, <1>4, <1>6
=============================================================================
