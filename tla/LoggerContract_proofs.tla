------------------------ MODULE LoggerContract_proofs ------------------------
(***************************************************************************)
(* The contract of logger.hpp is consistent: its own guarantees hold for   *)
(* every set of threads.                                                   *)
(***************************************************************************)
EXTENDS LoggerContract, TLAPS

\* A thread is never logging and finished at once; without an instance there
\* is no team.
CInv ==
  /\ TypeOK
  /\ Orderly
  /\ logging \cap finished = {}
  /\ life = "absent" => team = {}

LEMMA ContractInit == Init => CInv
  BY DEF Init, CInv, TypeOK, Orderly

LEMMA ContractNext == CInv /\ [Next]_vars => CInv'
<1> SUFFICES ASSUME CInv, [Next]_vars PROVE CInv'
  OBVIOUS
<1> USE DEF CInv, TypeOK, Orderly
<1>1. ASSUME NEW T \in SUBSET Threads, Create(T) PROVE CInv'
  BY <1>1 DEF Create
<1>2. ASSUME NEW w \in Threads, PrepareThread(w) PROVE CInv'
  BY <1>2 DEF PrepareThread
<1>3. ASSUME NEW w \in Threads, StartLogging(w) PROVE CInv'
  BY <1>3 DEF StartLogging
<1>4. ASSUME NEW w \in Threads, StopLogging(w) PROVE CInv'
  BY <1>4 DEF StopLogging
<1>5. CASE Terminate
  BY <1>5 DEF Terminate
<1>6. CASE Destroy
  BY <1>6 DEF Destroy
<1>7. CASE UNCHANGED vars
  BY <1>7 DEF vars
<1> QED
  BY <1>1, <1>2, <1>3, <1>4, <1>5, <1>6, <1>7 DEF Next

\* A logger driven by the contract is logged into only with its whole team
\* prepared, and terminated only when all of it has finished.
THEOREM ContractOrderly == Spec => [](TypeOK /\ Orderly)
<1>1. CInv => TypeOK /\ Orderly
  BY DEF CInv
<1> QED
  BY <1>1, ContractInit, ContractNext, PTL DEF Spec
=============================================================================
