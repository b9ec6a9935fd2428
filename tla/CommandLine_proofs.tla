------------------------- MODULE CommandLine_proofs -------------------------
(***************************************************************************)
(* However the program is called, the tests it starts give every thread    *)
(* at least one message, and log no more than the user asked for: the      *)
(* message count is looked at on every way from main to the tests.         *)
(***************************************************************************)
EXTENDS CommandLine, DataLemmas

\* Whoever has come to the choice of the loggers has messages enough, the
\* number that was given, and a number of iterations.
Checked ==
  /\ msgs \in Nat
  /\ place \in {"subcommand", "parse_args", "select", "gbench"} => msgs = argv[2].number
  /\ place = "select" => msgs >= MaxThreads /\ argv[4].number \in Nat

IInv == Checked /\ EveryThreadHasWork /\ NumbersKept

-----------------------------------------------------------------------------
(* Division and width.                                                     *)

\* A share of enough messages is not empty.
LEMMA ShareNotEmpty ==
  ASSUME NEW n \in Nat, n >= MaxThreads, NEW t \in 1..MaxThreads
  PROVE  n \div t >= 1
<1>1. MaxThreads \in Nat /\ t \in Nat /\ t >= 1 /\ n >= t
  BY CommandLineAssumption
<1>2. /\ n \div t \in Int /\ n % t \in 0..t - 1
      /\ n = t * (n \div t) + (n % t)
  BY <1>1
<1>3. SUFFICES ASSUME n \div t <= 0 PROVE FALSE
  BY <1>2
<1>4. t * (n \div t) <= 0
  BY <1>1, <1>2, <1>3
<1> QED
  BY <1>1, <1>2, <1>4

\* The shares together are no more than what was divided.
LEMMA SharesFit ==
  ASSUME NEW n \in Nat, NEW t \in 1..MaxThreads
  PROVE  (n \div t) * t <= n
<1>1. t \in Nat \ {0}
  BY CommandLineAssumption
<1>2. /\ n \div t \in Int /\ n % t \in 0..t - 1
      /\ n = (n \div t) * t + (n % t)
  BY <1>1
<1>3. (n \div t) * t \in Int
  BY <1>1, <1>2
<1> QED
  BY <1>2, <1>3

\* The lower half of the width is what an int keeps.
LEMMA IntKeeps ==
  ASSUME NEW n \in Nat, n < U32Mod \div 2
  PROVE  ToInt(n) = n
<1>1. U32Mod \in Nat \ {0} /\ U32Mod \div 2 < U32Mod
  BY WidthAssumption
<1>2. n % U32Mod = n
  BY <1>1
<1> QED
  BY <1>2 DEF ToInt

\* What strtosize_t takes is a number, and not a negative one.
LEMMA SizeIsNat == ASSUME NEW arg, IsSize(arg) PROVE arg.number \in Nat
  BY WidthAssumption DEF IsSize

\* The percentile of a sample lies in it.
THEOREM StatisticInRange ==
  ASSUME NEW n \in Nat \ {0}, NEW percent \in 0..99
  PROVE  StatisticIndex(n, percent) \in 0..n - 1
<1>1. n * percent \in Nat /\ n * percent <= 99 * n
  <2>1. percent \in Nat /\ 99 - percent \in Nat
    OBVIOUS
  <2>2. n * percent \in Nat /\ n * (99 - percent) \in Nat
    BY <2>1
  <2>3. n * percent + n * (99 - percent) = 99 * n
    BY <2>1
  <2> QED
    BY <2>2, <2>3
<1>2. \A k \in Nat : k <= 99 * n => k \div 100 \in 0..n - 1
  OBVIOUS
<1> QED
  BY <1>1, <1>2 DEF StatisticIndex

-----------------------------------------------------------------------------
(* The invariant.                                                          *)

\* Only a call that starts tests has to do with either property.
LEMMA NoNewCall ==
  ASSUME EveryThreadHasWork, NumbersKept, UNCHANGED <<argv, call>>
  PROVE  EveryThreadHasWork' /\ NumbersKept'
  BY DEF EveryThreadHasWork, NumbersKept

LEMMA InitIInv == Init => IInv
  BY DEF Init, IInv, Checked, EveryThreadHasWork, NumbersKept, NoCall

LEMMA NextIInv == IInv /\ [Next]_vars => IInv'
<1> SUFFICES ASSUME IInv, [Next]_vars PROVE IInv'
  OBVIOUS
<1> USE DEF IInv, Checked
<1>1. CASE CheckArguments
  BY <1>1, NoNewCall DEF CheckArguments, Return
<1>2. CASE ParseSize
  BY <1>2, NoNewCall DEF ParseSize, Return
<1>3. CASE ParseCount
  <2>1. CASE IsSize(argv[2])
    BY <1>3, <2>1, SizeIsNat, NoNewCall DEF ParseCount
  <2>2. CASE ~IsSize(argv[2])
    BY <1>3, <2>2, NoNewCall DEF ParseCount, Return
  <2> QED
    BY <2>1, <2>2
<1>4. CASE Dispatch
  BY <1>4, NoNewCall DEF Dispatch, Return
<1>5. CASE ParseArgs
  <2>1. CASE place' = "select"
    <3>1. ~Refused /\ UNCHANGED <<argv, msgs, call>>
      BY <1>5, <2>1 DEF ParseArgs, Return
    <3>2. msgs >= MaxThreads /\ argv[4].number \in Nat
      BY <3>1, SizeIsNat, CommandLineAssumption DEF Refused, TooFew
    <3>3. msgs = argv[2].number
      BY <1>5 DEF ParseArgs
    <3> QED
      BY <2>1, <3>1, <3>2, <3>3, NoNewCall
  <2>2. CASE place' # "select"
    BY <1>5, <2>2, NoNewCall DEF ParseArgs, Return
  <2> QED
    BY <2>1, <2>2
<1>6. CASE Select
  BY <1>6, NoNewCall DEF Select, Return
<1>7. CASE RunOwn
  <2>1. CASE OwnCall.iterations < 0
    BY <1>7, <2>1, NoNewCall DEF RunOwn
  <2>2. CASE ~(OwnCall.iterations < 0)
    <3>1. /\ msgs >= MaxThreads /\ msgs = argv[2].number /\ argv[4].number \in Nat
          /\ msgs' = msgs /\ argv' = argv /\ place' = "own"
          /\ call' = OwnCall
      BY <1>7, <2>2 DEF RunOwn
    <3>2. /\ call'.run = "own" /\ call'.msgs = msgs
          /\ call'.iterations = ToInt(argv[4].number)
          /\ call'.threads = IF OnlyMaxThreads THEN <<MaxThreads>> ELSE ThreadCountSeq
      BY <3>1 DEF OwnCall
    <3>3. \A i \in 1..Len(call'.threads) : call'.threads[i] \in 1..MaxThreads
      BY <3>2, CommandLineAssumption
    <3>4. \A i \in 1..Len(call'.threads) : call'.msgs \div call'.threads[i] >= 1
      BY <3>1, <3>2, <3>3, ShareNotEmpty
    <3>5. EveryThreadHasWork'
      BY <3>2, <3>4 DEF EveryThreadHasWork
    <3>6. ToInt(argv[4].number) \in Int
      BY <3>1, WidthAssumption DEF ToInt
    <3>7. NumbersKept'
      BY <2>2, <3>1, <3>2, <3>6, IntKeeps DEF NumbersKept, OwnCall
    <3> QED
      BY <3>1, <3>5, <3>7
  <2> QED
    BY <2>1, <2>2
<1>8. CASE RunGoogle
  <2>1. CASE place' = "google"
    <3> DEFINE table == [l \in 1..Len(LoggerNames) |->
                          [t \in 1..Len(ThreadCountSeq) |-> Register(l, t)]]
    <3>0. /\ ~(msgs # 0 /\ TooFew(msgs)) /\ msgs = argv[2].number
          /\ call' = [run |-> "google", mem_bytes |-> Narrowed(qbytes), runs |-> table]
          /\ msgs' = msgs /\ argv' = argv
      BY <1>8, <2>1 DEF RunGoogle, Return
    <3>1. /\ msgs = 0 \/ msgs >= MaxThreads
          /\ msgs' = msgs /\ argv' = argv /\ msgs = argv[2].number
          /\ call'.run = "google" /\ call'.runs = table
      BY <3>0, CommandLineAssumption DEF TooFew
    <3> DEFINE run(l, t) == call'.runs[l][t]
    <3>2. ASSUME NEW l \in 1..Len(LoggerNames), NEW t \in 1..Len(ThreadCountSeq)
          PROVE  /\ run(l, t).iterations >= 1 \/ run(l, t).iterations = Chosen
                 /\ run(l, t).iterations * run(l, t).threads <= argv[2].number
      <4>1. ThreadCountSeq[t] \in 1..MaxThreads
        BY CommandLineAssumption
      <4>2. run(l, t).threads = ThreadCountSeq[t]
        BY <3>1 DEF Register
      <4>3. CASE msgs = 0
        <5>1. run(l, t).iterations = -1
          BY <3>1, <4>3 DEF Register, Chosen
        <5>2. (-1) * ThreadCountSeq[t] <= argv[2].number
          BY <3>1, <4>1, <4>3, CommandLineAssumption
        <5> HIDE DEF run
        <5>3. run(l, t).iterations * run(l, t).threads = (-1) * ThreadCountSeq[t]
          BY <4>2, <5>1
        <5> QED
          BY <5>1, <5>2, <5>3 DEF Chosen
      <4>4. CASE msgs # 0
        <5>1. run(l, t).iterations = msgs \div ThreadCountSeq[t]
          BY <3>1, <4>4 DEF Register
        <5> QED
          BY <3>1, <4>1, <4>2, <4>4, <5>1, ShareNotEmpty, SharesFit
      <4> QED
        BY <4>3, <4>4
    <3>3. EveryThreadHasWork' /\ NumbersKept'
      BY <3>1, <3>2 DEF EveryThreadHasWork, NumbersKept
    <3> QED
      BY <2>1, <3>1, <3>3
  <2>2. CASE place' # "google"
    BY <1>8, <2>2, NoNewCall DEF RunGoogle, Return
  <2> QED
    BY <2>1, <2>2
<1>9. CASE UNCHANGED vars
  BY <1>9, NoNewCall DEF vars
<1> QED
  BY <1>1, <1>2, <1>3, <1>4, <1>5, <1>6, <1>7, <1>8, <1>9 DEF Next

LEMMA Invariance == Spec => []IInv
  BY InitIInv, NextIInv, PTL DEF Spec

\* parse_args and gbench_subcommand let no test start that leaves a thread
\* without a message, for any arguments, any thread counts and any widths.
THEOREM WorkForEveryThread == Spec => []EveryThreadHasWork
<1>1. IInv => EveryThreadHasWork
  BY DEF IInv
<1> QED
  BY Invariance, <1>1, PTL

\* The numbers of the command line reach the tests that they are for, and
\* neither a division nor a narrow width makes more of them.
THEOREM NumbersReachTests == Spec => []NumbersKept
<1>1. IInv => NumbersKept
  BY DEF IInv
<1> QED
  BY Invariance, <1>1, PTL

-----------------------------------------------------------------------------
(* The memory size.                                                        *)

\* A size that was taken is the one the user asked for, but for its width.
Sized ==
  /\ place \in {"count", "subcommand", "parse_args", "select", "gbench"}
       => /\ argv[1].number \in Nat
          /\ argv[1].single => Factor(argv[1]) = 1
          /\ qbytes = ToU64(argv[1].number * Factor(argv[1]))
  /\ SizesOfIntKept

\* The factor is what the suffix means, unless the program falls over it.
LEMMA FactorAsAsked ==
  ASSUME argv[1].single => Factor(argv[1]) = 1, argv[1].number \in Nat
  PROVE  argv[1].number * Factor(argv[1]) = Asked
<1>1. CASE ~argv[1].single
  BY <1>1 DEF Factor, EndsWith, Asked
<1>2. CASE argv[1].single
  <2>1. Kilo * Kilo * Kilo = 1 /\ Kilo \in Nat \ {0}
    BY <1>2, CommandLineAssumption DEF Factor, EndsWith
  <2>2. Kilo = 1
    <3>1. Kilo * Kilo \in Nat \ {0}
      BY <2>1
    <3>2. \A a \in Nat \ {0} : a * Kilo = 1 => Kilo = 1
      BY <2>1
    <3> QED
      BY <2>1, <3>1, <3>2
  <2>3. Kilo * Kilo = 1
    BY <2>2
  <2>4. Asked = argv[1].number * 1
    BY <2>1, <2>2, <2>3 DEF Asked
  <2> QED
    BY <1>2, <2>4
<1> QED
  BY <1>1, <1>2

\* A number that an int holds comes through the two conversions.
LEMMA NarrowedKeeps ==
  ASSUME NEW n \in Nat, n < U32Mod \div 2
  PROVE  Narrowed(ToU64(n)) = n
<1>1. U32Mod \in Nat \ {0} /\ U64Mod \in Nat \ {0} /\ U64Mod % U32Mod = 0
  BY WidthAssumption
<1>2. ~(U64Mod < U32Mod)
  <2> SUFFICES ASSUME U64Mod < U32Mod PROVE FALSE
    OBVIOUS
  <2>1. U64Mod % U32Mod = U64Mod
    BY <1>1
  <2> QED
    BY <1>1, <2>1
<1>3. n < U64Mod
  BY <1>1, <1>2
<1>4. ToU64(n) = n
  BY <1>1, <1>3 DEF ToU64
<1> QED
  BY <1>4, IntKeeps DEF Narrowed

LEMMA NoNewSize ==
  ASSUME SizesOfIntKept, UNCHANGED <<argv, call>>
  PROVE  SizesOfIntKept'
  BY DEF SizesOfIntKept, Asked

\* The tests are called with the size that was taken.
LEMMA CallKeepsSize ==
  ASSUME Sized, place \in {"select", "gbench"}, argv' = argv,
         call'.mem_bytes = Narrowed(qbytes)
  PROVE  SizesOfIntKept'
<1>1. Asked' = Asked
  BY DEF Asked
<1>2. ASSUME Asked < U32Mod \div 2 PROVE Narrowed(qbytes) = Asked
  <2>1. qbytes = ToU64(Asked)
    BY FactorAsAsked DEF Sized
  <2>2. Asked \in Nat
    <3>1. Factor(argv[1]) \in Nat /\ argv[1].number \in Nat
      BY CommandLineAssumption DEF Sized, Factor
    <3>2. argv[1].number * Factor(argv[1]) \in Nat
      BY <3>1
    <3> QED
      BY <3>2, FactorAsAsked DEF Sized
  <2> QED
    BY <1>2, <2>1, <2>2, NarrowedKeeps
<1> QED
  BY <1>1, <1>2 DEF SizesOfIntKept

LEMMA InitSized == Init => Sized
  BY DEF Init, Sized, SizesOfIntKept, NoCall

LEMMA NextSized == Sized /\ [Next]_vars => Sized'
<1> SUFFICES ASSUME Sized, [Next]_vars PROVE Sized'
  OBVIOUS
<1>1. CASE ParseSize
  <2>1. CASE place' = "count"
    <3>1. /\ argv' = argv /\ call' = call /\ IsSize(argv[1])
          /\ argv[1].single => Factor(argv[1]) = 1
          /\ qbytes' = ToU64(argv[1].number * Factor(argv[1]))
      BY <1>1, <2>1 DEF ParseSize, Return
    <3>2. Factor(argv[1])' = Factor(argv[1])
      BY <3>1 DEF Factor, EndsWith
    <3>3. argv[1].number \in Nat
      BY <3>1, SizeIsNat
    <3>4. SizesOfIntKept'
      BY <3>1, NoNewSize DEF Sized
    <3> QED
      BY <3>1, <3>2, <3>3, <3>4 DEF Sized, ToU64
  <2>2. CASE place' # "count"
    <3>1. /\ UNCHANGED <<argv, call>>
          /\ place' \notin {"subcommand", "parse_args", "select", "gbench"}
      BY <1>1, <2>2 DEF ParseSize, Return
    <3> QED
      BY <2>2, <3>1, NoNewSize DEF Sized
  <2> QED
    BY <2>1, <2>2
<1>2. CASE RunOwn
  <2>1. CASE place' = "own"
    <3>1. place = "select" /\ argv' = argv /\ call' = OwnCall
      BY <1>2, <2>1 DEF RunOwn
    <3>2. call'.mem_bytes = Narrowed(qbytes)
      BY <3>1 DEF OwnCall
    <3> QED
      BY <2>1, <3>1, <3>2, CallKeepsSize DEF Sized
  <2>2. CASE place' # "own"
    <3>1. place' = "aborted" /\ UNCHANGED <<argv, call>>
      BY <1>2, <2>2 DEF RunOwn
    <3> QED
      BY <3>1, NoNewSize DEF Sized
  <2> QED
    BY <2>1, <2>2
<1>3. CASE RunGoogle
  <2>1. CASE place' = "google"
    <3>1. place = "gbench" /\ argv' = argv /\ call'.mem_bytes = Narrowed(qbytes)
      BY <1>3, <2>1 DEF RunGoogle, Return
    <3> QED
      BY <2>1, <3>1, CallKeepsSize DEF Sized
  <2>2. CASE place' # "google"
    <3>1. place' \in {"returned_0", "returned_1"} /\ UNCHANGED <<argv, call>>
      BY <1>3, <2>2 DEF RunGoogle, Return
    <3> QED
      BY <3>1, NoNewSize DEF Sized
  <2> QED
    BY <2>1, <2>2
<1>4. CASE CheckArguments
  BY <1>4, NoNewSize DEF CheckArguments, Return, Sized
<1>5. CASE ParseCount \/ Dispatch \/ ParseArgs \/ Select \/ UNCHANGED vars
  <2>1. /\ UNCHANGED <<argv, call, qbytes>>
        /\ \/ place \in {"count", "subcommand", "parse_args", "select"}
           \/ place' = place
    BY <1>5 DEF ParseCount, Dispatch, ParseArgs, Select, Return, vars
  <2>2. Factor(argv[1])' = Factor(argv[1])
    BY <2>1 DEF Factor, EndsWith
  <2> QED
    BY <2>1, <2>2, NoNewSize DEF Sized, ToU64
<1> QED
  BY <1>1, <1>2, <1>3, <1>4, <1>5 DEF Next

\* A memory size that an int holds reaches the loggers as it was asked for,
\* whatever the width of the integers, the suffix that it ends with and what
\* is between that and the number.
THEOREM SizesReachLoggers == Spec => []SizesOfIntKept
<1>1. Sized => SizesOfIntKept
  BY DEF Sized
<1> QED
  BY <1>1, InitSized, NextSized, PTL DEF Spec
-----------------------------------------------------------------------------
(* The types.                                                              *)

LEMMA U64IsNat == U64Mod \in Nat \ {0} /\ \A n \in Int : ToU64(n) \in 0..U64Mod - 1
<1>1. U64Mod \in Nat \ {0}
  BY WidthAssumption
<1>2. \A n \in Int : n % U64Mod \in 0..U64Mod - 1
  BY <1>1
<1> QED
  BY <1>1, <1>2 DEF ToU64

LEMMA ArgvTyped ==
  ASSUME argv \in Argvs
  PROVE  argv \in Seq(Arguments) /\ Len(argv) \in Nat
  BY CommandLineAssumption

\* The number of parse_args is set when its function is entered.
Typed ==
  /\ TypeOK
  /\ place = "select" => narg \in 5..Len(argv) + 1

LEMMA SizeTyped ==
  ASSUME NEW arg, IsSize(arg)
  PROVE  ToU64(arg.number * Factor(arg)) \in 0..U64Mod - 1
<1>1. Factor(arg) \in Nat
  <2>1. Kilo \in Nat /\ Kilo * Kilo \in Nat /\ Kilo * Kilo * Kilo \in Nat
    BY CommandLineAssumption
  <2> QED
    BY <2>1 DEF Factor
<1>2. arg.number * Factor(arg) \in Int
  BY <1>1, SizeIsNat
<1> QED
  BY <1>2, U64IsNat

LEMMA ACall ==
  /\ OwnCall # NoCall
  /\ \A runs, size : [run |-> "google", mem_bytes |-> size, runs |-> runs] # NoCall
<1>1. NoCall.run = "none"
  BY DEF NoCall
<1>2. OwnCall.run = "own"
  BY DEF OwnCall
<1>3. \A runs, size : [run |-> "google", mem_bytes |-> size, runs |-> runs].run = "google"
  OBVIOUS
<1> QED
  BY <1>1, <1>2, <1>3

LEMMA InitTyped == Init => Typed
  BY U64IsNat, ArgvTyped DEF Init, Typed, TypeOK, Ends, NoCall, All

\* One turn of the loop over the types.
Named == \E name \in All : Names(argv[narg], name)

LEMMA SelectTurns ==
  ASSUME Select
  PROVE  /\ place = "select" /\ narg <= Len(argv) /\ UNCHANGED <<argv, qbytes, msgs, call>>
         /\ \/ place' = "returned_1" /\ UNCHANGED <<narg, enabled>>
            \/ /\ place' = "select" /\ narg' = narg + 1
               /\ Named /\ enabled' = enabled \cup {argv[narg].word}
<1>1. CASE Named
  BY <1>1 DEF Select, Named
<1>2. CASE ~Named
  <2>1. place = "select" /\ narg <= Len(argv) /\ Return(1)
    BY <1>2, Zenon DEF Select, Named
  <2> QED
    BY <2>1 DEF Return
<1> QED
  BY <1>1, <1>2

LEMMA SelectTyped == Typed /\ Select => Typed'
<1> SUFFICES ASSUME Typed, Select PROVE Typed'
  OBVIOUS
<1>1. Len(argv) \in Nat /\ narg \in 5..Len(argv)
  <2>1. Len(argv) \in Nat /\ place = "select" /\ narg <= Len(argv)
    BY ArgvTyped, SelectTurns DEF Typed, TypeOK
  <2>2. narg \in 5..Len(argv) + 1
    BY <2>1 DEF Typed
  <2> QED
    BY <2>1, <2>2
<1>2. CASE place' = "select"
  <2>1. narg' = narg + 1 /\ enabled' = enabled \cup {argv[narg].word} /\ argv' = argv
    BY <1>2, SelectTurns
  <2>2. argv[narg].word \in All
    BY <1>2, SelectTurns DEF Named, Names
  <2>3. narg' \in 5..Len(argv') + 1 /\ narg' \in 0..Len(argv') + 1
    BY <1>1, <2>1
  <2>4. enabled' \subseteq All'
    BY <2>1, <2>2 DEF Typed, TypeOK, All
  <2> QED
    BY <1>2, <2>3, <2>4, SelectTurns DEF Typed, TypeOK
<1>3. CASE place' # "select"
  <2>1. place' = "returned_1" /\ UNCHANGED <<argv, qbytes, msgs, narg, enabled, call>>
    BY <1>3, SelectTurns
  <2> QED
    BY <2>1, SelectTurns DEF Typed, TypeOK, Ends, All
<1> QED
  BY <1>2, <1>3

LEMMA NextTyped == Typed /\ [Next]_vars => Typed'
<1> SUFFICES ASSUME Typed, [Next]_vars PROVE Typed'
  OBVIOUS
<1> USE DEF Typed, TypeOK, Ends
<1>0. Len(argv) \in Nat
  BY ArgvTyped
<1>1. CASE CheckArguments
  BY <1>1 DEF CheckArguments, Return
<1>2. CASE ParseSize
  <2>1. CASE place' = "count"
    <3>1. IsSize(argv[1]) /\ qbytes' = ToU64(argv[1].number * Factor(argv[1]))
      BY <1>2, <2>1 DEF ParseSize, Return
    <3>2. qbytes' \in 0..U64Mod - 1
      BY <3>1, SizeTyped
    <3> QED
      BY <1>2, <2>1, <3>2 DEF ParseSize, Return
  <2>2. CASE place' # "count"
    BY <1>2, <2>2 DEF ParseSize, Return
  <2> QED
    BY <2>1, <2>2
<1>3. CASE ParseCount
  BY <1>3 DEF ParseCount, IsSize, Return
<1>4. CASE Dispatch
  BY <1>4 DEF Dispatch, Return
<1>5. CASE ParseArgs
  <2>1. CASE place' = "select"
    <3>1. Len(argv) >= 5
      BY <1>0, <1>5, <2>1 DEF ParseArgs, Refused, Return
    <3> QED
      BY <1>0, <1>5, <2>1, <3>1 DEF ParseArgs, Return, All
  <2>2. CASE place' # "select"
    BY <1>5, <2>2 DEF ParseArgs, Return
  <2> QED
    BY <2>1, <2>2
<1>6. CASE Select
  BY <1>6, SelectTyped
<1>7. CASE RunOwn
  BY <1>7, ACall DEF RunOwn, All
<1>8. CASE RunGoogle
  <2>1. CASE place' = "google"
    <3>1. call' # NoCall /\ NoCall' = NoCall
      BY <1>8, <2>1, ACall DEF RunGoogle, Return, NoCall
    <3> QED
      BY <1>8, <2>1, <3>1 DEF RunGoogle, Return, All
  <2>2. CASE place' # "google"
    BY <1>8, <2>2 DEF RunGoogle, Return, All
  <2> QED
    BY <2>1, <2>2
<1>9. CASE UNCHANGED vars
  BY <1>9 DEF vars, All
<1> QED
  BY <1>1, <1>2, <1>3, <1>4, <1>5, <1>6, <1>7, <1>8, <1>9 DEF Next

LEMMA TypedInvariance == Spec => []Typed
  BY InitTyped, NextTyped, PTL DEF Spec

\* From main to the tests the variables have their types, whatever the
\* arguments: in particular no index of parse_args runs past argc.
THEOREM TypesKept == Spec => []TypeOK
<1>1. Typed => TypeOK
  BY DEF Typed
<1> QED
  BY TypedInvariance, <1>1, PTL
-----------------------------------------------------------------------------
(* The loggers.                                                            *)

NamesFrom(names, chosen, n) == {names[i] : i \in {j \in 1..n : names[j] \in chosen}}

\* Earlier in the selection is earlier among the names.
SameOrder(sel, names) ==
  \A i, j \in 1..Len(sel), p, q \in 1..Len(names) :
    i < j /\ sel[i] = names[p] /\ sel[j] = names[q] => p < q

\* What has been selected of the first n names.
SelectedOf(sel, names, chosen, n) ==
  /\ sel \in Seq(STRING)
  /\ {sel[i] : i \in 1..Len(sel)} = NamesFrom(names, chosen, n)
  /\ SameOrder(sel, names)

\* One more name.
LEMMA SelectNext ==
  ASSUME NEW names \in Seq(STRING), NEW chosen, NEW n \in Nat, n + 1 <= Len(names),
         \A i, j \in 1..Len(names) : names[i] = names[j] => i = j,
         NEW sel, SelectedOf(sel, names, chosen, n)
  PROVE  SelectedOf(IF names[n + 1] \in chosen THEN Append(sel, names[n + 1]) ELSE sel,
                    names, chosen, n + 1)
<1> DEFINE name == names[n + 1]
           longer == Append(sel, name)
<1>1. name \in STRING /\ sel \in Seq(STRING) /\ Len(sel) \in Nat
  BY DEF SelectedOf
<1>2. CASE name \notin chosen
  <2>1. NamesFrom(names, chosen, n + 1) = NamesFrom(names, chosen, n)
    <3>1. {j \in 1..n + 1 : names[j] \in chosen} = {j \in 1..n : names[j] \in chosen}
      BY <1>2
    <3> QED
      BY <3>1, Zenon DEF NamesFrom
  <2> QED
    BY <1>2, <2>1 DEF SelectedOf
<1>3. CASE name \in chosen
  <2>1. NamesFrom(names, chosen, n + 1) = NamesFrom(names, chosen, n) \cup {name}
    <3>1. {j \in 1..n + 1 : names[j] \in chosen}
            = {j \in 1..n : names[j] \in chosen} \cup {n + 1}
      BY <1>3
    <3> QED
      BY <3>1 DEF NamesFrom
  <2>3. /\ longer \in Seq(STRING) /\ Len(longer) = Len(sel) + 1
        /\ longer[Len(sel) + 1] = name /\ \A i \in 1..Len(sel) : longer[i] = sel[i]
    BY <1>1, AppendElement
  <2> HIDE DEF longer
  <2>4. ASSUME NEW i \in 1..Len(sel), NEW p \in 1..Len(names), sel[i] = names[p]
        PROVE  p < n + 1
    <3>1. sel[i] \in NamesFrom(names, chosen, n)
      BY DEF SelectedOf
    <3>2. PICK r \in 1..n : sel[i] = names[r]
      BY <3>1 DEF NamesFrom
    <3>3. Len(names) \in Nat /\ r \in 1..Len(names)
      BY <3>2
    <3>4. p = r
      BY <2>4, <3>2, <3>3
    <3> QED
      BY <3>2, <3>4
  <2>5. {longer[i] : i \in 1..Len(longer)} = {sel[i] : i \in 1..Len(sel)} \cup {name}
    BY <1>1, AppendRange DEF longer
  <2>6. SameOrder(longer, names)
    <3>0. \A k \in 1..Len(longer) : k \in 1..Len(sel) \/ k = Len(sel) + 1
      BY <1>1, <2>3
    <3> SUFFICES ASSUME NEW i \in 1..Len(longer), NEW j \in 1..Len(longer),
                        NEW p \in 1..Len(names), NEW q \in 1..Len(names),
                        i < j, longer[i] = names[p], longer[j] = names[q]
                 PROVE  p < q
      BY DEF SameOrder
    <3>1. i \in 1..Len(sel) /\ longer[i] = sel[i]
      <4>1. i \in 1..Len(sel)
        BY <1>1, <2>3
      <4> QED
        BY <2>3, <4>1
    <3>2. CASE j \in 1..Len(sel)
      <4>1. longer[j] = sel[j]
        BY <2>3, <3>2
      <4> QED
        BY <3>1, <3>2, <4>1 DEF SelectedOf, SameOrder
    <3>3. CASE j = Len(sel) + 1
      <4>1. n + 1 \in 1..Len(names)
        BY <1>1
      <4>2. q = n + 1
        BY <2>3, <3>3, <4>1
      <4>3. p < n + 1
        BY <2>4, <3>1
      <4> QED
        BY <4>2, <4>3
    <3> QED
      BY <3>0, <3>2, <3>3
  <2>7. {longer[i] : i \in 1..Len(longer)} = NamesFrom(names, chosen, n + 1)
    BY <2>1, <2>5, Zenon DEF SelectedOf
  <2>8. SelectedOf(longer, names, chosen, n + 1)
    BY <2>3, <2>6, <2>7, Zenon DEF SelectedOf
  <2> QED
    BY <1>3, <2>8, Zenon DEF longer
<1> QED
  BY <1>2, <1>3

\* The loop of parse_args keeps the names chosen, in their order.
LEMMA SelectedNames ==
  ASSUME NEW names \in Seq(STRING), NEW chosen,
         \A i, j \in 1..Len(names) : names[i] = names[j] => i = j
  PROVE  SelectedOf(Selected(names, chosen), names, chosen, Len(names))
<1> DEFINE n == Len(names)
           Type == Seq(STRING)
           Turned(sel, name) == IF name \in chosen THEN Append(sel, name) ELSE sel
           step == [p \in (1..n) \X Type |-> Turned(p[2], names[p[1]])]
           Solves(it) == it = [s \in SUBSET DOMAIN names |->
             IF s = {} THEN <<>>
             ELSE LET x == Max(s) IN Turned(it[s \ {x}], names[x])]
<1>1. n \in Nat /\ DOMAIN names = 1..n /\ \A i \in 1..n : names[i] \in STRING
  OBVIOUS
<1>2. ASSUME NEW sel \in Type, NEW name \in STRING PROVE Turned(sel, name) \in Type
  <2>1. Append(sel, name) \in Seq(STRING)
    BY AppendElement
  <2> QED
    BY <2>1
<1>3. PICK it : IsFold(it, 1..n, Type, <<>>, step, Lasts(n))
  <2>1. step \in [(1..n) \X Type -> Type] /\ <<>> \in Type
    <3>1. ASSUME NEW q \in (1..n) \X Type PROVE Turned(q[2], names[q[1]]) \in Type
      <4>1. q[1] \in 1..n /\ q[2] \in Type
        OBVIOUS
      <4> HIDE DEF Turned, Type, n
      <4> QED
        BY <1>1, <1>2, <4>1
    <3>2. <<>> \in Type
      OBVIOUS
    <3> HIDE DEF Turned, Type, n
    <3> QED
      BY <3>1, <3>2
  <2> HIDE DEF n, Type, step
  <2> QED
    BY <1>1, <2>1, LeftFoldExists
<1>4. Solves(it)
  <2>1. it \in [SUBSET (1..n) -> Type]
    BY <1>3 DEF IsFold
  <2>2. ASSUME NEW s \in SUBSET (1..n)
        PROVE  it[s] = IF s = {} THEN <<>>
                       ELSE LET x == Max(s) IN Turned(it[s \ {x}], names[x])
    <3> HIDE DEF Turned
    <3>1. CASE s = {}
      BY <1>3, <3>1 DEF IsFold, Turn
    <3>2. CASE s # {}
      <4>1. Max(s) \in 1..n /\ Lasts(n)[s] = Max(s)
        BY <1>1, <3>2, LastOfPart DEF Lasts
      <4>2. it[s] = step[<<Max(s), it[s \ {Max(s)}]>>]
        <5> HIDE DEF step, Type, n
        <5> QED
          BY <1>3, <3>2, <4>1 DEF IsFold, Turn
      <4>3. <<Max(s), it[s \ {Max(s)}]>> \in (1..n) \X Type
        BY <2>1, <4>1
      <4>4. it[s] = Turned(it[s \ {Max(s)}], names[Max(s)])
        BY <4>2, <4>3
      <4> QED
        BY <3>2, <4>4
    <3> QED
      BY <3>1, <3>2
  <2> HIDE DEF n, Type, step, Turned
  <2> QED
    BY <1>1, <2>1, <2>2
<1> DEFINE all == CHOOSE that : Solves(that)
<1>5. Selected(names, chosen) = all[DOMAIN names]
  BY Zenon DEF Selected, FoldLeft, MapThenFoldSet
<1>6. Solves(all)
  <2> HIDE DEF Solves
  <2> QED
    BY <1>4, Zenon
<1> HIDE DEF all
<1>7. ASSUME NEW k \in Nat, k + 1 <= n
      PROVE  all[1..k + 1] = Turned(all[1..k], names[k + 1])
  <2>1. 1..k + 1 \in SUBSET DOMAIN names /\ 1..k + 1 # {}
    <3>1. k + 1 \in 1..k + 1 /\ n \in Nat
      OBVIOUS
    <3>2. 1..k + 1 \subseteq 1..n
      BY <1>7, <3>1
    <3> QED
      BY <1>1, <3>1, <3>2
  <2>2. Max(1..k + 1) = k + 1 /\ (1..k + 1) \ {k + 1} = 1..k
    BY LastOfPrefix
  <2> HIDE DEF n, Turned
  <2> QED
    BY <1>6, <2>1, <2>2
<1> DEFINE P == {k \in Nat : k <= n => SelectedOf(all[1..k], names, chosen, k)}
<1>8. 0 \in P
  <2>1. all[1..0] = <<>>
    <3>1. 1..0 = {}
      OBVIOUS
    <3> QED
      BY <1>6, <3>1
  <2>2. NamesFrom(names, chosen, 0) = {}
    BY DEF NamesFrom
  <2>3. SelectedOf(<<>>, names, chosen, 0)
    BY <2>2 DEF SelectedOf, SameOrder
  <2> QED
    BY <2>1, <2>3
<1>9. ASSUME NEW k \in Nat, k \in P PROVE k + 1 \in P
  BY <1>7, <1>9, SelectNext
<1>10. Nat \subseteq P
  <2> HIDE DEF P
  <2> QED
    BY <1>8, <1>9, NaturalInduction
<1> QED
  BY <1>1, <1>5, <1>10
\* The only type is "all".
OnlyAll == Len(argv) = 5 /\ Names(argv[5], "all")
WordsBefore(n) == {argv[i].word : i \in 5..n - 1}

\* The loggers chosen are those of the types looked at so far.
ChosenSoFar ==
  /\ Len(argv) >= 5
  /\ OnlyAll => enabled = All /\ narg = 6
  /\ ~OnlyAll => enabled = WordsBefore(narg) /\ WordsBefore(narg) \subseteq All

NamedSoFar ==
  /\ place = "select" => ChosenSoFar
  /\ LoggersAsNamed

\* The loggers that the arguments mean.
Meant == IF Names(argv[5], "all") THEN All ELSE {argv[i].word : i \in 5..Len(argv)}

Lists(loggers, names) ==
  /\ InOrder(loggers)
  /\ {loggers[i] : i \in 1..Len(loggers)} = names

LEMMA MeantKept == argv' = argv => Meant' = Meant
  BY DEF Meant, Names, All

LEMMA AsNamed ==
  /\ LoggersAsNamed <=> (call.run = "own" => Lists(call.loggers, Meant))
  /\ LoggersAsNamed' <=> (call'.run = "own" => Lists(call'.loggers, Meant'))
  BY Zenon DEF LoggersAsNamed, Lists, Meant, InOrder

LEMMA NoNewLoggers ==
  ASSUME LoggersAsNamed, UNCHANGED <<argv, call>>
  PROVE  LoggersAsNamed'
  BY AsNamed, MeantKept

LEMMA NotAll == "all" \notin All
  BY CommandLineAssumption DEF All

\* The words of all types, or all loggers.
LEMMA ChosenAtEnd ==
  ASSUME Typed, ChosenSoFar, place = "select", narg > Len(argv)
  PROVE  enabled = Meant
<1> USE DEF Meant
<1>1. Len(argv) \in Nat /\ narg = Len(argv) + 1
  <2>1. Len(argv) \in Nat /\ narg \in 5..Len(argv) + 1
    BY ArgvTyped DEF Typed, TypeOK
  <2> QED
    BY <2>1
<1>2. CASE OnlyAll
  BY <1>2 DEF OnlyAll, ChosenSoFar
<1>3. CASE ~OnlyAll
  <2>1. enabled = {argv[i].word : i \in 5..Len(argv)} /\ enabled \subseteq All
    <3>1. 5..narg - 1 = 5..Len(argv)
      BY <1>1
    <3> QED
      BY <1>3, <3>1 DEF ChosenSoFar, WordsBefore
  <2>2. argv[5].word \in enabled
    <3>1. 5 \in 5..Len(argv)
      BY <1>1 DEF ChosenSoFar
    <3> QED
      BY <2>1, <3>1
  <2>3. ~Names(argv[5], "all")
    BY <2>1, <2>2, NotAll DEF Names
  <2> QED
    BY <2>1, <2>3
<1> QED
  BY <1>2, <1>3

LEMMA OwnCallLoggers ==
  ASSUME Typed, ChosenSoFar, place = "select", narg > Len(argv), call' = OwnCall, argv' = argv
  PROVE  LoggersAsNamed'
<1> DEFINE sel == Selected(LoggerNames, enabled)
<1>1. LoggerNames \in Seq(STRING) /\ SelectedOf(sel, LoggerNames, enabled, Len(LoggerNames))
  BY SelectedNames, CommandLineAssumption
<1>2. NamesFrom(LoggerNames, enabled, Len(LoggerNames)) = enabled
  <2>1. enabled \subseteq {LoggerNames[i] : i \in 1..Len(LoggerNames)}
    BY DEF Typed, TypeOK, All
  <2> QED
    BY <2>1 DEF NamesFrom
<1>3. call'.loggers = sel
  BY DEF OwnCall
<1>4. Lists(sel, Meant)
  BY <1>1, <1>2, ChosenAtEnd DEF SelectedOf, Lists, SameOrder, InOrder
<1> QED
  BY <1>3, <1>4, AsNamed, MeantKept

LEMMA InitChosen == Init => NamedSoFar
  BY DEF Init, NamedSoFar, LoggersAsNamed, NoCall

LEMMA SelectChosen ==
  ASSUME Typed, NamedSoFar, Select
  PROVE  NamedSoFar'
<1>1. ChosenSoFar /\ LoggersAsNamed' /\ argv' = argv
  BY SelectTurns, NoNewLoggers DEF NamedSoFar
<1>2. CASE place' = "select"
  <2>1. /\ narg' = narg + 1 /\ enabled' = enabled \cup {argv[narg].word}
        /\ narg <= Len(argv) /\ argv[narg].word \in All
    BY <1>2, SelectTurns DEF Named, Names
  <2>2. Len(argv) \in Nat /\ narg \in 5..Len(argv) + 1
    BY ArgvTyped, SelectTurns DEF Typed, TypeOK
  <2>3. ~OnlyAll
    BY <1>1, <2>1, <2>2 DEF OnlyAll, ChosenSoFar
  <2>4. WordsBefore(narg + 1) = WordsBefore(narg) \cup {argv[narg].word}
    <3>1. 5..(narg + 1) - 1 = 5..narg - 1 \cup {narg}
      BY <2>2
    <3> QED
      BY <3>1 DEF WordsBefore
  <2>5. WordsBefore(narg)' = WordsBefore(narg + 1) /\ OnlyAll' = OnlyAll /\ All' = All
    BY <1>1, <2>1 DEF WordsBefore, OnlyAll, Names, All
  <2>6. ChosenSoFar'
    BY <1>1, <2>1, <2>3, <2>4, <2>5 DEF ChosenSoFar
  <2> QED
    BY <1>1, <2>6 DEF NamedSoFar
<1>3. CASE place' # "select"
  BY <1>1, <1>3 DEF NamedSoFar
<1> QED
  BY <1>2, <1>3

LEMMA ParseArgsChosen ==
  ASSUME Typed, NamedSoFar, ParseArgs
  PROVE  NamedSoFar'
<1>1. LoggersAsNamed' /\ argv' = argv
  BY NoNewLoggers DEF ParseArgs, Return, NamedSoFar
<1>2. CASE place' = "select"
  <2>1. /\ ~Refused /\ enabled' = (IF OnlyAll THEN All ELSE {})
        /\ narg' = (IF OnlyAll THEN 6 ELSE 5)
    BY <1>2 DEF ParseArgs, Return, OnlyAll
  <2>2. Len(argv) \in Nat /\ Len(argv) >= 5
    BY <2>1, ArgvTyped DEF Refused, Typed, TypeOK
  <2>3. OnlyAll' = OnlyAll /\ All' = All
    BY <1>1 DEF OnlyAll, Names, All
  <2>4. WordsBefore(5)' = {}
    BY DEF WordsBefore
  <2>5. ChosenSoFar'
    BY <1>1, <2>1, <2>2, <2>3, <2>4 DEF ChosenSoFar, WordsBefore
  <2> QED
    BY <1>1, <2>5 DEF NamedSoFar
<1>3. CASE place' # "select"
  BY <1>1, <1>3 DEF NamedSoFar
<1> QED
  BY <1>2, <1>3

LEMMA NextChosen == Typed /\ NamedSoFar /\ [Next]_vars => NamedSoFar'
<1> SUFFICES ASSUME Typed, NamedSoFar, [Next]_vars PROVE NamedSoFar'
  OBVIOUS
<1>1. CASE CheckArguments \/ ParseSize \/ ParseCount \/ Dispatch
  <2>1. place' # "select" /\ UNCHANGED <<argv, call>>
    BY <1>1 DEF CheckArguments, ParseSize, ParseCount, Dispatch, Return
  <2> QED
    BY <2>1, NoNewLoggers DEF NamedSoFar
<1>2. CASE ParseArgs
  BY <1>2, ParseArgsChosen
<1>3. CASE Select
  BY <1>3, SelectChosen
<1>4. CASE RunOwn
  <2>1. place = "select" /\ narg > Len(argv) /\ argv' = argv /\ place' # "select"
    BY <1>4, ArgvTyped DEF RunOwn, Typed, TypeOK
  <2>2. CASE call' = call
    BY <2>1, <2>2, NoNewLoggers DEF NamedSoFar
  <2>3. CASE call' = OwnCall
    BY <2>1, <2>3, OwnCallLoggers DEF NamedSoFar
  <2> QED
    BY <1>4, <2>2, <2>3 DEF RunOwn
<1>5. CASE RunGoogle
  <2>1. argv' = argv /\ place' # "select"
    BY <1>5 DEF RunGoogle, Return
  <2>2. CASE place' = "google"
    <3>1. call'.run = "google"
      BY <1>5, <2>2 DEF RunGoogle, Return
    <3> QED
      BY <2>1, <3>1 DEF NamedSoFar, LoggersAsNamed
  <2>3. CASE place' # "google"
    <3>1. call' = call
      BY <1>5, <2>3 DEF RunGoogle, Return
    <3> QED
      BY <2>1, <3>1, NoNewLoggers DEF NamedSoFar
  <2> QED
    BY <2>2, <2>3
<1>6. CASE UNCHANGED vars
  <2>1. UNCHANGED <<argv, place, narg, enabled, call>>
    BY <1>6 DEF vars
  <2>2. ChosenSoFar' <=> ChosenSoFar
    BY <2>1 DEF ChosenSoFar, OnlyAll, Names, WordsBefore, All
  <2> QED
    BY <2>1, <2>2, NoNewLoggers DEF NamedSoFar
<1> QED
  BY <1>1, <1>2, <1>3, <1>4, <1>5, <1>6 DEF Next

\* Whichever types are named, in whatever order and however often, the own
\* tests run on those loggers and on no other, in the order of init_logvector.
THEOREM LoggersAreThoseNamed == Spec => []LoggersAsNamed
<1>1. NamedSoFar => LoggersAsNamed
  BY DEF NamedSoFar
<1> QED
  BY <1>1, InitChosen, NextChosen, TypedInvariance, PTL DEF Spec
=============================================================================
