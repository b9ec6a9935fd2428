---------------------------- MODULE CommandLine ----------------------------
(***************************************************************************)
(* main, own_subcommand, parse_args and gbench_subcommand (main.cpp), from *)
(* the arguments to the call that runs the tests: which arguments are      *)
(* refused, in which order they are looked at, and with which values the   *)
(* tests are called.  What the program prints is left out.                 *)
(*                                                                         *)
(* An argument is a record: the number std::stoull reads at its beginning  *)
(* (-1: none), the rest of it ("" for nothing), the suffix it ends with,   *)
(* in small letters ("" for none of the three), and whether it is one      *)
(* character long: 8.5MB begins with 8 and ends with mb.                   *)
(***************************************************************************)
EXTENDS CInt, SequencesExt

CONSTANTS
  Kilo,            \* 1024 in the program
  LoggerNames,     \* the names of what init_logvector makes, in its order
  ThreadCountSeq,  \* get_thread_counts_vector
  MaxThreads,      \* max_threads
  Argvs            \* the argument vectors considered, from argv[1] on

\* What a string may be taken for.
Arguments == [number : Nat \cup {-1}, word : STRING, suffix : {"kb", "mb", "gb", ""},
              single : BOOLEAN]

\* get_name() tells the loggers apart, and from "all".
ASSUME CommandLineAssumption ==
  /\ Kilo \in Nat \ {0}
  /\ MaxThreads \in Nat \ {0}
  /\ \A a \in Argvs : a \in Seq(Arguments)
  /\ LoggerNames \in Seq(STRING)
  /\ \A i, j \in 1..Len(LoggerNames) : LoggerNames[i] = LoggerNames[j] => i = j
  /\ \A i \in 1..Len(LoggerNames) : LoggerNames[i] # "all"
  /\ \A i \in 1..Len(ThreadCountSeq) : ThreadCountSeq[i] \in 1..MaxThreads

VARIABLES
  argv,     \* the arguments
  place,    \* the function the program is in
  qbytes,   \* of main: the memory to recommend
  msgs,     \* of main: the message count
  narg,     \* of parse_args: the index of the argument looked at
  enabled,  \* of parse_args: the loggers chosen so far
  call      \* what the tests are called with, or NoCall

vars == <<argv, place, qbytes, msgs, narg, enabled, call>>

NoCall == [run |-> "none"]

\* Where the program stops: main returned 0 or 1, an exception nobody
\* catches ended it, or the tests run.
Ends == {"returned_0", "returned_1", "aborted", "own", "google"}

Init ==
  /\ argv \in Argvs
  /\ place = "main"
  /\ qbytes = 0 /\ msgs = 0 /\ narg = 0
  /\ enabled = {}
  /\ call = NoCall

\* is_help.
IsHelp(arg) == arg.number = -1 /\ arg.word \in {"help", "--help", "-h"}
Names(arg, name) == arg.number = -1 /\ arg.word = name

Return(code) ==
  /\ place' = IF code = 0 THEN "returned_0" ELSE "returned_1"
  /\ UNCHANGED <<argv, qbytes, msgs, narg, enabled, call>>

\* mutant: the range is not looked at
IsNumber(arg) == arg.number >= 0

\* strtosize_t, on the part of an argument that stoull reads: whatever
\* follows the number is not looked at.
IsSize(arg) == arg.number \in 0..U64Mod - 1

-----------------------------------------------------------------------------
(* main and parse_qbytes.                                                  *)

CheckArguments ==
  /\ place = "main"
  /\ IF Len(argv) < 3 THEN Return(1)
     ELSE IF \E i \in 1..3 : IsHelp(argv[i]) THEN Return(0)
     ELSE /\ place' = "size"
          /\ UNCHANGED <<argv, qbytes, msgs, narg, enabled, call>>

\* mutant: a suffix counts only where the number ends
EndsWithNext(arg, suffix) == arg.single \/ arg.word = suffix

\* ENDSWITHLIT: the last occurrence is at the end, whatever is before it. Of
\* one character, rfind finds nothing and returns npos, which size() - 2 is too.
EndsWith(arg, suffix) == arg.single \/ arg.suffix = suffix

\* mutant: megabytes are taken for kilobytes
FactorOfKilo(arg) ==
  IF EndsWith(arg, "gb") THEN Kilo * Kilo * Kilo
  ELSE IF EndsWith(arg, "mb") \/ EndsWith(arg, "kb") THEN Kilo
  ELSE 1

\* The last suffix that matches counts.
Factor(arg) ==
  IF EndsWith(arg, "gb") THEN Kilo * Kilo * Kilo
  ELSE IF EndsWith(arg, "mb") THEN Kilo * Kilo
  ELSE IF EndsWith(arg, "kb") THEN Kilo
  ELSE 1

\* parse_qbytes; s.erase (s.size() - 2) throws if there are not two
\* characters.  The product is taken modulo 2^64, and then found in range.
ParseSize ==
  /\ place = "size"
  /\ IF Factor(argv[1]) # 1 /\ argv[1].single
     THEN /\ place' = "aborted"
          /\ UNCHANGED <<argv, qbytes, msgs, narg, enabled, call>>
     ELSE IF ~IsSize(argv[1]) THEN Return(1)
     ELSE /\ qbytes' = ToU64(argv[1].number * Factor(argv[1]))
          /\ place' = "count"
          /\ UNCHANGED <<argv, msgs, narg, enabled, call>>

ParseCount ==
  /\ place = "count"
  /\ IF ~IsSize(argv[2]) THEN Return(1)
     ELSE /\ msgs' = argv[2].number
          /\ place' = "subcommand"
          /\ UNCHANGED <<argv, qbytes, narg, enabled, call>>

OnlyMaxThreads == Names(argv[3], "own-max-threads-only")

Dispatch ==
  /\ place = "subcommand"
  /\ IF Names(argv[3], "own") \/ OnlyMaxThreads
     THEN place' = "parse_args" /\ UNCHANGED <<argv, qbytes, msgs, narg, enabled, call>>
     ELSE IF Names(argv[3], "google")
     THEN place' = "gbench" /\ UNCHANGED <<argv, qbytes, msgs, narg, enabled, call>>
     ELSE Return(1)

-----------------------------------------------------------------------------
(* own_subcommand and parse_args; argv[3] is the subcommand.               *)

\* mutant: any message will do
TooFewAtAll(n) == n < 1

\* msgs < max_threads.
TooFew(n) == n < MaxThreads

All == {LoggerNames[i] : i \in 1..Len(LoggerNames)}

\* The checks before the loop over the logger types, in their order.
Refused ==
  \/ Len(argv) < 4
  \/ ~IsSize(argv[4])
  \/ TooFew(msgs)
  \/ Len(argv) < 5

ParseArgs ==
  /\ place = "parse_args"
  /\ IF \E i \in 4..Len(argv) : IsHelp(argv[i]) THEN Return(0)
     ELSE IF Refused THEN Return(1)
     ELSE LET has_all == Len(argv) = 5 /\ Names(argv[5], "all")
          IN  /\ enabled' = IF has_all THEN All ELSE {}
              /\ narg' = IF has_all THEN 6 ELSE 5
              /\ place' = "select"
              /\ UNCHANGED <<argv, qbytes, msgs, call>>

\* mutant: forgets the types before
SelectOnlyLast ==
  /\ place = "select" /\ narg <= Len(argv)
  /\ IF argv[narg].word \notin All THEN Return(1)
     ELSE /\ enabled' = {argv[narg].word}
          /\ narg' = narg + 1
          /\ UNCHANGED <<argv, place, qbytes, msgs, call>>

\* One turn of the loop over the types: "all" is refused among others, and
\* so is what names no logger.
Select ==
  /\ place = "select" /\ narg <= Len(argv)
  /\ IF ~\E name \in All : Names(argv[narg], name) THEN Return(1)
     ELSE /\ enabled' = enabled \cup {argv[narg].word}
          /\ narg' = narg + 1
          /\ UNCHANGED <<argv, place, qbytes, msgs, call>>

\* main hands the size_t over as an int (qsize), run_tests takes a size_t:
\* the lower half of the width is extended by its sign.
Narrowed(n) == ToU64(ToInt(n))

\* mutant: those found later go to the front
SelectedBackwards(names, chosen) ==
  FoldLeft(LAMBDA sel, name : IF name \in chosen THEN <<name>> \o sel ELSE sel, <<>>, names)

\* The loop that moves the loggers enabled to a vector of their own.
Selected(names, chosen) ==
  FoldLeft(LAMBDA sel, name : IF name \in chosen THEN Append(sel, name) ELSE sel, <<>>, names)

\* run_tests; its iterations are an int, too.
OwnCall ==
  [run |-> "own", msgs |-> msgs, iterations |-> ToInt(argv[4].number),
   mem_bytes |-> Narrowed(qbytes),
   loggers |-> Selected(LoggerNames, enabled),
   threads |-> IF OnlyMaxThreads THEN <<MaxThreads>> ELSE ThreadCountSeq]

\* mutant: two of three numbers in a row are swapped
RunOwnSwapped ==
  /\ place = "select" /\ narg > Len(argv)
  /\ place' = "own"
  /\ call' = [OwnCall EXCEPT !.msgs = argv[4].number, !.iterations = ToInt(msgs)]
  /\ UNCHANGED <<argv, qbytes, msgs, narg, enabled>>

\* An int below zero is a number of cells (a size_t) that new cannot allocate.
RunOwn ==
  /\ place = "select" /\ narg > Len(argv)
  /\ IF OwnCall.iterations < 0
     THEN place' = "aborted" /\ UNCHANGED call
     ELSE place' = "own" /\ call' = OwnCall
  /\ UNCHANGED <<argv, qbytes, msgs, narg, enabled>>

\* Iterations is not called: the library chooses.
Chosen == -1

\* mutant: the messages are not divided
RegisterUndivided(l, t) ==
  [logger |-> LoggerNames[l], threads |-> ThreadCountSeq[t],
   iterations |-> IF msgs = 0 THEN Chosen ELSE msgs]

\* RegisterBenchmark, Threads and Iterations: Google Benchmark gives every
\* thread of a run that many turns of the loop.
Register(l, t) ==
  [logger |-> LoggerNames[l], threads |-> ThreadCountSeq[t],
   iterations |-> IF msgs = 0 THEN Chosen ELSE msgs \div ThreadCountSeq[t]]

\* gbench_subcommand: the library refuses arguments it does not know; every
\* logger is registered with every thread count.
RunGoogle ==
  /\ place = "gbench"
  /\ IF msgs # 0 /\ TooFew(msgs) THEN Return(1)
     ELSE \/ Len(argv) > 3 /\ Return(1)
          \/ /\ place' = "google"
             /\ call' = [run |-> "google", mem_bytes |-> Narrowed(qbytes),
                         runs |-> [l \in 1..Len(LoggerNames) |->
                                    [t \in 1..Len(ThreadCountSeq) |-> Register(l, t)]]]
             /\ UNCHANGED <<argv, qbytes, msgs, narg, enabled>>

\* The percentiles of the repetitions of a run: the index into n sorted
\* values, of which there is at least one.
StatisticIndex(n, percent) == (n * percent) \div 100

Next ==
  \/ CheckArguments \/ ParseSize \/ ParseCount \/ Dispatch
  \/ ParseArgs \/ Select \/ RunOwn
  \/ RunGoogle

Spec == Init /\ [][Next]_vars

-----------------------------------------------------------------------------
TypeOK ==
  /\ argv \in Argvs
  /\ place \in Ends \cup {"main", "size", "count", "subcommand", "parse_args",
                          "select", "gbench"}
  /\ qbytes \in 0..U64Mod - 1 /\ msgs \in 0..U64Mod - 1
  /\ narg \in 0..Len(argv) + 1
  /\ enabled \subseteq All
  /\ place \in {"own", "google"} <=> call # NoCall

\* However the arguments are written, the tests that start give every thread
\* of every thread count at least one message (a latency test of none would
\* loop for ever); so does Google Benchmark, unless it is left to choose.
EveryThreadHasWork ==
  /\ call.run = "own" =>
       \A i \in 1..Len(call.threads) : call.msgs \div call.threads[i] >= 1
  /\ call.run = "google" =>
       \A l \in 1..Len(LoggerNames), t \in 1..Len(ThreadCountSeq) :
         call.runs[l][t].iterations >= 1 \/ call.runs[l][t].iterations = Chosen

\* The tests log no more messages than the user asked for, whichever number of
\* the three on the command line ends up where; the own tests make as many
\* iterations as were asked for if an int holds them, and never a negative
\* number of them, whatever was asked for.
NumbersKept ==
  /\ call.run = "own" =>
       /\ call.msgs = argv[2].number
       /\ call.iterations >= 0
       /\ argv[4].number < U32Mod \div 2 => call.iterations = argv[4].number
  /\ call.run = "google" =>
       \A l \in 1..Len(LoggerNames), t \in 1..Len(ThreadCountSeq) :
         call.runs[l][t].iterations * call.runs[l][t].threads <= argv[2].number

\* Those that come first are those that the program has first.
InOrder(loggers) ==
  \A i, j \in 1..Len(loggers), p, q \in 1..Len(LoggerNames) :
    i < j /\ loggers[i] = LoggerNames[p] /\ loggers[j] = LoggerNames[q] => p < q

\* The own tests run on each logger named and on no other, in the order of
\* init_logvector and so each once, however often and in whatever order they
\* are named; on all of them if that is the only type.
LoggersAsNamed ==
  call.run = "own" =>
    /\ InOrder(call.loggers)
    /\ {call.loggers[i] : i \in 1..Len(call.loggers)} =
         IF Names(argv[5], "all") THEN All
         ELSE {argv[i].word : i \in 5..Len(argv)}

\* The memory the user asks for: the number the size begins with, in the unit
\* it ends with.
Asked ==
  argv[1].number * (CASE argv[1].suffix = "kb" -> Kilo
                      [] argv[1].suffix = "mb" -> Kilo * Kilo
                      [] argv[1].suffix = "gb" -> Kilo * Kilo * Kilo
                      [] OTHER -> 1)

\* A size below 2^31 reaches the loggers as it was asked for.
SizesOfIntKept ==
  (call # NoCall /\ Asked < U32Mod \div 2) => call.mem_bytes = Asked

\* So does any other (print_main_help: "recommended memory usage in bytes to
\* be used by each logger. Accepts kB, MB and GB suffixes.").
SizesKept == call # NoCall => call.mem_bytes = Asked

\* A size is taken or refused; the program does not fall over it.
NeverAborts == place # "aborted"
=============================================================================
