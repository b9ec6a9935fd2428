--------------------------- MODULE MCCommandLine ---------------------------
(***************************************************************************)
(* CommandLine for TLC: every combination of a few sizes, message counts,  *)
(* subcommands and endings.  Kilo, U32Mod and U64Mod are 2^2, 2^8 and 2^16 *)
(* for 2^10, 2^32 and 2^64: a gigabyte is a quarter of the narrow width.   *)
(***************************************************************************)
EXTENDS CommandLine

\* The suffix a string ends with, for the strings used here.
SuffixOf(w) ==
  CASE w \in {"kb", "xkb"} -> "kb"
    [] w \in {"mb", ".5mb", " mb"} -> "mb"
    [] w = "gb" -> "gb"
    [] OTHER -> ""

Word(w) == [number |-> -1, word |-> w, suffix |-> SuffixOf(w), single |-> FALSE]
Number(n, w) ==
  [number |-> n, word |-> w, suffix |-> SuffixOf(w), single |-> n < 10 /\ w = ""]

MCLoggerNames == <<"malc-tls", "mal-heap", "glog">>
MCThreadCountSeq == <<1, 2, 4>>

MCSizes ==
  {Number(16, ""), Number(8, ""), Number(8, "kb"), Number(2, "mb"), Number(1, "gb"),
   Number(2, "gb"), Number(70000, ""), Number(3, "tb"), Number(3, ".5mb"),
   Number(2, " mb"), Number(12, "xkb"), Word("kb"), Word("-h")}
MCSmallSizes == {Number(16, ""), Number(2, "gb")}
MCCounts ==
  {Number(0, ""), Number(3, ""), Number(4, ""), Number(30, "kb"), Number(70000, ""), Word("many")}
MCEndings ==
  {<<Word("google")>>, <<Word("google"), Word("--v")>>, <<Word("own")>>, <<Word("other")>>}
  \cup {<<Word(sub), Number(2, "")>> \o types :
          sub \in {"own", "own-max-threads-only"},
          types \in {<<>>, <<Word("all")>>, <<Word("help")>>, <<Word("mal-heap")>>,
                     <<Word("all"), Word("glog")>>, <<Word("glog"), Word("malc-tls")>>,
                     <<Word("glog"), Word("glog")>>, <<Word("glog"), Word("no-log")>>}}

Vectors(sizes) ==
  {<<Number(16, ""), Number(4, "")>>}
    \cup {<<size, count>> \o ending : size \in sizes, count \in MCCounts, ending \in MCEndings}

\* Iteration counts at the edges of the width of an int.
MCManyIterations ==
  {<<Number(16, ""), count, Word("own"), Number(n, ""), Word("all")>> :
     count \in MCCounts, n \in {0, 7, 127, 128, 255, 256, 258, 70000}}

MCSmallArgvs == Vectors(MCSmallSizes)
MCSizeArgvs == Vectors(MCSizes)
MCArgvs == MCSizeArgvs \cup MCManyIterations
=============================================================================
