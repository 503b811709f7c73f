----------------------------- MODULE RlimitScript -----------------------------
(***************************************************************************)
(* The rlimit wrapper: the limits derived from a request, and the shell    *)
(* script that sets them, each clamped to the hard limit of the host,      *)
(* before it becomes the command.                                          *)
(***************************************************************************)
EXTENDS Integers, Sequences

CONSTANTS
  DefaultCpu,   \* DEFAULT_CPU_SECONDS
  CpuPerWall,   \* CPU_SECONDS_PER_WALL_SECOND
  MinCpu,       \* MIN_CPU_SECONDS
  FileBlocks,   \* DEFAULT_FILE_SIZE_BLOCKS
  OpenFiles,    \* DEFAULT_OPEN_FILES
  Headroom,     \* RLIMIT_NPROC_HEADROOM
  MaxSafe,      \* stands for the largest safe integer
  Unlimited     \* of a host's hard limit: more than anything asked for

ASSUME RlimitAssumption ==
  /\ {DefaultCpu, MinCpu, FileBlocks, OpenFiles, Headroom, MaxSafe, Unlimited} \subseteq Nat
  /\ CpuPerWall \in Nat \ {0}
  /\ MinCpu <= DefaultCpu * CpuPerWall /\ Unlimited > MaxSafe

MaxCpu == DefaultCpu * CpuPerWall
Smaller(a, b) == IF a < b THEN a ELSE b
Larger(a, b) == IF a > b THEN a ELSE b

Limits == {"t", "f", "n", "v", "proc"}
Seconds(ms) == (ms + 999) \div 1000

\* The CPU budget of a timeout; 0 stands for none.
CpuSeconds(ms) ==
  IF ms > 0 THEN Smaller(MaxCpu, Larger(MinCpu, CpuPerWall * Seconds(ms)))
  ELSE DefaultCpu

\* rlimitValuesFromResources.
Wanted(r, enforceMemory) ==
  [l \in {"f", "n", "proc"} \cup {k \in {"t"} : ~ r.longLived}
           \cup {k \in {"v"} : enforceMemory /\ r.memoryMb > 0} |->
     CASE l = "t" -> CpuSeconds(r.timeoutMs)
       [] l = "f" -> FileBlocks
       [] l = "n" -> OpenFiles
       [] l = "v" -> r.memoryMb * 1024
       [] l = "proc" -> Headroom + Larger(1, r.maxProcesses)]

\* assertLimitValue throws on anything else.
Valid(wanted) == \A l \in DOMAIN wanted : wanted[l] \in 1..MaxSafe

\* As Script, had the process limit come first.
ScriptProcFirst == <<"proc", "t", "f", "n", "v">>

\* The order of buildRlimitScript.
Script == <<"t", "f", "n", "v", "proc">>

\* One call of the clamp helper.  It reads the hard limit in a subshell, and
\* takes no answer for no limit; the shell must know the flag, and cannot go
\* above the hard limit.  <<>> is what is left of a chain that broke.
SetLimit(host, wanted, limits, l) ==
  LET read == limits["proc"] > host.busy
      v == IF read THEN Smaller(wanted[l], limits[l]) ELSE wanted[l]
  IN IF l \in host.flags /\ v <= limits[l] THEN [limits EXCEPT ![l] = v] ELSE <<>>

\* One entry of the && chain: one of Script that was asked for, if nothing
\* broke before.
Entry(host, wanted, limits, l) ==
  IF l \notin DOMAIN wanted \/ limits = <<>> THEN limits
  ELSE SetLimit(host, wanted, limits, l)

\* The limits under which the command is run, or <<>>: it is not run.
RunScript(host, wanted) ==
  LET next(limits, i) == Entry(host, wanted, limits, Script[i])
  IN next(next(next(next(next(host.hard, 1), 2), 3), 4), 5)

\* _runRlimitProbe: the wrapper with small limits, read back by what it runs.
ProbeValues(enforceMemory) ==
  [l \in Limits \ {k \in {"v"} : ~ enforceMemory} |->
     CASE l = "t" -> 9 [] l = "f" -> 8 [] l = "n" -> 256
       [] l = "v" -> 1048576 [] l = "proc" -> Headroom + 16]

RlimitProbe(host, enforceMemory) ==
  LET wanted == ProbeValues(enforceMemory)
      limits == RunScript(host, wanted)
  IN limits # <<>> /\ \A l \in DOMAIN wanted \ {"proc"} : limits[l] = wanted[l]

=============================================================================
