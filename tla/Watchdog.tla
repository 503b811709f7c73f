------------------------------ MODULE Watchdog ------------------------------
(***************************************************************************)
(* The sampling watchdogs: startRssGroupWatchdog kills a process group     *)
(* whose resident set exceeds the memory budget, startDiskWriteWatchdog    *)
(* the tree whose granted directory exceeds the write budget.  The two are *)
(* the same loop around a sampler, and are modelled as one.                *)
(*                                                                         *)
(* The group runs beside the event loop.  Between two ticks of the timer   *)
(* it can use up to Rate more than it did, and a sample can come out null. *)
(***************************************************************************)
EXTENDS Naturals

CONSTANTS
  Limit,     \* the budget, in the units of the sampler
  Rate,      \* the most the group can add between two ticks
  MaxMisses, \* bounds the consecutive null samples
  MaxUsage   \* bounds the usage

ASSUME BudgetAssumption == Limit \in Nat /\ Rate \in Nat
ASSUME WatchBounds == MaxMisses \in Nat /\ MaxUsage \in Nat

VARIABLES
  group,    \* "alive", "doomed" (signalled, not dead yet) or "dead"
  usage,    \* what the group really uses
  grown,    \* what it has added since the last tick
  unseen,   \* history: what it has added since the last sample
  misses,   \* history: the null samples since the last sample
  stopped,  \* the flag of the closure
  breaches, \* how often onBreach was called
  closed    \* the runner has seen the process close

watchVars == <<group, usage, grown, unseen, misses, stopped, breaches, closed>>

WatchTypeOK ==
  /\ group \in {"alive", "doomed", "dead"}
  /\ usage \in Nat /\ grown \in Nat /\ unseen \in Nat /\ misses \in Nat
  /\ stopped \in BOOLEAN /\ closed \in BOOLEAN
  /\ breaches \in Nat

WatchInit ==
  /\ group = "alive"
  /\ usage = 0 /\ grown = 0 /\ unseen = 0 /\ misses = 0
  /\ stopped = FALSE /\ closed = FALSE
  /\ breaches = 0

\* The group allocates (or writes); a group that was signalled can still do so
\* until the signal is delivered.
Grow(n) ==
  /\ group # "dead"
  /\ grown + n <= Rate
  /\ usage + n <= MaxUsage
  /\ usage' = usage + n
  /\ grown' = grown + n
  /\ unseen' = unseen + n
  /\ UNCHANGED <<group, misses, stopped, breaches, closed>>

\* The group frees (or deletes).
Shrink(n) ==
  /\ group # "dead" /\ n <= usage
  /\ usage' = usage - n
  /\ UNCHANGED <<group, grown, unseen, misses, stopped, breaches, closed>>

GroupExits ==
  /\ group # "dead"
  /\ group' = "dead"
  /\ UNCHANGED <<usage, grown, unseen, misses, stopped, breaches, closed>>

\* onBreach kills the group, or throws into the empty catch.
Signalled ==
  \/ group' = group
  \/ group = "alive" /\ group' = "doomed"

\* As TickOver, had the loop called onBreach without stopping itself.
TickOverGoesOn ==
  /\ ~stopped /\ usage > Limit
  /\ breaches' = breaches + 1
  /\ Signalled
  /\ grown' = 0 /\ unseen' = 0 /\ misses' = 0
  /\ UNCHANGED <<usage, stopped, closed>>

\* A tick whose sample is over the budget: stop, then call onBreach.  What a
\* group has written stays when it is dead, so this can come after its exit.
TickOver ==
  /\ ~stopped /\ usage > Limit
  /\ stopped' = TRUE
  /\ breaches' = breaches + 1
  /\ Signalled
  /\ grown' = 0 /\ unseen' = 0 /\ misses' = 0
  /\ UNCHANGED <<usage, closed>>

\* As TickWithin, with the comparison off by one interval of growth.
TickWithinLate ==
  /\ ~stopped /\ usage <= Limit + Rate
  /\ grown' = 0 /\ unseen' = 0 /\ misses' = 0
  /\ UNCHANGED <<group, usage, stopped, breaches, closed>>

\* A tick whose sample is within the budget.
TickWithin ==
  /\ ~stopped /\ usage <= Limit
  /\ grown' = 0 /\ unseen' = 0 /\ misses' = 0
  /\ UNCHANGED <<group, usage, stopped, breaches, closed>>

\* As TickNull, had the watchdog given up on the first null sample.
TickNullGivesUp ==
  /\ ~stopped
  /\ misses < MaxMisses
  /\ stopped' = TRUE
  /\ grown' = 0
  /\ misses' = misses + 1
  /\ UNCHANGED <<group, usage, unseen, breaches, closed>>

\* A tick whose sample is null, because ps failed or timed out, the directory
\* could not be read, or no member is left.
TickNull ==
  /\ ~stopped
  /\ misses < MaxMisses
  /\ grown' = 0
  /\ misses' = misses + 1
  /\ UNCHANGED <<group, usage, unseen, stopped, breaches, closed>>

\* The runner sees the close of the process and stops the watchdog.
Stop ==
  /\ group = "dead" /\ ~closed
  /\ closed' = TRUE
  /\ stopped' = TRUE
  /\ UNCHANGED <<group, usage, grown, unseen, misses, breaches>>

WatchNext ==
  \/ \E n \in 1..Rate : Grow(n)
  \/ \E n \in 1..Limit : Shrink(n)
  \/ GroupExits \/ TickOver \/ TickWithin \/ TickNull \/ Stop

WatchSpec == WatchInit /\ [][WatchNext]_watchVars

\* The timer keeps firing, a sampler that keeps being asked answers in the end,
\* a signal that was sent is delivered, and a close is noticed.
WatchFairness ==
  /\ SF_watchVars(TickOver)
  /\ WF_watchVars(group = "doomed" /\ GroupExits) /\ WF_watchVars(Stop)

FairWatchSpec == WatchSpec /\ WatchFairness

-----------------------------------------------------------------------------

\* The watchdog is a best-effort tier, and this is the effort: while it is on,
\* the group is over its budget by no more than what it can add in the interval
\* under way and in one more for each sample that came out null.
OvershootBounded ==
  ~stopped => usage <= Limit + Rate * misses + Rate

\* onBreach is called at most once, and nothing is sampled after it.
BreachesOnce == breaches <= 1 /\ (breaches = 1 => stopped)

\* A group that stays over its budget is not left alone: it is brought back,
\* ends, or onBreach is called on it.
OverBudgetIsNoticed ==
  (usage > Limit /\ group = "alive") ~> (usage <= Limit \/ group = "dead" \/ breaches = 1)

-----------------------------------------------------------------------------
(* What OvershootBounded rests on: the growth not seen yet.                *)

UnseenBound ==
  /\ grown <= Rate
  /\ unseen <= Rate * misses + grown
  /\ ~stopped => usage <= Limit + unseen

GrowthIInv == WatchTypeOK /\ UnseenBound /\ BreachesOnce

=============================================================================
