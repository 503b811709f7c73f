-------------------------- MODULE GroupProbes_proofs --------------------------
(* Proofs about GroupProbes, for any length of the polls and any number of  *)
(* passing faults, about the watchdogs they vouch for (Watchdog), for any   *)
(* budget, rate and run of null samples, and about the sampler of one of    *)
(* these (DirectorySample), for any depth of directories and any files.     *)
EXTENDS GroupProbes, Watchdog, DirectorySample, TLAPS, FiniteSetTheorems

USE BoundsAssumption

-----------------------------------------------------------------------------
(* The inductive invariant.                                                *)

\* The pid of the leader is its own until the probe is over.
OwnPids ==
  /\ proc["leader"] = "gone" => pc = "done"
  /\ stranger => proc["leader"] = "gone"
  /\ ~ hit
  /\ proc["leader"] = "none" => proc["descendant"] = "none"

\* What a stage of a probe has behind it.
Stages ==
  /\ kind = "memory" => pc \in {"tight", "loose", "clean", "done"}
  /\ pc \in {"tight", "loose"} => kind = "memory"
  /\ pc = "alive" => kind = "descKill"
  /\ pc = "breach" => kind = "disk"
  /\ pc \in {"alive", "breach", "kill", "reap"} => recorded
  /\ pc \in {"kill", "reap"} /\ kind \in {"rss", "disk"} => measured
  /\ signalled => pc \in {"reap", "clean", "done"}
  /\ pc = "loose" /\ faults = 0 => host.runs /\ (host.acts \/ host.memory # "large")

\* What a record or a sample says of the host and the group.
Traces ==
  /\ Fits(kind, host)
  /\ recorded => /\ host.runs /\ proc["leader"] # "none"
                 /\ kind # "disk" => proc["descendant"] # "none"
  /\ measured => host.measures
  /\ pc = "reap" => signalled

\* An undisturbed group stays as it was until a signal ends it.
Unharmed ==
  /\ faults = 0 /\ host.lasts /\ (~ signalled \/ ~ host.acts) =>
       /\ proc["descendant"] \in {"none", "running"}
       /\ host.runs => proc["leader"] \in {"none", "running"}
  /\ pc = "reap" /\ host.acts => \A p \in Group : proc[p] # "running"
  /\ pc = "reap" /\ host.acts /\ host.reaps /\ proc["descendant"] = "zombie" => waited = 0

Answers == ProvedControlsAct /\ WorkingControlsAreProved /\ NothingRunsAfterProbe

IInv == OwnPids /\ Stages /\ Traces /\ Unharmed /\ Answers

\* The types follow from the types and the stages.
LEMMA TypeStep ==
  ASSUME TypeOK, Stages, [Next]_vars
  PROVE  TypeOK'
<1> USE DEF TypeOK, Kinds, Group, fixed, seen, pids
<1>1. CASE SpawnGroup
  BY <1>1 DEF SpawnGroup, Fault, Ends, Goes
<1>2. CASE RecordSeen
  <2>1. kind # "memory"
    BY <1>2 DEF RecordSeen, Stages
  <2>2. pc' \in {"alive", "kill", "breach"} /\ waited' = 0 /\ verdict' = verdict
    BY <1>2, <2>1 DEF RecordSeen, Goes
  <2>3. QED
    BY <1>2, <2>2 DEF RecordSeen
<1>3. CASE LookAlive
  BY <1>3 DEF LookAlive, IsAlive, Subject, Running, Ends, Goes
<1>4. CASE BreachSeen
  BY <1>4 DEF BreachSeen, Goes
<1>5. CASE Kill
  <2>1. proc' \in [Group -> {"none", "running", "zombie", "gone"}]
    BY <1>5 DEF Kill, Signal, Dies, Running
  <2>2. hit' \in BOOLEAN /\ signalled' \in BOOLEAN /\ stranger' = stranger
    BY <1>5 DEF Kill, Hits
  <2>3. pc' \in {"reap", "clean"} /\ verdict' \in {verdict, "no"} /\ waited' \in {0, waited}
    BY <1>5 DEF Kill, Ends, Goes
  <2>4. UNCHANGED <<kind, host, recorded, measured, faults>>
    BY <1>5 DEF Kill
  <2>5. QED
    BY <2>1, <2>2, <2>3, <2>4
<1>6. CASE Gone
  BY <1>6 DEF Gone, IsAlive, Subject, Running, Ends
<1>7. CASE PollTimesOut
  BY <1>7 DEF PollTimesOut, Recorded, IsAlive, Subject, Running, Ends
<1>8. CASE CleanUp
  BY <1>8 DEF CleanUp, Signal, Hits, Dies, Running
<1>9. CASE TightLeg
  BY <1>9 DEF TightLeg, Fault, Ends, Goes
<1>10. CASE LooseLeg
  BY <1>10 DEF LooseLeg, Fault, Ends
<1>11. CASE Sample
  BY <1>11 DEF Sample, Running
<1>12. CASE LeaderActs
  <2>1. proc' \in [Group -> {"none", "running", "zombie", "gone"}]
    BY <1>12 DEF LeaderActs
  <2>2. recorded' \in BOOLEAN
    BY <1>12 DEF LeaderActs
  <2>3. QED
    BY <1>12, <2>1, <2>2 DEF LeaderActs
<1>13. CASE Exits
  BY <1>13 DEF Exits, Dies, Running
<1>14. CASE Reap
  BY <1>14 DEF Reap, Running
<1>15. CASE EventLoop
  BY <1>15 DEF EventLoop, WaitForLeader
<1>16. CASE PidIsReused
  BY <1>16 DEF PidIsReused
<1>17. CASE Struck
  BY <1>17 DEF Struck, Fault, Dies, Running
<1>18. CASE Tick
  BY <1>18 DEF Tick
<1>19. CASE UNCHANGED vars
  BY <1>19 DEF vars
<1>20. QED
  BY <1>1, <1>2, <1>3, <1>4, <1>5, <1>6, <1>7, <1>8, <1>9, <1>10, <1>11, <1>12, <1>13, <1>14, <1>15, <1>16, <1>17, <1>18, <1>19 DEF Next, Probe

\* The types and the invariant are inductive together.
THEOREM Invariance == Spec => [](TypeOK /\ IInv)
<1> USE DEF TypeOK, Kinds, Group
<1>1. Init => TypeOK /\ IInv
  <2> SUFFICES ASSUME Init PROVE TypeOK /\ IInv
    OBVIOUS
  <2>1. kind \in Kinds /\ host \in Hosts /\ Fits(kind, host)
    BY DEF Init
  <2>2. pc \in {"tight", "spawn"} /\ proc \in [Group -> {"none"}]
    BY DEF Init
  <2>3. TypeOK
    <3>1. /\ recorded \in BOOLEAN /\ measured \in BOOLEAN
          /\ signalled \in BOOLEAN /\ stranger \in BOOLEAN /\ hit \in BOOLEAN
      BY DEF Init
    <3>2. waited \in 0 .. Window /\ faults \in 0 .. MaxFaults
      BY DEF Init
    <3>3. proc \in [Group -> {"none", "running", "zombie", "gone"}]
      BY DEF Init
    <3>4. verdict = "none"
      BY DEF Init
    <3>5. QED
      BY <2>1, <2>2, <3>1, <3>2, <3>3, <3>4
  <2>4. IInv
    BY <2>1 DEF Init, IInv, OwnPids, Stages, Traces, Unharmed, Answers,
                ProvedControlsAct, WorkingControlsAreProved, NothingRunsAfterProbe, Running
  <2>5. QED
    BY <2>3, <2>4
<1>2. TypeOK /\ IInv /\ [Next]_vars => IInv'
  <2> USE DEF Hosts
  <2> SUFFICES ASSUME TypeOK, IInv, [Next]_vars PROVE IInv'
    OBVIOUS
  <2> USE DEF fixed, seen, pids, IInv
  <2>1. CASE SpawnGroup
    <3>1. OwnPids'
      BY <2>1 DEF SpawnGroup, Fault, Ends, Goes, OwnPids
    <3>2. Stages'
      BY <2>1 DEF SpawnGroup, Fault, Ends, Goes, Stages
    <3>3. Traces'
      BY <2>1 DEF SpawnGroup, Fault, Ends, Goes, Traces, Stages, OwnPids, Fits
    <3>4. Unharmed'
      BY <2>1 DEF SpawnGroup, Fault, Ends, Goes, Unharmed, Stages, Traces, OwnPids
    <3>5. Answers'
      BY <2>1 DEF SpawnGroup, Fault, Ends, Goes, Answers, ProvedControlsAct,
                  WorkingControlsAreProved, NothingRunsAfterProbe, Running, OwnPids, Stages,
                  Traces, Unharmed, Fits
    <3>6. QED
      BY <3>1, <3>2, <3>3, <3>4, <3>5
  <2>2. CASE RecordSeen
    <3>1. OwnPids'
      BY <2>2 DEF RecordSeen, Recorded, Goes, OwnPids
    <3>2. Stages'
      BY <2>2 DEF RecordSeen, Recorded, Goes, Stages
    <3>3. Traces'
      BY <2>2 DEF RecordSeen, Recorded, Goes, Traces, Stages, OwnPids, Fits
    <3>4. Unharmed'
      BY <2>2 DEF RecordSeen, Recorded, Goes, Unharmed, Stages, Traces, OwnPids
    <3>5. Answers'
      BY <2>2 DEF RecordSeen, Recorded, Goes, Answers, ProvedControlsAct,
                  WorkingControlsAreProved, NothingRunsAfterProbe, Running, OwnPids, Stages,
                  Traces, Unharmed, Fits
    <3>6. QED
      BY <3>1, <3>2, <3>3, <3>4, <3>5
  <2>3. CASE LookAlive
    <3>1. OwnPids'
      BY <2>3 DEF LookAlive, IsAlive, Subject, Running, Ends, Goes, OwnPids
    <3>2. Stages'
      BY <2>3 DEF LookAlive, IsAlive, Subject, Running, Ends, Goes, Stages
    <3>3. Traces'
      BY <2>3 DEF LookAlive, IsAlive, Subject, Running, Ends, Goes, Traces, Stages, OwnPids,
                  Fits
    <3>4. Unharmed'
      BY <2>3 DEF LookAlive, IsAlive, Subject, Running, Ends, Goes, Unharmed, Stages, Traces,
                  OwnPids
    <3>5. Answers'
      BY <2>3 DEF LookAlive, IsAlive, Subject, Running, Ends, Goes, Answers, ProvedControlsAct,
                  WorkingControlsAreProved, NothingRunsAfterProbe, OwnPids, Stages, Traces,
                  Unharmed, Fits
    <3>6. QED
      BY <3>1, <3>2, <3>3, <3>4, <3>5
  <2>4. CASE BreachSeen
    <3>1. OwnPids'
      BY <2>4 DEF BreachSeen, Goes, OwnPids
    <3>2. Stages'
      BY <2>4 DEF BreachSeen, Goes, Stages
    <3>3. Traces'
      BY <2>4 DEF BreachSeen, Goes, Traces, Stages, OwnPids, Fits
    <3>4. Unharmed'
      BY <2>4 DEF BreachSeen, Goes, Unharmed, Stages, Traces, OwnPids
    <3>5. Answers'
      BY <2>4 DEF BreachSeen, Goes, Answers, ProvedControlsAct, WorkingControlsAreProved,
                  NothingRunsAfterProbe, Running, OwnPids, Stages, Traces, Unharmed, Fits
    <3>6. QED
      BY <3>1, <3>2, <3>3, <3>4, <3>5
  <2>5. CASE Kill
    <3>1. OwnPids'
      BY <2>5 DEF Kill, Signal, Hits, Dies, Running, Ends, Goes, OwnPids
    <3>2. Stages'
      BY <2>5 DEF Kill, Signal, Hits, Dies, Running, Ends, Goes, Stages
    <3>3. Traces'
      BY <2>5 DEF Kill, Signal, Hits, Dies, Running, Ends, Goes, Traces, Stages, OwnPids, Fits
    <3>4. Unharmed'
      BY <2>5 DEF Kill, Signal, Hits, Dies, Running, Ends, Goes, Unharmed, Stages, Traces,
                  OwnPids
    <3>5. Answers'
      BY <2>5 DEF Kill, Signal, Hits, Dies, Running, Ends, Goes, Answers, ProvedControlsAct,
                  WorkingControlsAreProved, NothingRunsAfterProbe, OwnPids, Stages, Traces,
                  Unharmed, Fits
    <3>6. QED
      BY <3>1, <3>2, <3>3, <3>4, <3>5
  <2>6. CASE Gone
    <3>1. OwnPids'
      BY <2>6 DEF Gone, IsAlive, Subject, Running, Ends, OwnPids
    <3>2. Stages'
      BY <2>6 DEF Gone, IsAlive, Subject, Running, Ends, Stages
    <3>3. Traces'
      BY <2>6 DEF Gone, IsAlive, Subject, Running, Ends, Traces, Stages, OwnPids, Fits
    <3>4. Unharmed'
      BY <2>6 DEF Gone, IsAlive, Subject, Running, Ends, Unharmed, Stages, Traces, OwnPids
    <3>5. Answers'
      BY <2>6 DEF Gone, IsAlive, Subject, Running, Ends, Answers, ProvedControlsAct,
                  WorkingControlsAreProved, NothingRunsAfterProbe, OwnPids, Stages, Traces,
                  Unharmed, Fits
    <3>6. QED
      BY <3>1, <3>2, <3>3, <3>4, <3>5
  <2>7. CASE PollTimesOut
    <3>1. OwnPids'
      BY <2>7 DEF PollTimesOut, Recorded, IsAlive, Subject, Running, Ends, OwnPids
    <3>2. Stages'
      BY <2>7 DEF PollTimesOut, Recorded, IsAlive, Subject, Running, Ends, Stages
    <3>3. Traces'
      BY <2>7 DEF PollTimesOut, Recorded, IsAlive, Subject, Running, Ends, Traces, Stages,
                  OwnPids, Fits
    <3>4. Unharmed'
      BY <2>7 DEF PollTimesOut, Recorded, IsAlive, Subject, Running, Ends, Unharmed, Stages,
                  Traces, OwnPids
    <3>5. Answers'
      BY <2>7 DEF PollTimesOut, Recorded, IsAlive, Subject, Running, Ends, Answers,
                  ProvedControlsAct, WorkingControlsAreProved, NothingRunsAfterProbe, OwnPids,
                  Stages, Traces, Unharmed, Fits
    <3>6. QED
      BY <3>1, <3>2, <3>3, <3>4, <3>5
  <2>8. CASE CleanUp
    <3>1. OwnPids'
      BY <2>8 DEF CleanUp, Signal, Hits, Dies, Running, OwnPids
    <3>2. Stages'
      BY <2>8 DEF CleanUp, Signal, Hits, Dies, Running, Stages
    <3>3. Traces'
      BY <2>8 DEF CleanUp, Signal, Hits, Dies, Running, Traces, Stages, OwnPids, Fits
    <3>4. Unharmed'
      BY <2>8 DEF CleanUp, Signal, Hits, Dies, Running, Unharmed, Stages, Traces, OwnPids
    <3>5. Answers'
      BY <2>8 DEF CleanUp, Signal, Hits, Dies, Running, Answers, ProvedControlsAct,
                  WorkingControlsAreProved, NothingRunsAfterProbe, OwnPids, Stages, Traces,
                  Unharmed, Fits
    <3>6. QED
      BY <3>1, <3>2, <3>3, <3>4, <3>5
  <2>9. CASE TightLeg
    <3>1. OwnPids'
      BY <2>9 DEF TightLeg, Fault, Ends, Goes, OwnPids
    <3>2. Stages'
      BY <2>9 DEF TightLeg, Fault, Ends, Goes, Stages
    <3>3. Traces'
      BY <2>9 DEF TightLeg, Fault, Ends, Goes, Traces, Stages, OwnPids, Fits
    <3>4. Unharmed'
      BY <2>9 DEF TightLeg, Fault, Ends, Goes, Unharmed, Stages, Traces, OwnPids
    <3>5. Answers'
      BY <2>9 DEF TightLeg, Fault, Ends, Goes, Answers, ProvedControlsAct,
                  WorkingControlsAreProved, NothingRunsAfterProbe, Running, OwnPids, Stages,
                  Traces, Unharmed, Fits
    <3>6. QED
      BY <3>1, <3>2, <3>3, <3>4, <3>5
  <2>10. CASE LooseLeg
    <3>1. OwnPids'
      BY <2>10 DEF LooseLeg, Fault, Ends, OwnPids
    <3>2. Stages'
      BY <2>10 DEF LooseLeg, Fault, Ends, Stages
    <3>3. Traces'
      BY <2>10 DEF LooseLeg, Fault, Ends, Traces, Stages, OwnPids, Fits
    <3>4. Unharmed'
      BY <2>10 DEF LooseLeg, Fault, Ends, Unharmed, Stages, Traces, OwnPids
    <3>5. Answers'
      BY <2>10 DEF LooseLeg, Fault, Ends, Answers, ProvedControlsAct, WorkingControlsAreProved,
                   NothingRunsAfterProbe, Running, OwnPids, Stages, Traces, Unharmed, Fits
    <3>6. QED
      BY <3>1, <3>2, <3>3, <3>4, <3>5
  <2>11. CASE Sample
    <3>1. OwnPids'
      BY <2>11 DEF Sample, Running, OwnPids
    <3>2. Stages'
      BY <2>11 DEF Sample, Running, Stages
    <3>3. Traces'
      BY <2>11 DEF Sample, Running, Traces, Stages, OwnPids, Fits
    <3>4. Unharmed'
      BY <2>11 DEF Sample, Running, Unharmed, Stages, Traces, OwnPids
    <3>5. Answers'
      BY <2>11 DEF Sample, Running, Answers, ProvedControlsAct, WorkingControlsAreProved,
                   NothingRunsAfterProbe, OwnPids, Stages, Traces, Unharmed, Fits
    <3>6. QED
      BY <3>1, <3>2, <3>3, <3>4, <3>5
  <2>12. CASE LeaderActs
    <3>1. OwnPids'
      BY <2>12 DEF LeaderActs, Running, OwnPids
    <3>2. Stages'
      BY <2>12 DEF LeaderActs, Running, Stages
    <3>3. Traces'
      BY <2>12 DEF LeaderActs, Running, Traces, Stages, OwnPids, Fits
    <3>4. Unharmed'
      BY <2>12 DEF LeaderActs, Running, Unharmed, Stages, Traces, OwnPids
    <3>5. Answers'
      BY <2>12 DEF LeaderActs, Running, Answers, ProvedControlsAct, WorkingControlsAreProved,
                   NothingRunsAfterProbe, OwnPids, Stages, Traces, Unharmed, Fits
    <3>6. QED
      BY <3>1, <3>2, <3>3, <3>4, <3>5
  <2>13. CASE Exits
    <3>1. OwnPids'
      BY <2>13 DEF Exits, Dies, Running, OwnPids
    <3>2. Stages'
      BY <2>13 DEF Exits, Dies, Running, Stages
    <3>3. Traces'
      BY <2>13 DEF Exits, Dies, Running, Traces, Stages, OwnPids, Fits
    <3>4. Unharmed'
      BY <2>13 DEF Exits, Dies, Running, Unharmed, Stages, Traces, OwnPids
    <3>5. Answers'
      BY <2>13 DEF Exits, Dies, Running, Answers, ProvedControlsAct, WorkingControlsAreProved,
                   NothingRunsAfterProbe, OwnPids, Stages, Traces, Unharmed, Fits
    <3>6. QED
      BY <3>1, <3>2, <3>3, <3>4, <3>5
  <2>14. CASE Reap
    <3>1. OwnPids'
      BY <2>14 DEF Reap, Running, OwnPids
    <3>2. Stages'
      BY <2>14 DEF Reap, Running, Stages
    <3>3. Traces'
      BY <2>14 DEF Reap, Running, Traces, Stages, OwnPids, Fits
    <3>4. Unharmed'
      BY <2>14 DEF Reap, Running, Unharmed, Stages, Traces, OwnPids
    <3>5. Answers'
      BY <2>14 DEF Reap, Running, Answers, ProvedControlsAct, WorkingControlsAreProved,
                   NothingRunsAfterProbe, OwnPids, Stages, Traces, Unharmed, Fits
    <3>6. QED
      BY <3>1, <3>2, <3>3, <3>4, <3>5
  <2>15. CASE EventLoop
    <3>1. OwnPids'
      BY <2>15 DEF EventLoop, WaitForLeader, OwnPids
    <3>2. Stages'
      BY <2>15 DEF EventLoop, WaitForLeader, Stages
    <3>3. Traces'
      BY <2>15 DEF EventLoop, WaitForLeader, Traces, Stages, OwnPids, Fits
    <3>4. Unharmed'
      BY <2>15 DEF EventLoop, WaitForLeader, Unharmed, Stages, Traces, OwnPids
    <3>5. Answers'
      BY <2>15 DEF EventLoop, WaitForLeader, Answers, ProvedControlsAct,
                   WorkingControlsAreProved, NothingRunsAfterProbe, Running, OwnPids, Stages,
                   Traces, Unharmed, Fits
    <3>6. QED
      BY <3>1, <3>2, <3>3, <3>4, <3>5
  <2>16. CASE PidIsReused
    <3>1. OwnPids'
      BY <2>16 DEF PidIsReused, OwnPids
    <3>2. Stages'
      BY <2>16 DEF PidIsReused, Stages
    <3>3. Traces'
      BY <2>16 DEF PidIsReused, Traces, Stages, OwnPids, Fits
    <3>4. Unharmed'
      BY <2>16 DEF PidIsReused, Unharmed, Stages, Traces, OwnPids
    <3>5. Answers'
      BY <2>16 DEF PidIsReused, Answers, ProvedControlsAct, WorkingControlsAreProved,
                   NothingRunsAfterProbe, Running, OwnPids, Stages, Traces, Unharmed, Fits
    <3>6. QED
      BY <3>1, <3>2, <3>3, <3>4, <3>5
  <2>17. CASE Struck
    <3>1. OwnPids'
      BY <2>17 DEF Struck, Fault, Dies, Running, OwnPids
    <3>2. Stages'
      BY <2>17 DEF Struck, Fault, Dies, Running, Stages
    <3>3. Traces'
      BY <2>17 DEF Struck, Fault, Dies, Running, Traces, Stages, OwnPids, Fits
    <3>4. Unharmed'
      BY <2>17 DEF Struck, Fault, Dies, Running, Unharmed, Stages, Traces, OwnPids
    <3>5. Answers'
      BY <2>17 DEF Struck, Fault, Dies, Running, Answers, ProvedControlsAct,
                   WorkingControlsAreProved, NothingRunsAfterProbe, OwnPids, Stages, Traces,
                   Unharmed, Fits
    <3>6. QED
      BY <3>1, <3>2, <3>3, <3>4, <3>5
  <2>18. CASE Tick
    <3>1. OwnPids'
      BY <2>18 DEF Tick, OwnPids
    <3>2. Stages'
      BY <2>18 DEF Tick, Stages
    <3>3. Traces'
      BY <2>18 DEF Tick, Traces, Stages, OwnPids, Fits
    <3>4. Unharmed'
      BY <2>18 DEF Tick, Unharmed, Stages, Traces, OwnPids
    <3>5. Answers'
      BY <2>18 DEF Tick, Answers, ProvedControlsAct, WorkingControlsAreProved,
                   NothingRunsAfterProbe, Running, OwnPids, Stages, Traces, Unharmed, Fits
    <3>6. QED
      BY <3>1, <3>2, <3>3, <3>4, <3>5
  <2>19. CASE UNCHANGED vars
    BY <2>19 DEF vars, OwnPids, Stages, Traces, Unharmed, Answers, ProvedControlsAct,
                  WorkingControlsAreProved, NothingRunsAfterProbe, Running, Fits
  <2>20. QED
    BY <2>1, <2>2, <2>3, <2>4, <2>5, <2>6, <2>7, <2>8, <2>9, <2>10, <2>11, <2>12, <2>13, <2>14, <2>15, <2>16, <2>17, <2>18, <2>19 DEF Next, Probe
<1>3. QED
  <2>1. TypeOK /\ IInv /\ [Next]_vars => TypeOK'
    BY TypeStep DEF IInv
  <2>2. QED
    BY <1>1, <1>2, <2>1, PTL DEF Spec

\* Every variable keeps its type, and no probe leaves its stages.
THEOREM TypeCorrect == Spec => []TypeOK
BY Invariance, PTL

\* A yes of an undisturbed probe is earned, for any bounds of the polls.
THEOREM Proved == Spec => []ProvedControlsAct
BY Invariance, PTL DEF IInv, Answers

\* An undisturbed probe on a host where everything works says yes once it has
\* signalled, however short its polls.
THEOREM WorkingProved == Spec => []WorkingControlsAreProved
BY Invariance, PTL DEF IInv, Answers

\* Nothing of the group runs after the finally block, whatever faults came.
THEOREM NothingLeft == Spec => []NothingRunsAfterProbe
BY Invariance, PTL DEF IInv, Answers

\* The two signals hit nobody else, whoever gets the pid later.
THEOREM OnlyItsOwn == Spec => []KillsOnlyItsOwn
<1>1. IInv => KillsOnlyItsOwn
  BY DEF IInv, OwnPids, KillsOnlyItsOwn
<1>2. QED
  BY <1>1, Invariance, PTL

-----------------------------------------------------------------------------
(* The probes end: what ProbeEnds rests on, without the fairness.          *)

\* The stages a probe may still have before it.
Later ==
  CASE pc = "spawn" -> 6
    [] pc = "record" -> 5
    [] pc \in {"alive", "breach"} -> 4
    [] pc \in {"kill", "tight"} -> 3
    [] pc \in {"reap", "loose"} -> 2
    [] pc = "clean" -> 1
    [] pc = "done" -> 0

\* A bound on the steps left to the probing thread and its clock: each stage is
\* one step of the thread and Window ticks at most.
Left == Later * (Window + 1) + (Window - waited)

\* Neither the group nor a fault puts a probe back, and every step of the thread
\* and of the clock brings it nearer to its end.
RunsDown == Left' <= Left /\ (Probe \/ Tick => Left' < Left)

\* The thread has a step, or time can pass, or a zombie be waited for.
MayGoOn ==
  \/ pc \in {"spawn", "alive", "clean", "tight", "loose"}
  \/ pc = "record" /\ (Recorded \/ waited = Window)
  \/ pc = "breach" /\ (measured \/ waited = Window)
  \/ pc = "kill" /\ (kind # "disk" \/ Running("leader") \/ \A p \in Group : ~ Running(p))
  \/ pc = "reap" /\ (~ IsAlive \/ waited = Window)
  \/ /\ pc \in {"record", "breach", "reap"} /\ waited < Window
     /\ ~ (pc = "reap" /\ host.reaps /\ proc["descendant"] = "zombie")
  \/ proc["descendant"] = "zombie" /\ (Running("leader") \/ host.reaps)

\* A stage less is worth more than a poll.
LEMMA LessLeft ==
  ASSUME NEW a \in Nat, NEW b \in Nat, a < b, NEW v \in 0 .. Window, NEW w \in 0 .. Window
  PROVE  a * (Window + 1) + (Window - v) < b * (Window + 1) + (Window - w)
<1> DEFINE n == Window + 1
           c == b - (a + 1)
<1>1. n \in Nat /\ c \in Nat /\ b = (a + 1) + c
  OBVIOUS
<1>2. c * n \in Nat /\ a * n \in Nat
  BY <1>1
<1>3. b * n = ((a + 1) + c) * n
  BY <1>1
<1>4. ((a + 1) + c) * n = (a * n + n) + c * n
  BY <1>1
<1>5. Window - v < n /\ Window - w >= 0 /\ Window - v \in Nat /\ Window - w \in Nat
  OBVIOUS
<1> HIDE DEF c
<1>6. a * n + (Window - v) < b * n + (Window - w)
  <2> DEFINE an == a * n
             bn == b * n
             cn == c * n
             x == Window - v
             y == Window - w
  <2>1. an \in Nat /\ cn \in Nat /\ bn = an + n + cn /\ x < n /\ y >= 0 /\ x \in Nat /\ y \in Nat
    BY <1>1, <1>2, <1>3, <1>4, <1>5
  <2> HIDE DEF n, an, bn, cn, x, y
  <2>2. n \in Nat
    BY <1>1
  <2>3. an + x < bn + y
    BY <2>1, <2>2
  <2>4. QED
    BY <2>3 DEF an, bn, x, y
<1>7. QED
  BY <1>6

\* Of at most 6 stages there is no more to come than 7 polls.
LEMMA LeftBound ==
  ASSUME NEW a \in 0 .. 6, NEW w \in 0 .. Window
  PROVE  a * (Window + 1) + (Window - w) \in 0 .. 7 * (Window + 1)
<1>1. a * (Window + 1) + (Window - w) < 7 * (Window + 1) + (Window - Window)
  <2>1. a \in Nat /\ 7 \in Nat /\ a < 7 /\ Window \in 0 .. Window
    OBVIOUS
  <2>2. QED
    BY <2>1, LessLeft
<1>2. a * (Window + 1) \in Nat /\ Window - w \in Nat
  <2>1. a \in Nat /\ Window + 1 \in Nat
    OBVIOUS
  <2>2. QED
    BY <2>1
<1> DEFINE x == a * (Window + 1)
<1> HIDE DEF x
<1>3. x + (Window - w) \in 0 .. 7 * (Window + 1)
  BY <1>1, <1>2 DEF x
<1>4. QED
  BY <1>3 DEF x

\* Every step of the thread leaves a stage behind.
LEMMA StageBehind ==
  ASSUME TypeOK, Stages, Probe
  PROVE  Later \in Nat /\ Later' \in Nat /\ Later' < Later
<1>1. CASE SpawnGroup
  BY <1>1 DEF SpawnGroup, Goes, Ends, Later
<1>2. CASE RecordSeen
  <2>1. pc = "record" /\ pc' \in {"alive", "kill", "breach"}
    BY <1>2 DEF RecordSeen, Goes, Stages, TypeOK, Kinds
  <2>2. QED
    BY <2>1 DEF Later
<1>3. CASE LookAlive \/ BreachSeen
  BY <1>3 DEF LookAlive, BreachSeen, Goes, Ends, Later
<1>4. CASE Kill \/ Gone \/ CleanUp
  BY <1>4 DEF Kill, Gone, CleanUp, Goes, Ends, Later
<1>5. CASE PollTimesOut
  BY <1>5 DEF PollTimesOut, Ends, Later
<1>6. CASE TightLeg \/ LooseLeg
  BY <1>6 DEF TightLeg, LooseLeg, Goes, Ends, Later
<1>7. QED
  BY <1>1, <1>2, <1>3, <1>4, <1>5, <1>6 DEF Probe

\* Within seven stages of Window ticks each the thread of a probe is done, as
\* long as it runs and time passes, whatever its group does (ProbeEnds).
THEOREM ProbeRunsDown == Spec => [](Left \in 0 .. 7 * (Window + 1)) /\ [][RunsDown]_vars
<1>1. TypeOK => Later \in 0 .. 6 /\ Left \in 0 .. 7 * (Window + 1)
  <2> SUFFICES ASSUME TypeOK PROVE Later \in 0 .. 6 /\ Left \in 0 .. 7 * (Window + 1)
    OBVIOUS
  <2>1. Later \in 0 .. 6 /\ waited \in 0 .. Window
    BY DEF TypeOK, Later
  <2> DEFINE x == Later
  <2> HIDE DEF x
  <2>2. x * (Window + 1) + (Window - waited) \in 0 .. 7 * (Window + 1)
    BY <2>1, LeftBound DEF x
  <2>3. QED
    BY <2>1, <2>2 DEF Left, x
<1>2. TypeOK /\ TypeOK' /\ Stages /\ Next => RunsDown
  <2> SUFFICES ASSUME TypeOK, TypeOK', Stages, Next PROVE RunsDown
    OBVIOUS
  <2>0. /\ waited \in 0 .. Window /\ waited' \in 0 .. Window
        /\ Left \in Nat /\ Left' \in Nat /\ Later \in Nat
    <3>1. waited \in 0 .. Window /\ waited' \in 0 .. Window /\ Later' \in 0 .. 6
      BY DEF TypeOK, Later
    <3> DEFINE x == Later'
    <3>2. x \in 0 .. 6
      BY <3>1
    <3> HIDE DEF x
    <3>3. x * (Window + 1) + (Window - waited') \in 0 .. 7 * (Window + 1)
      BY <3>1, <3>2, LeftBound
    <3>4. Left' \in 0 .. 7 * (Window + 1)
      BY <3>3 DEF Left, x
    <3>5. \A k : k \in 0 .. 7 * (Window + 1) => k \in Nat
      OBVIOUS
    <3>6. Left \in Nat /\ Left' \in Nat
      BY <1>1, <3>4, <3>5
    <3>7. QED
      BY <1>1, <3>1, <3>6
  <2>1. ASSUME Probe PROVE Left' < Left
    <3> DEFINE a == Later'
               b == Later
    <3>1. a \in Nat /\ b \in Nat /\ a < b
      BY <2>1, StageBehind
    <3> HIDE DEF a, b
    <3>2. a * (Window + 1) + (Window - waited') < b * (Window + 1) + (Window - waited)
      BY <2>0, <3>1, LessLeft
    <3>3. QED
      BY <3>2 DEF Left, a, b
  <2>2. ASSUME Tick PROVE Left' < Left
    <3>1. Later' = Later /\ waited' = waited + 1
      BY <2>2 DEF Tick, Later
    <3> DEFINE x == Later * (Window + 1)
    <3>2. x \in Nat
      BY <2>0
    <3> HIDE DEF x
    <3>3. x + (Window - waited') < x + (Window - waited)
      BY <2>0, <3>1, <3>2
    <3>4. Left' = x + (Window - waited') /\ Left = x + (Window - waited)
      BY <3>1 DEF Left, x
    <3>5. QED
      BY <3>3, <3>4
  <2>3. ASSUME ~ Probe, ~ Tick PROVE Left' = Left
    <3>1. pc' = pc /\ waited' = waited
      BY <2>3 DEF Next, Sample, LeaderActs, Exits, Reap, EventLoop, WaitForLeader, PidIsReused, Struck
    <3>2. QED
      BY <3>1 DEF Left, Later
  <2>4. QED
    BY <2>0, <2>1, <2>2, <2>3 DEF RunsDown
<1>3. QED
  BY <1>1, <1>2, Invariance, PTL DEF Spec, IInv

\* The writer of the disk probe starts nobody.
WriterIsAlone == kind = "disk" => proc["descendant"] = "none"

\* Nor does anybody else for it.
LEMMA WriterStaysAlone == Spec => []WriterIsAlone
<1>1. Init => WriterIsAlone
  BY DEF Init, WriterIsAlone, Group
<1>2. TypeOK /\ WriterIsAlone /\ [Next]_vars => WriterIsAlone'
  <2> SUFFICES ASSUME TypeOK, WriterIsAlone, [Next]_vars PROVE WriterIsAlone'
    OBVIOUS
  <2> USE DEF TypeOK, WriterIsAlone, Group, Running, Dies, fixed
  <2>1. CASE Probe
    BY <2>1 DEF Probe, SpawnGroup, RecordSeen, LookAlive, BreachSeen, Kill, Gone, PollTimesOut,
       CleanUp, TightLeg, LooseLeg, Signal
  <2>2. CASE Sample \/ LeaderActs
    BY <2>2 DEF Sample, LeaderActs
  <2>3. CASE Exits \/ Reap \/ EventLoop \/ Struck
    BY <2>3 DEF Exits, Reap, EventLoop, WaitForLeader, Struck
  <2>4. CASE PidIsReused \/ Tick \/ UNCHANGED vars
    <3>1. UNCHANGED <<kind, proc>>
      BY <2>4 DEF PidIsReused, Tick, vars
    <3>2. QED
      BY <3>1
  <2>5. QED
    BY <2>1, <2>2, <2>3, <2>4 DEF Next
<1>3. QED
  BY <1>1, <1>2, Invariance, PTL DEF Spec

\* And no probe waits for what may never come: before its end the thread has a
\* step, or time can pass, or somebody's zombie can be waited for.
THEOREM ProbeNeverStuck == Spec => [](pc = "done" \/ MayGoOn)
<1>1. TypeOK /\ WriterIsAlone => pc = "done" \/ MayGoOn
  <2> SUFFICES ASSUME TypeOK, WriterIsAlone, pc # "done" PROVE MayGoOn
    OBVIOUS
  <2>1. waited < Window \/ waited = Window
    BY DEF TypeOK
  <2>2. CASE pc \in {"spawn", "alive", "clean", "tight", "loose"}
    BY <2>2 DEF MayGoOn
  <2>3. CASE pc \in {"record", "breach"}
    BY <2>1, <2>3 DEF MayGoOn
  <2>4. CASE pc = "kill"
    BY <2>4 DEF MayGoOn, WriterIsAlone, Group, Running
  <2>5. CASE pc = "reap"
    BY <2>1, <2>5 DEF MayGoOn
  <2>6. QED
    BY <2>2, <2>3, <2>4, <2>5 DEF TypeOK
<1>2. QED
  BY <1>1, Invariance, WriterStaysAlone, PTL

-----------------------------------------------------------------------------
(* The watchdogs.                                                          *)

USE BudgetAssumption, WatchBounds

\* A null sample moves the growth of its interval behind the samples missed.
LEMMA OneMoreMiss ==
  ASSUME NEW r \in Nat, NEW m \in Nat
  PROVE  r * (m + 1) = r * m + r /\ r * m \in Nat /\ r * 0 = 0
OBVIOUS

\* What the group added since the last sample is what it could add in the
\* intervals since, and a sample within the budget resets the account.
THEOREM WatchInvariance == WatchSpec => []GrowthIInv
<1> USE DEF WatchTypeOK, UnseenBound, BreachesOnce, GrowthIInv
<1>1. WatchInit => GrowthIInv
  <2> SUFFICES ASSUME WatchInit PROVE GrowthIInv
    OBVIOUS
  <2>1. Rate * misses = 0
    BY DEF WatchInit
  <2>2. WatchTypeOK
    BY DEF WatchInit
  <2>3. UnseenBound
    BY <2>1 DEF WatchInit
  <2>4. QED
    BY <2>2, <2>3 DEF WatchInit
<1>2. GrowthIInv /\ [WatchNext]_watchVars => GrowthIInv'
  <2> SUFFICES ASSUME GrowthIInv, [WatchNext]_watchVars PROVE GrowthIInv'
    OBVIOUS
  <2>0. Rate * misses \in Nat /\ Rate * 0 = 0
    BY OneMoreMiss
  <2>1. ASSUME NEW n \in 1..Rate, Grow(n) PROVE GrowthIInv'
    BY <2>0, <2>1 DEF Grow
  <2>2. ASSUME NEW n \in 1..Limit, Shrink(n) PROVE GrowthIInv'
    BY <2>0, <2>2 DEF Shrink
  <2>3. CASE GroupExits
    BY <2>0, <2>3 DEF GroupExits
  <2>4. CASE TickOver
    BY <2>0, <2>4 DEF TickOver, Signalled
  <2>5. CASE TickWithin
    BY <2>0, <2>5 DEF TickWithin
  <2>6. CASE TickNull
    <3>1. Rate * misses' = Rate * misses + Rate
      BY <2>6, OneMoreMiss DEF TickNull
    <3>2. QED
      BY <2>0, <2>6, <3>1 DEF TickNull
  <2>7. CASE Stop
    BY <2>0, <2>7 DEF Stop
  <2>8. CASE UNCHANGED watchVars
    BY <2>8 DEF watchVars
  <2>9. QED
    BY <2>1, <2>2, <2>3, <2>4, <2>5, <2>6, <2>7, <2>8 DEF WatchNext
<1>3. QED
  BY <1>1, <1>2, PTL DEF WatchSpec

\* The overshoot of a watched group is bounded by the intervals since the last
\* sample that was not null.
THEOREM BestEffort == WatchSpec => []OvershootBounded
<1>1. GrowthIInv => OvershootBounded
  BY OneMoreMiss DEF GrowthIInv, WatchTypeOK, UnseenBound, OvershootBounded
<1>2. QED
  BY <1>1, WatchInvariance, PTL

\* Whatever the group does and whenever a sample is null, onBreach is called
\* once at most, and the watch is over by then.
THEOREM OneBreach == WatchSpec => []BreachesOnce
BY WatchInvariance, PTL DEF GrowthIInv

-----------------------------------------------------------------------------
(* What a sample adds up: sums over finite sets.                           *)

\* A set of numbers with 0 and, with each number, the next, is all of them.
LEMMA NatByNext ==
  ASSUME NEW N \in SUBSET Nat, 0 \in N, \A n \in N : n + 1 \in N
  PROVE  N = Nat
<1> DEFINE R == OpToRel(<, Nat)
           B == Nat \ N
<1> SUFFICES ASSUME B # {} PROVE FALSE
  OBVIOUS
<1>1. IsWellFoundedOn(R, Nat)
  BY NatLessThanWellFounded
<1>2. PICK m \in B : \A n \in B : ~ (<<n, m>> \in R)
  <2> HIDE DEF R
  <2> QED BY <1>1, WFMin
<1>3. \A n \in B : ~ (n < m)
  BY <1>2 DEF OpToRel
<1>4. m - 1 \in N
  BY <1>3
<1>5. QED
  BY <1>4

\* So is a set of subsets of a finite set that has the empty one, and each one
\* from which a member can be taken away.
LEMMA SubsetsByTaking ==
  ASSUME NEW S, IsFiniteSet(S), NEW P \in SUBSET SUBSET S, {} \in P,
         \A s \in SUBSET S : s # {} /\ s \ {CHOOSE x \in s : TRUE} \in P => s \in P
  PROVE  P = SUBSET S
<1> DEFINE N == {n \in Nat : \A s \in SUBSET S : Cardinality(s) = n => s \in P}
<1>1. \A s \in SUBSET S : IsFiniteSet(s) /\ Cardinality(s) \in Nat
  BY FS_Subset, FS_CardinalityType
<1>2. 0 \in N
  BY <1>1, FS_EmptySet
<1>3. ASSUME NEW n \in N PROVE n + 1 \in N
  <2> SUFFICES ASSUME NEW s \in SUBSET S, Cardinality(s) = n + 1 PROVE s \in P
    OBVIOUS
  <2> DEFINE x == CHOOSE y \in s : TRUE
  <2>1. s # {}
    BY <1>1, FS_EmptySet
  <2>2. x \in s /\ s \ {x} \in SUBSET S
    BY <2>1
  <2> HIDE DEF x
  <2>3. Cardinality(s \ {x}) = Cardinality(s) - 1
    BY <1>1, <2>2, FS_RemoveElement
  <2>4. s \ {x} \in P
    BY <2>2, <2>3
  <2>5. QED
    BY <2>1, <2>4 DEF x
<1>4. N = Nat
  BY <1>2, <1>3, NatByNext
<1>5. ASSUME NEW s \in SUBSET S PROVE s \in P
  <2>1. Cardinality(s) \in N
    BY <1>1, <1>4
  <2>2. QED
    BY <2>1
<1>6. QED
  BY <1>5

\* The sum of a function over the files.
SumOf(g) == MapThenSumSet(LAMBDA f : g[f], Files)

\* The member of a set that is added up first.
Pick(s) == CHOOSE x \in s : TRUE

\* The sum of a function over each set of files.
Sums(g) ==
  CHOOSE F : F = [s \in SUBSET Files |-> IF s = {} THEN 0 ELSE g[Pick(s)] + F[s \ {Pick(s)}]]

\* The sum over all files is one of those.
LEMMA SumIsLast ==
  ASSUME NEW g
  PROVE  SumOf(g) = Sums(g)[Files]
BY DEF SumOf, Sums, Pick, MapThenSumSet, MapThenFoldSet

\* What is added up one by one: there is such a function, and so Sums is one.
LEMMA SumsGoOn ==
  ASSUME IsFiniteSet(Files), NEW g
  PROVE  Sums(g) = [s \in SUBSET Files |->
                      IF s = {} THEN 0 ELSE g[Pick(s)] + Sums(g)[s \ {Pick(s)}]]
<1> DEFINE AtMost(n) == {s \in SUBSET Files : Cardinality(s) <= n}
           Step(F, s) == IF s = {} THEN 0 ELSE g[Pick(s)] + F[s \ {Pick(s)}]
           Good(F, n) == F = [s \in AtMost(n) |-> Step(F, s)]
           N == {n \in Nat : \E F : Good(F, n)}
<1>1. \A s \in SUBSET Files : IsFiniteSet(s) /\ Cardinality(s) \in Nat
  BY FS_Subset, FS_CardinalityType
<1>2. \A s \in SUBSET Files : s # {} => Pick(s) \in s
  BY DEF Pick
<1>3. ASSUME NEW n \in Nat, NEW s \in AtMost(n + 1), s # {}
      PROVE  s \ {Pick(s)} \in AtMost(n)
  <2>1. s \ {Pick(s)} \in SUBSET Files /\ Cardinality(s \ {Pick(s)}) = Cardinality(s) - 1
    BY <1>1, <1>2, <1>3, FS_RemoveElement
  <2>2. QED
    BY <1>1, <1>3, <2>1
<1>4. 0 \in N
  <2> DEFINE F == [s \in AtMost(0) |-> 0]
  <2>1. \A s \in AtMost(0) : s = {}
    BY <1>1, FS_EmptySet
  <2>2. Good(F, 0)
    BY <2>1
  <2>3. QED
    BY <2>2
<1>5. ASSUME NEW n \in N PROVE n + 1 \in N
  <2>1. PICK F : Good(F, n)
    BY <1>5
  <2> DEFINE G == [s \in AtMost(n + 1) |-> Step(F, s)]
  <2>2. ASSUME NEW s \in AtMost(n) PROVE s \in AtMost(n + 1) /\ G[s] = F[s]
    <3>1. s \in AtMost(n + 1)
      BY <1>1, <2>2
    <3>2. F[s] = Step(F, s)
      BY <2>1
    <3>3. QED
      BY <3>1, <3>2
  <2>3. ASSUME NEW s \in AtMost(n + 1) PROVE Step(F, s) = Step(G, s)
    BY <1>3, <2>2, <2>3
  <2>4. Good(G, n + 1)
    BY <2>3
  <2> HIDE DEF G, Good
  <2>5. QED
    BY <2>4
<1>6. Cardinality(Files) \in N
  BY <1>4, <1>5, <1>1, NatByNext
<1>7. PICK F : Good(F, Cardinality(Files))
  BY <1>6
<1>8. AtMost(Cardinality(Files)) = SUBSET Files
  BY <1>1, FS_Subset
<1>9. F = [s \in SUBSET Files |-> Step(F, s)]
  BY <1>7, <1>8
<1>10. QED
  BY <1>9 DEF Sums

\* An empty sum is 0, any other a member and the sum of the rest.
LEMMA SumsStep ==
  ASSUME IsFiniteSet(Files), NEW g
  PROVE  /\ Sums(g)[{}] = 0
         /\ \A s \in SUBSET Files : s # {} =>
              /\ Pick(s) \in s /\ Pick(s) \in Files /\ s \ {Pick(s)} \in SUBSET Files
              /\ Sums(g)[s] = g[Pick(s)] + Sums(g)[s \ {Pick(s)}]
<1> DEFINE F == Sums(g)
<1>1. F = [s \in SUBSET Files |-> IF s = {} THEN 0 ELSE g[Pick(s)] + F[s \ {Pick(s)}]]
  BY SumsGoOn
<1> HIDE DEF F
<1>2. \A s \in SUBSET Files : s # {} => Pick(s) \in s /\ s \ {Pick(s)} \in SUBSET Files
  BY DEF Pick
<1>3. F[{}] = 0
  BY <1>1
<1>4. \A s \in SUBSET Files : s # {} => F[s] = g[Pick(s)] + F[s \ {Pick(s)}]
  BY <1>1
<1>5. QED
  BY <1>2, <1>3, <1>4 DEF F

\* Sums of numbers are numbers, and adding two functions adds their sums.
LEMMA SumsAdd ==
  ASSUME IsFiniteSet(Files), NEW g \in [Files -> Nat], NEW h \in [Files -> Nat]
  PROVE  /\ SumOf(g) \in Nat /\ SumOf(h) \in Nat
         /\ SumOf([f \in Files |-> g[f] + h[f]]) = SumOf(g) + SumOf(h)
<1> DEFINE k == [f \in Files |-> g[f] + h[f]]
           P == {s \in SUBSET Files : /\ Sums(g)[s] \in Nat /\ Sums(h)[s] \in Nat
                                      /\ Sums(k)[s] = Sums(g)[s] + Sums(h)[s]}
<1>0. \A f \in Files : k[f] = g[f] + h[f]
  OBVIOUS
<1> HIDE DEF k
<1>1. {} \in P
  BY SumsStep
<1>2. ASSUME NEW s \in SUBSET Files, s # {}, s \ {Pick(s)} \in P PROVE s \in P
  <2> DEFINE x == Pick(s)
             r == s \ {x}
  <2>1. x \in Files
    BY <1>2, SumsStep
  <2>2. /\ Sums(g)[s] = g[x] + Sums(g)[r]
        /\ Sums(h)[s] = h[x] + Sums(h)[r]
        /\ Sums(k)[s] = k[x] + Sums(k)[r]
    BY <1>2, SumsStep
  <2>3. /\ Sums(g)[r] \in Nat /\ Sums(h)[r] \in Nat
        /\ Sums(k)[r] = Sums(g)[r] + Sums(h)[r]
    BY <1>2
  <2>4. k[x] = g[x] + h[x] /\ g[x] \in Nat /\ h[x] \in Nat
    BY <1>0, <2>1
  <2> HIDE DEF x, r
  <2>5. QED
    BY <2>2, <2>3, <2>4
<1>3. P = SUBSET Files
  <2> HIDE DEF P
  <2>1. P \in SUBSET SUBSET Files
    BY DEF P
  <2>2. QED
    BY <1>1, <1>2, <2>1, SubsetsByTaking DEF Pick
<1>4. Files \in P
  BY <1>3
<1>5. QED
  BY <1>4, SumIsLast DEF k

\* The sum of a function that is 0 but for one file.
LEMMA SumOfOne ==
  ASSUME IsFiniteSet(Files), NEW x, NEW v \in Nat
  PROVE  SumOf([f \in Files |-> IF f = x THEN v ELSE 0]) = IF x \in Files THEN v ELSE 0
<1> DEFINE g == [f \in Files |-> IF f = x THEN v ELSE 0]
           P == {s \in SUBSET Files : Sums(g)[s] = IF x \in s THEN v ELSE 0}
<1>0. \A f \in Files : g[f] = IF f = x THEN v ELSE 0
  OBVIOUS
<1> HIDE DEF g
<1>1. {} \in P
  BY SumsStep
<1>2. ASSUME NEW s \in SUBSET Files, s # {}, s \ {Pick(s)} \in P PROVE s \in P
  <2> DEFINE y == Pick(s)
             r == s \ {y}
  <2>1. y \in s /\ y \in Files /\ Sums(g)[s] = g[y] + Sums(g)[r]
    BY <1>2, SumsStep
  <2>2. Sums(g)[r] = IF x \in r THEN v ELSE 0
    BY <1>2
  <2>3. g[y] = IF y = x THEN v ELSE 0
    BY <1>0, <2>1
  <2>4. x \in r <=> x \in s /\ x # y
    OBVIOUS
  <2> HIDE DEF y, r
  <2>5. QED
    BY <2>1, <2>2, <2>3, <2>4
<1>3. P = SUBSET Files
  <2> HIDE DEF P
  <2>1. P \in SUBSET SUBSET Files
    BY DEF P
  <2>2. QED
    BY <1>1, <1>2, <2>1, SubsetsByTaking DEF Pick
<1>4. Files \in P
  BY <1>3
<1>5. QED
  BY <1>4, SumIsLast DEF g

\* A function that is nowhere greater has no greater sum.
LEMMA SumMonotonic ==
  ASSUME IsFiniteSet(Files), NEW g \in [Files -> Nat], NEW h \in [Files -> Nat],
         \A f \in Files : g[f] <= h[f]
  PROVE  SumOf(g) <= SumOf(h)
<1> DEFINE d == [f \in Files |-> h[f] - g[f]]
<1>1. d \in [Files -> Nat]
  OBVIOUS
<1>2. h = [f \in Files |-> g[f] + d[f]]
  <2>1. \A f \in Files : h[f] = g[f] + (h[f] - g[f])
    OBVIOUS
  <2>2. h = [f \in Files |-> h[f]]
    OBVIOUS
  <2>3. QED
    BY <2>1, <2>2
<1> HIDE DEF d
<1>3. /\ SumOf(g) \in Nat /\ SumOf(d) \in Nat
      /\ SumOf([f \in Files |-> g[f] + d[f]]) = SumOf(g) + SumOf(d)
  BY <1>1, SumsAdd
<1>4. QED
  BY <1>2, <1>3

\* What one file has more, the sum has more.
LEMMA SumGrows ==
  ASSUME IsFiniteSet(Files), NEW g \in [Files -> Nat], NEW h \in [Files -> Nat],
         NEW x \in Files, NEW v \in Nat, h[x] = g[x] + v,
         \A f \in Files \ {x} : h[f] = g[f]
  PROVE  SumOf(h) = SumOf(g) + v
<1> DEFINE d == [f \in Files |-> IF f = x THEN v ELSE 0]
<1>1. d \in [Files -> Nat] /\ SumOf(d) = v
  BY SumOfOne
<1>2. h = [f \in Files |-> g[f] + d[f]]
  <2>1. \A f \in Files : h[f] = g[f] + d[f]
    OBVIOUS
  <2>2. h = [f \in Files |-> h[f]]
    OBVIOUS
  <2> HIDE DEF d
  <2>3. QED
    BY <2>1, <2>2
<1> HIDE DEF d
<1>3. SumOf([f \in Files |-> g[f] + d[f]]) = SumOf(g) + SumOf(d)
  BY <1>1, SumsAdd
<1>4. QED
  BY <1>1, <1>2, <1>3

-----------------------------------------------------------------------------
(* What a sample of the disk watchdog is worth.                            *)

\* Types; the directories are a tree, and a file that does not exist has no size.
SampleTypeOK ==
  /\ tree \subseteq Trails /\ Root \in tree /\ \A t \in tree : UpTo[t] \subseteq tree
  /\ place \in [Files -> tree \cup {Nowhere}] /\ size \in [Files -> Nat]
  /\ \A f \in Files : place[f] = Nowhere => size[f] = 0
  /\ dirs \subseteq Trails /\ listing \subseteq Files \X Trails
  /\ total \in Nat /\ first \in Nat

\* The walk has still to come to the file.
Ahead(f) ==
  /\ place[f] # Nowhere
  /\ <<f, place[f]>> \in listing \/ \E d \in dirs : d \in UpTo[place[f]]

\* The size of each file the walk has still to come to.
Rest == [f \in Files |-> IF Ahead(f) THEN size[f] ELSE 0]

\* The walk comes to no path twice: of what it keeps, nothing lies below a
\* directory it has still to list.
Apart ==
  walk = "walking" =>
    /\ \A d \in dirs, e \in dirs : d \in UpTo[e] => d = e
    /\ \A e \in listing : \A d \in dirs : d \notin UpTo[e[2]]

\* What the walk has added up and has still to come to lies between what was
\* there when it began, if all could be read, and what is there.
Account ==
  walk = "walking" /\ ~rewrote =>
    /\ total + SumOf(Rest) <= RealTotal
    /\ ~skipped => first <= total + SumOf(Rest)

\* The inductive invariant.
SampleIInv == SampleTypeOK /\ Apart /\ Account /\ SampleBracketed

\* What is still to come is no more than what is there.
LEMMA RestType ==
  ASSUME SampleTypeOK
  PROVE  /\ Rest \in [Files -> Nat] /\ SumOf(Rest) \in Nat /\ SumOf(Rest) <= RealTotal
         /\ RealTotal = SumOf(size) /\ RealTotal \in Nat
<1>1. size \in [Files -> Nat]
  BY DEF SampleTypeOK
<1>2. Rest \in [Files -> Nat] /\ \A f \in Files : Rest[f] <= size[f]
  BY <1>1 DEF Rest
<1>3. RealTotal = SumOf(size)
  BY DEF RealTotal, SumOf
<1>4. QED
  BY <1>1, <1>2, <1>3, SumsAdd, SumMonotonic, PlacesAssumption

\* A directory that is listed leads to itself by its files, and to what is below
\* it by its children, which lie apart from one another.
LEMMA ListingLeads ==
  ASSUME SampleTypeOK, NEW d \in Trails
  PROVE  /\ \A t \in tree : d \in UpTo[t] <=> t = d \/ \E c \in Children(d) : c \in UpTo[t]
         /\ \A b, c \in Children(d) : b \in UpTo[c] => b = c
         /\ \A c \in Children(d) : /\ c \in tree /\ c \in Trails /\ c # d /\ d \in UpTo[c]
                                   /\ UpTo[c] = UpTo[d] \cup {c} /\ c \notin UpTo[d]
<1> USE TrailsAssumption
<1>1. tree \subseteq Trails /\ \A t \in tree : UpTo[t] \subseteq tree
  BY DEF SampleTypeOK
<1>2. \A t \in Trails : t \in UpTo[t] /\ UpTo[t] \subseteq Trails
  OBVIOUS
<1>3. ASSUME NEW c \in Children(d)
      PROVE  /\ c \in tree /\ c \in Trails /\ c # d /\ d \in UpTo[c]
             /\ UpTo[c] = UpTo[d] \cup {c} /\ c \notin UpTo[d]
  <2>1. c \in tree /\ c \in Trails /\ c # d /\ UpTo[c] = UpTo[d] \cup {c}
    BY <1>1, <1>3 DEF Children
  <2>2. d \in UpTo[c]
    BY <1>2, <2>1
  <2>3. c \notin UpTo[d]
    BY <2>1, <2>2
  <2>4. QED
    BY <2>1, <2>2, <2>3
<1>4. ASSUME NEW b \in Children(d), NEW c \in Children(d), b \in UpTo[c] PROVE b = c
  BY <1>3, <1>4
<1>5. ASSUME NEW t \in tree, d \in UpTo[t], t # d PROVE \E c \in Children(d) : c \in UpTo[t]
  <2>1. PICK c \in UpTo[t] : c # d /\ UpTo[c] = UpTo[d] \cup {c}
    BY <1>1, <1>5
  <2>2. c \in Children(d)
    BY <1>1, <2>1 DEF Children
  <2>3. QED
    BY <2>1, <2>2
<1>6. ASSUME NEW t \in tree, NEW c \in Children(d), c \in UpTo[t] PROVE d \in UpTo[t]
  BY <1>1, <1>3, <1>6
<1>7. QED
  BY <1>1, <1>2, <1>3, <1>4, <1>5, <1>6

\* The inductive invariant of the walk and the writer beside it.
THEOREM SampleInvariance == SampleSpec => []SampleIInv
<1> USE PlacesAssumption
<1>1. SampleInit => SampleIInv
  <2> SUFFICES ASSUME SampleInit PROVE SampleIInv
    OBVIOUS
  <2>1. size \in [Files -> Nat]
    BY DEF SampleInit
  <2>2. QED
    BY <2>1 DEF SampleInit, SampleIInv, SampleTypeOK, Apart, Account, SampleBracketed
<1>2. SampleIInv /\ [SampleNext]_sampleVars => SampleIInv'
  <2> SUFFICES ASSUME SampleIInv, [SampleNext]_sampleVars PROVE SampleIInv'
    OBVIOUS
  <2>a. /\ Rest \in [Files -> Nat] /\ SumOf(Rest) \in Nat /\ SumOf(Rest) <= RealTotal
        /\ RealTotal = SumOf(size) /\ RealTotal \in Nat
        /\ size \in [Files -> Nat] /\ total \in Nat /\ first \in Nat
    BY RestType DEF SampleIInv, SampleTypeOK
  <2>b. SampleTypeOK' => /\ Rest' \in [Files -> Nat] /\ SumOf(Rest') \in Nat
                          /\ RealTotal' = SumOf(size') /\ RealTotal' \in Nat
    <3> SUFFICES ASSUME SampleTypeOK'
                 PROVE  /\ Rest' \in [Files -> Nat] /\ SumOf(Rest') \in Nat
                        /\ RealTotal' = SumOf(size') /\ RealTotal' \in Nat
      OBVIOUS
    <3>1. size' \in [Files -> Nat]
      BY DEF SampleTypeOK
    <3>2. Rest' \in [Files -> Nat]
      BY <3>1 DEF Rest
    <3>3. RealTotal' = SumOf(size')
      BY DEF RealTotal, SumOf, MapThenSumSet, MapThenFoldSet
    <3>4. QED
      BY <3>1, <3>2, <3>3, SumsAdd
  <2>c. ASSUME SampleTypeOK', UNCHANGED <<size, walk, total, historyVars>>, Apart',
               walk = "walking" /\ ~rewrote => \A g \in Files : Rest'[g] = Rest[g]
        PROVE  SampleIInv'
    <3>1. RealTotal' = RealTotal
      BY <2>a, <2>b, <2>c
    <3>2. walk = "walking" /\ ~rewrote => Rest' = Rest
      BY <2>a, <2>b, <2>c
    <3>3. QED
      BY <2>c, <3>1, <3>2 DEF SampleIInv, Account, SampleBracketed, historyVars
  <2>1. ASSUME NEW f \in Files, AppendTo(f) PROVE SampleIInv'
    <3>1. SampleTypeOK' /\ Apart'
      BY <2>1 DEF AppendTo, SampleIInv, SampleTypeOK, Apart, walkVars, historyVars
    <3>2. size'[f] = size[f] + 1 /\ \A g \in Files \ {f} : size'[g] = size[g]
      BY <2>a, <2>1 DEF AppendTo
    <3>3. RealTotal' = RealTotal + 1
      <4>1. size' \in [Files -> Nat]
        BY <3>1 DEF SampleTypeOK
      <4>2. QED
        BY <2>a, <2>b, <3>1, <3>2, <4>1, SumGrows
    <3>4. SumOf(Rest') = SumOf(Rest) \/ SumOf(Rest') = SumOf(Rest) + 1
      <4>1. \A g \in Files \ {f} : Rest'[g] = Rest[g]
        BY <2>1, <3>2 DEF AppendTo, Rest, Ahead, walkVars
      <4>2. Rest'[f] = Rest[f] \/ Rest'[f] = Rest[f] + 1
        BY <2>a, <2>1, <3>2 DEF AppendTo, Rest, Ahead, walkVars
      <4>3. Rest'[f] = Rest[f] => Rest' = Rest
        BY <2>a, <2>b, <3>1, <4>1
      <4>4. Rest'[f] = Rest[f] + 1 => SumOf(Rest') = SumOf(Rest) + 1
        BY <2>a, <2>b, <3>1, <4>1, SumGrows
      <4>5. QED
        BY <4>2, <4>3, <4>4
    <3>5. Account'
      BY <2>a, <2>b, <2>1, <3>1, <3>3, <3>4
      DEF AppendTo, SampleIInv, Account, walkVars, historyVars
    <3>6. SampleBracketed'
      BY <2>a, <2>b, <2>1, <3>1, <3>3
      DEF AppendTo, SampleIInv, SampleBracketed, walkVars, historyVars
    <3>7. QED
      BY <3>1, <3>5, <3>6 DEF SampleIInv
  <2>2. ASSUME NEW f \in Files, Delete(f) PROVE SampleIInv'
    <3>1. SampleTypeOK' /\ Apart'
      BY <2>2 DEF Delete, SampleIInv, SampleTypeOK, Apart, walkVars
    <3>2. QED
      BY <2>2, <3>1 DEF Delete, SampleIInv, Account, SampleBracketed
  <2>3. ASSUME NEW f \in Files, NEW d \in Trails, Create(f, d) PROVE SampleIInv'
    <3>1. SampleTypeOK' /\ Apart' /\ size' = size /\ size[f] = 0
      BY <2>3 DEF Create, SampleIInv, SampleTypeOK, Apart, walkVars, historyVars
    <3>2. \A g \in Files : Rest'[g] = Rest[g]
      BY <2>3, <3>1 DEF Create, Rest, Ahead, walkVars, SampleIInv, SampleTypeOK
    <3>3. QED
      BY <2>c, <2>3, <3>1, <3>2 DEF Create, walkVars, historyVars
  <2>4. ASSUME NEW f \in Files, NEW d \in Trails, Move(f, d) PROVE SampleIInv'
    <3>1. SampleTypeOK' /\ Apart'
      BY <2>4 DEF Move, SampleIInv, SampleTypeOK, Apart, walkVars
    <3>2. QED
      BY <2>4, <3>1 DEF Move, SampleIInv, Account, SampleBracketed
  <2>5. ASSUME NEW d \in Trails, MakeDir(d) \/ RemoveDir(d) PROVE SampleIInv'
    <3>1. UNCHANGED <<place, size, walkVars, historyVars>>
      BY <2>5 DEF MakeDir, RemoveDir
    <3>2. /\ tree' \subseteq Trails /\ Root \in tree' /\ \A t \in tree' : UpTo[t] \subseteq tree'
          /\ place' \in [Files -> tree' \cup {Nowhere}]
      <4>1. CASE MakeDir(d)
        BY <4>1, TrailsAssumption DEF MakeDir, SampleIInv, SampleTypeOK
      <4>2. CASE RemoveDir(d)
        BY <4>2, TrailsAssumption DEF RemoveDir, SampleIInv, SampleTypeOK
      <4>3. QED
        BY <2>5, <4>1, <4>2
    <3>3. SampleTypeOK' /\ Apart'
      BY <3>1, <3>2 DEF SampleIInv, SampleTypeOK, Apart, walkVars, historyVars
    <3>4. \A g \in Files : Rest'[g] = Rest[g]
      BY <3>1 DEF Rest, Ahead, walkVars
    <3>5. QED
      BY <2>c, <3>1, <3>3, <3>4 DEF walkVars, historyVars
  <2>6. CASE ListRoot
    <3>1. SampleTypeOK /\ Root \in Trails
      BY TrailsAssumption DEF SampleIInv
    <3>2. /\ tree' = tree /\ place' = place /\ size' = size /\ total' = 0 /\ first' = RealTotal
          /\ \/ walk' = "walking" /\ dirs' = Children(Root) /\ listing' = FilesIn(Root)
             \/ walk' = "null" /\ dirs' = {} /\ listing' = {}
      BY <2>6 DEF ListRoot, treeVars
    <3>3. SampleTypeOK' /\ Apart'
      <4>1. \A e \in FilesIn(Root) : e \in Files \X Trails /\ e[2] = Root
        BY <3>1 DEF FilesIn
      <4>2. SampleTypeOK'
        BY <2>a, <3>1, <3>2, <4>1, ListingLeads DEF SampleTypeOK
      <4>3. Apart'
        BY <3>1, <3>2, <4>1, ListingLeads DEF Apart
      <4>4. QED
        BY <4>2, <4>3
    <3>4. RealTotal' = RealTotal
      BY <2>a, <2>b, <3>2, <3>3
    <3>5. walk' = "walking" => Rest' = size
      <4>1. ASSUME walk' = "walking", NEW g \in Files PROVE Rest'[g] = size[g]
        <5>1. CASE place[g] = Nowhere
          BY <3>1, <3>2, <5>1 DEF Rest, SampleTypeOK
        <5>2. CASE place[g] # Nowhere
          <6>1. place[g] \in tree /\ Root \in UpTo[place[g]]
            BY <3>1, <5>2, TrailsAssumption DEF SampleTypeOK
          <6>2. place[g] = Root \/ \E c \in Children(Root) : c \in UpTo[place[g]]
            BY <3>1, <6>1, ListingLeads
          <6>3. place[g] = Root => <<g, place[g]>> \in FilesIn(Root)
            BY DEF FilesIn
          <6>4. Ahead(g)'
            BY <3>2, <4>1, <5>2, <6>2, <6>3 DEF Ahead
          <6>5. QED
            BY <3>2, <6>4 DEF Rest
        <5>3. QED
          BY <5>1, <5>2
      <4>2. QED
        BY <2>a, <2>b, <3>3, <4>1
    <3>6. QED
      BY <2>a, <2>b, <3>2, <3>3, <3>4, <3>5 DEF SampleIInv, Account, SampleBracketed
  <2>7. CASE WalkEnds
    <3>1. SampleTypeOK' /\ Apart' /\ size' = size
      BY <2>7 DEF WalkEnds, SampleIInv, SampleTypeOK, Apart, treeVars, historyVars
    <3>2. RealTotal' = RealTotal
      BY <2>a, <2>b, <3>1
    <3>3. SumOf(Rest) = 0
      <4>1. Rest = [f \in Files |-> IF f = Nowhere THEN 0 ELSE 0]
        BY <2>7 DEF WalkEnds, Rest, Ahead
      <4>2. QED
        BY <4>1, SumOfOne
    <3>4. QED
      BY <2>a, <2>7, <3>1, <3>2, <3>3
      DEF WalkEnds, SampleIInv, Account, SampleBracketed, historyVars
  <2>8. CASE NextTick
    <3>1. SampleTypeOK' /\ Apart'
      BY <2>8 DEF NextTick, SampleIInv, SampleTypeOK, Apart, treeVars
    <3>2. QED
      BY <2>8, <3>1 DEF NextTick, SampleIInv, Account, SampleBracketed
  <2>9. ASSUME NEW d \in dirs, ListDir(d) PROVE SampleIInv'
    <3>1. /\ SampleTypeOK /\ d \in Trails /\ walk = "walking"
          /\ tree' = tree /\ place' = place /\ size' = size /\ dirs' = (dirs \ {d}) \cup Children(d)
          /\ listing' = listing \cup FilesIn(d)
          /\ UNCHANGED <<walk, total, historyVars>>
      BY <2>9 DEF ListDir, SampleIInv, SampleTypeOK, treeVars
    <3>2. \A e \in FilesIn(d) : e \in Files \X Trails /\ e[2] = d
      BY <3>1 DEF FilesIn
    <3>3. SampleTypeOK'
      BY <3>1, <3>2, ListingLeads DEF SampleTypeOK, historyVars
    <3>4. /\ \A b \in dirs, c \in dirs : b \in UpTo[c] => b = c
          /\ \A e \in listing : \A b \in dirs : b \notin UpTo[e[2]]
      BY <3>1 DEF SampleIInv, Apart
    <3>5. ASSUME NEW b \in dirs \ {d}, NEW c \in Children(d) PROVE b \notin UpTo[c] /\ c \notin UpTo[b]
      <4>1. UpTo[c] = UpTo[d] \cup {c} /\ d \in UpTo[c] /\ b \in Trails
        BY <3>1, ListingLeads DEF SampleTypeOK
      <4>2. b \notin UpTo[d] /\ d \notin UpTo[b]
        BY <2>9, <3>4
      <4>3. b = c => d \in UpTo[b]
        BY <4>1
      <4>4. c \in UpTo[b] => d \in UpTo[b]
        BY <4>1, TrailsAssumption
      <4>5. QED
        BY <4>1, <4>2, <4>3, <4>4
    <3>6. Apart'
      <4>1. ASSUME NEW b \in dirs', NEW c \in dirs', b \in UpTo[c] PROVE b = c
        BY <3>1, <3>4, <3>5, <4>1, ListingLeads
      <4>2. ASSUME NEW e \in listing', NEW b \in dirs' PROVE b \notin UpTo[e[2]]
        <5>1. CASE e \in FilesIn(d)
          BY <2>9, <3>1, <3>2, <3>4, <5>1, ListingLeads
        <5>2. CASE e \in listing
          <6>1. e[2] \in Trails /\ d \notin UpTo[e[2]]
            BY <2>9, <3>1, <3>4, <5>2 DEF SampleTypeOK
          <6>2. b \in Children(d) => b \notin UpTo[e[2]]
            BY <3>1, <6>1, ListingLeads, TrailsAssumption
          <6>3. QED
            BY <3>1, <3>4, <5>2, <6>2
        <5>3. QED
          BY <3>1, <4>2, <5>1, <5>2
      <4>3. QED
        BY <3>1, <4>1, <4>2 DEF Apart
    <3>7. ASSUME NEW g \in Files PROVE Rest'[g] = Rest[g]
      <4>1. CASE place[g] = Nowhere
        BY <3>1, <4>1 DEF Rest, SampleTypeOK
      <4>2. CASE place[g] # Nowhere
        <5>1. place[g] \in tree
          BY <3>1, <4>2 DEF SampleTypeOK
        <5>2. d \in UpTo[place[g]] <=> place[g] = d \/ \E c \in Children(d) : c \in UpTo[place[g]]
          BY <3>1, <5>1, ListingLeads
        <5>3. <<g, place[g]>> \in FilesIn(d) <=> place[g] = d
          BY DEF FilesIn
        <5>4. Ahead(g)' <=> Ahead(g)
          BY <2>9, <3>1, <4>2, <5>2, <5>3 DEF Ahead
        <5>5. QED
          BY <3>1, <5>4 DEF Rest
      <4>3. QED
        BY <4>1, <4>2
    <3>8. QED
      BY <2>c, <3>1, <3>3, <3>6, <3>7
  <2>10. ASSUME NEW e \in listing, StatFile(e) PROVE SampleIInv'
    <3> DEFINE f == e[1]
    <3>1. SampleTypeOK' /\ size' = size /\ Apart' /\ f \in Files /\ e = <<f, e[2]>>
      BY <2>10 DEF StatFile, SampleIInv, SampleTypeOK, Apart, treeVars, historyVars
    <3>2. RealTotal' = RealTotal
      BY <2>a, <2>b, <3>1
    <3>3. \A g \in Files \ {f} : Rest[g] = Rest'[g]
      BY <2>10, <3>1 DEF StatFile, Rest, Ahead, treeVars
    <3>4. CASE place[f] # e[2]
      <4>1. \A g \in Files : Rest'[g] = Rest[g]
        BY <2>10, <3>1, <3>3, <3>4 DEF StatFile, Rest, Ahead, treeVars
      <4>2. QED
        BY <2>10, <2>c, <3>1, <3>4, <4>1 DEF StatFile, treeVars
    <3>5. CASE place[f] = e[2]
      <4>1. walk = "walking" /\ place[f] # Nowhere /\ \A d \in dirs : d \notin UpTo[place[f]]
        BY <2>10, <3>1, <3>5, PlacesAssumption DEF StatFile, SampleIInv, SampleTypeOK, Apart
      <4>2. Rest[f] = Rest'[f] + size[f] /\ total' = total + size[f]
        BY <2>a, <2>10, <3>1, <3>5, <4>1 DEF StatFile, Rest, Ahead, treeVars
      <4>3. SumOf(Rest) = SumOf(Rest') + size[f]
        BY <2>a, <2>b, <3>1, <3>3, <4>2, SumGrows
      <4>4. total' + SumOf(Rest') = total + SumOf(Rest)
        BY <2>a, <2>b, <3>1, <4>2, <4>3
      <4>5. QED
        BY <2>10, <3>1, <3>2, <4>1, <4>4
        DEF StatFile, SampleIInv, Account, SampleBracketed, treeVars, historyVars
    <3>6. QED
      BY <3>4, <3>5
  <2>11. CASE Skip
    <3>1. SampleTypeOK' /\ size' = size /\ Apart'
      BY <2>11 DEF Skip, SampleIInv, SampleTypeOK, Apart, treeVars
    <3>2. RealTotal' = RealTotal
      BY <2>a, <2>b, <3>1
    <3>3. \A g \in Files : Rest'[g] <= Rest[g]
      BY <2>a, <2>11, <3>1 DEF Skip, Rest, Ahead, treeVars
    <3>4. SumOf(Rest') <= SumOf(Rest)
      BY <2>a, <2>b, <3>1, <3>3, SumMonotonic
    <3>5. QED
      BY <2>a, <2>b, <2>11, <3>1, <3>2, <3>4
      DEF Skip, SampleIInv, Account, SampleBracketed, treeVars
  <2>12. CASE UNCHANGED sampleVars
    <3>1. SampleTypeOK' /\ Apart' /\ UNCHANGED <<size, walk, total, historyVars>>
      BY <2>12 DEF sampleVars, treeVars, walkVars, historyVars, SampleIInv, SampleTypeOK, Apart
    <3>2. \A g \in Files : Rest'[g] = Rest[g]
      BY <2>12 DEF sampleVars, treeVars, walkVars, Rest, Ahead
    <3>3. QED
      BY <2>c, <3>1, <3>2
  <2>13. QED
    BY <2>1, <2>2, <2>3, <2>4, <2>5, <2>6, <2>7, <2>8, <2>9, <2>10, <2>11, <2>12
    DEF SampleNext, WalkStep
<1>3. QED
  BY <1>1, <1>2, PTL DEF SampleSpec

\* Over a writer that creates and appends in whatever directories it makes, a
\* sample lies between what was there when the walk began, if it could read all,
\* and what is there when it ends.
THEOREM SampleIsBracketed == SampleSpec => []SampleBracketed
BY SampleInvariance, PTL DEF SampleIInv

=============================================================================
