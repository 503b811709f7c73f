------------------------- MODULE JobLimitProbes_proofs -------------------------
(* Proofs about JobLimitProbes, for any windows and any number of passing   *)
(* faults.                                                                  *)
EXTENDS JobLimitProbes, TLAPS

USE WindowsAssumption

\* A fault marks one strike, in the leg under way, and no strike is forgotten.
LEMMA StrikeMarks ==
  ASSUME TypeOK, Strike
  PROVE  /\ struck' \in [1 .. MaxFaults -> {"no", "control", "claim"}]
         /\ \E i \in 1 .. MaxFaults :
              /\ struck[i] = "no" /\ struck'[i] = leg
              /\ \A j \in 1 .. MaxFaults : j # i => struck'[j] = struck[j]
         /\ \A l \in {"control", "claim"}, i \in 1 .. MaxFaults : struck[i] = l => struck'[i] = l
BY DEF TypeOK, Strike

\* Whoever dies, everybody stays in one of the three states.
LEMMA DeadOnes ==
  ASSUME TypeOK, NEW P
  PROVE  Dies(P) => proc' \in [Procs -> {"none", "running", "dead"}]
BY DEF TypeOK, Dies, Running

-----------------------------------------------------------------------------
(* The inductive invariant.                                                *)

\* What each verb publishes, and where each probe can be.
Verbs ==
  /\ kind = "memory" => result \in {"none", "ok", "failed"}
  /\ kind = "pids" => result \in {"none", "spawned", "denied"}
  /\ kind = "cpu" => result \in {"none", "spinning"}
  /\ kind = "killTree" => result \in {"none", "pid"} /\ leg = "claim"
  /\ pc \in {"open", "look", "terminate", "reap"} => kind = "killTree"
  /\ pc = "reread" => kind = "memory"
  /\ pc = "dwell" => kind = "cpu" /\ leg = "control"
  /\ pc \in {"handshake", "spawn"} =>
       /\ result = "none" /\ members = {}
       /\ proc["child"] = "none" /\ proc["grandchild"] = "none"
  /\ pc \in {"handshake", "spawn", "assign", "open"} => ~ gate
  /\ verdict = "yes" => leg = "claim"

Quiet == \A i \in 1 .. MaxFaults : struck[i] # "claim"

\* The memory probe: a host without 64 MiB stays in its control leg, and one
\* with 256 gives them.
MemoryLegs ==
  kind = "memory" =>
    /\ host.memory = "none" => leg = "control" /\ result # "ok" /\ said # "ok"
    /\ host.memory = "large" /\ ~ host.enforced /\ leg = "claim" /\ Quiet =>
         /\ result \in {"none", "ok"} /\ said # "failed"
         /\ pc \in {"assign", "poll"} => Running("child")
         /\ pc = "reread" => result = "ok"

\* The process probe: a host that starts nothing stays in its control leg.
PidsLegs ==
  kind = "pids" =>
    /\ ~ host.spawns => /\ leg = "control" /\ proc["grandchild"] = "none"
                        /\ result # "spawned" /\ said # "spawned"
    /\ host.spawns /\ ~ host.enforced /\ leg = "claim" /\ Quiet =>
         result # "denied" /\ said # "denied"

\* The CPU probe: nothing but the limit or a strike ends a spinner in time.
CpuLegs ==
  kind = "cpu" /\ host.lifetime > Window /\ ~ host.enforced /\ leg = "claim" /\ Quiet =>
    /\ said # "diedFast"
    /\ pc \in {"assign", "poll"} => Running("child")

\* The kill-tree probe: where termination does not act, each of the two that is
\* gone cost a strike.
TreeLegs ==
  kind = "killTree" =>
    /\ pc \in {"look", "terminate", "reap"} => result = "pid"
    /\ pc \in {"terminate", "reap"} /\ ~ host.enforced =>
         /\ ~ Running("child") \/ ~ Running("grandchild") =>
              \E i \in 1 .. MaxFaults : struck[i] = "claim"
         /\ ~ Running("child") /\ ~ Running("grandchild") =>
              \E i, j \in 1 .. MaxFaults : i # j /\ struck[i] = "claim" /\ struck[j] = "claim"
    /\ said = "reaped" /\ ~ host.enforced =>
         \E i, j \in 1 .. MaxFaults : i # j /\ struck[i] = "claim" /\ struck[j] = "claim"

\* Undisturbed, the gate keeps the whole tree in the job, and termination ends
\* it.
TreeInJob ==
  kind = "killTree" /\ host.spawns /\ Quiet =>
    /\ gate => "child" \in members
    /\ proc["grandchild"] # "none" => gate /\ "grandchild" \in members
    /\ pc \in {"assign", "open", "poll", "look", "terminate"} =>
         Running("child") /\ proc["grandchild"] # "dead"
    /\ pc \in {"open", "poll", "look", "terminate"} => "child" \in members
    /\ result = "pid" => proc["grandchild"] # "none"
    /\ host.enforced /\ pc = "reap" => ~ Running("child") /\ ~ Running("grandchild")
    /\ host.enforced /\ pc = "clean" => said \in {"reaped", "timeout"}
    /\ host.enforced /\ pc = "done" /\ host.runs => said = "timeout" \/ verdict = "yes"

IInv ==
  /\ Verbs /\ MemoryLegs /\ PidsLegs /\ CpuLegs /\ TreeLegs /\ TreeInJob
  /\ ProvedLimitsAct /\ NoMemberOutlivesProbe

\* The types follow from the types and what the verbs publish.
LEMMA TypeStep ==
  ASSUME TypeOK, Verbs, [Next]_vars
  PROVE  TypeOK'
<1> USE DEF TypeOK, Procs, Kinds, prober, tree, clock
<1>1. CASE Handshake
  BY <1>1, DeadOnes DEF Handshake
<1>2. CASE SpawnIntoJob
  BY <1>2, DeadOnes, StrikeMarks DEF SpawnIntoJob, Ends
<1>3. CASE AssignProcess
  BY <1>3, DeadOnes DEF AssignProcess, Running
<1>4. CASE AssignFails
  BY <1>4, DeadOnes, StrikeMarks DEF AssignFails, Ends, Running
<1>5. CASE OpenGate
  BY <1>5, DeadOnes DEF OpenGate
<1>6. CASE PollEnds
  <2>1. /\ pc' \in {"reread", "clean", "look", "dwell"}
        /\ said' \in {said, "spawned", "denied", "diedFast"}
    BY <1>6 DEF PollEnds, Ends, Settled, Verbs
  <2>2. waited' = 0 /\ UNCHANGED <<prober, tree, age, struck>>
    BY <1>6 DEF PollEnds
  <2>3. QED
    BY <2>1, <2>2
<1>7. CASE Reread
  BY <1>7, DeadOnes DEF Reread, Ends
<1>8. CASE DwellEnds
  BY <1>8, DeadOnes DEF DwellEnds, Ends, Running
<1>9. CASE LookAlive
  BY <1>9, DeadOnes DEF LookAlive, Ends, Running
<1>10. CASE Terminate
  BY <1>10, DeadOnes DEF Terminate, Running
<1>11. CASE Reaped
  BY <1>11, DeadOnes DEF Reaped, Ends, Running
<1>12. CASE PollTimesOut
  <2>1. pc' = "clean" /\ said' \in {"timeout", "survived"}
    BY <1>12 DEF PollTimesOut, Ends
  <2>2. UNCHANGED <<prober, tree, clock, struck>>
    BY <1>12 DEF PollTimesOut
  <2>3. QED
    BY <2>1, <2>2
<1>13. CASE CleanUp
  <2>1. /\ proc' \in [Procs -> {"none", "running", "dead"}]
        /\ pc' \in {"spawn", "done"} /\ leg' \in {"claim", leg}
    BY <1>13, DeadOnes DEF CleanUp
  <2>2. /\ members' \in {{}, members} /\ result' \in {"none", result}
        /\ said' \in {"nothing", said} /\ verdict' \in {"yes", "no", verdict}
    BY <1>13 DEF CleanUp
  <2>3. waited' \in {0, waited} /\ age' \in {0, age}
    BY <1>13 DEF CleanUp
  <2>4. UNCHANGED <<kind, host, struck>> /\ (gate' = FALSE \/ gate' = gate)
    BY <1>13 DEF CleanUp
  <2>5. waited' \in 0 .. Window /\ age' \in 0 .. Window
    BY <2>3
  <2>6. gate' \in BOOLEAN
    BY <2>4
  <2>7. /\ kind' \in Kinds /\ host' \in Hosts
        /\ struck' \in [1 .. MaxFaults -> {"no", "control", "claim"}]
    BY <2>4
  <2>8. members' \subseteq Procs
    BY <2>2
  <2>9. QED
    BY <2>1, <2>2, <2>5, <2>6, <2>7, <2>8
<1>14. CASE Alloc
  BY <1>14, DeadOnes DEF Alloc, Running, Acting, Acts, Fitting
<1>15. CASE TrySpawn
  <2>1. proc' \in [Procs -> {"none", "running", "dead"}]
    BY <1>15, DeadOnes DEF TrySpawn, SpawnsChild
  <2>2. members' \subseteq Procs /\ result' \in {result, "denied", "spawned"}
    BY <1>15 DEF TrySpawn, SpawnsChild
  <2>3. QED
    BY <1>15, <2>1, <2>2 DEF TrySpawn
<1>16. CASE SpawnChild
  <2>1. proc' \in [Procs -> {"none", "running", "dead"}]
    BY <1>16, DeadOnes DEF SpawnChild, SpawnsChild
  <2>2. members' \subseteq Procs /\ result' \in {result, "pid"}
    BY <1>16 DEF SpawnChild, SpawnsChild
  <2>3. struck' \in [1 .. MaxFaults -> {"no", "control", "claim"}]
    BY <1>16, StrikeMarks DEF SpawnChild
  <2>4. QED
    BY <1>16, <2>1, <2>2, <2>3 DEF SpawnChild
<1>17. CASE BurnCpu
  BY <1>17, DeadOnes DEF BurnCpu, Running, Acting
<1>18. CASE SpinnerDies
  BY <1>18, DeadOnes DEF SpinnerDies, Running, Acts
<1>19. CASE Struck
  BY <1>19, DeadOnes, StrikeMarks DEF Struck, Running, Acting
<1>20. CASE Tick
  BY <1>20, DeadOnes DEF Tick, Running
<1>21. CASE UNCHANGED vars
  BY <1>21 DEF vars
<1>22. QED
  BY <1>1, <1>2, <1>3, <1>4, <1>5, <1>6, <1>7, <1>8, <1>9, <1>10, <1>11, <1>12, <1>13, <1>14, <1>15, <1>16, <1>17, <1>18, <1>19, <1>20, <1>21 DEF Next, Probe, Payload

\* The types and the invariant are inductive together.
THEOREM Invariance == Spec => [](TypeOK /\ IInv)
<1> USE DEF TypeOK, Procs, Kinds
<1>1. Init => TypeOK /\ IInv
  <2> SUFFICES ASSUME Init PROVE TypeOK /\ IInv
    OBVIOUS
  <2>1. /\ host \in Hosts /\ kind \in Kinds /\ leg \in {"control", "claim"}
        /\ kind = "killTree" => leg = "claim"
        /\ gate \in BOOLEAN /\ waited \in 0 .. Window /\ age \in 0 .. Window
    <3>1. host \in Hosts /\ kind \in Kinds /\ gate \in BOOLEAN
      BY DEF Init
    <3>2. leg \in {"control", "claim"} /\ (kind = "killTree" => leg = "claim")
      BY DEF Init
    <3>3. 0 \in 0 .. Window
      OBVIOUS
    <3>4. QED
      BY <3>1, <3>2, <3>3 DEF Init
  <2>2. /\ proc \in [Procs -> {"none", "running", "dead"}]
        /\ struck \in [1 .. MaxFaults -> {"no", "control", "claim"}]
    BY DEF Init
  <2>3. TypeOK
    BY <2>1, <2>2 DEF Init
  <2>4. host.memory = "none" /\ kind = "memory" => leg = "control"
    BY DEF Init
  <2>5. kind = "pids" => leg = "control"
    BY DEF Init
  <2>6. IInv
    BY <2>1, <2>4, <2>5 DEF Init, IInv, Verbs, MemoryLegs, PidsLegs, CpuLegs, TreeLegs, TreeInJob,
       ProvedLimitsAct, NoMemberOutlivesProbe, Running
  <2>7. QED
    BY <2>3, <2>6
<1>2. TypeOK /\ TypeOK' /\ IInv /\ [Next]_vars => IInv'
  <2> SUFFICES ASSUME TypeOK, TypeOK', IInv, [Next]_vars PROVE IInv'
    OBVIOUS
  <2> USE DEF prober, tree, clock, IInv, Hosts
  <2>1. CASE Handshake
    <3>1. Verbs'
      BY <2>1 DEF Handshake, Verbs
    <3>2. MemoryLegs'
      BY <2>1 DEF Handshake, Verbs, MemoryLegs, Quiet, Running, Acts
    <3>3. PidsLegs'
      BY <2>1 DEF Handshake, Verbs, PidsLegs, Quiet, Running, Acts
    <3>4. CpuLegs'
      BY <2>1 DEF Handshake, Verbs, CpuLegs, Quiet, Running, Acts
    <3>5. TreeLegs'
      BY <2>1 DEF Handshake, Verbs, TreeLegs, Running
    <3>6. TreeInJob'
      BY <2>1 DEF Handshake, Verbs, TreeLegs, TreeInJob, Quiet, Running
    <3>7. ProvedLimitsAct'
      BY <2>1 DEF Handshake, ProvedLimitsAct, Untouched, StrikesIn, Deceptive
    <3>8. NoMemberOutlivesProbe'
      BY <2>1 DEF Handshake, Verbs, NoMemberOutlivesProbe, Running
    <3>9. QED
      BY <3>1, <3>2, <3>3, <3>4, <3>5, <3>6, <3>7, <3>8
  <2>2. CASE SpawnIntoJob
    <3>1. Verbs'
      BY <2>2, StrikeMarks DEF SpawnIntoJob, Ends, Verbs
    <3>2. MemoryLegs'
      BY <2>2, StrikeMarks DEF SpawnIntoJob, Ends, Verbs, MemoryLegs, Quiet, Running, Acts
    <3>3. PidsLegs'
      BY <2>2, StrikeMarks DEF SpawnIntoJob, Ends, Verbs, PidsLegs, Quiet, Running, Acts
    <3>4. CpuLegs'
      BY <2>2, StrikeMarks DEF SpawnIntoJob, Ends, Verbs, CpuLegs, Quiet, Running, Acts
    <3>5. TreeLegs'
      BY <2>2, StrikeMarks DEF SpawnIntoJob, Ends, Verbs, TreeLegs, Running
    <3>6. TreeInJob'
      BY <2>2, StrikeMarks DEF SpawnIntoJob, Ends, Verbs, TreeLegs, TreeInJob, Quiet, Running
    <3>7. ProvedLimitsAct'
      BY <2>2, StrikeMarks DEF SpawnIntoJob, Ends, ProvedLimitsAct, Untouched, StrikesIn,
             Deceptive
    <3>8. NoMemberOutlivesProbe'
      BY <2>2, StrikeMarks DEF SpawnIntoJob, Ends, Verbs, NoMemberOutlivesProbe, Running
    <3>9. QED
      BY <3>1, <3>2, <3>3, <3>4, <3>5, <3>6, <3>7, <3>8
  <2>3. CASE AssignProcess
    <3>1. Verbs'
      BY <2>3 DEF AssignProcess, Running, Verbs
    <3>2. MemoryLegs'
      BY <2>3 DEF AssignProcess, Running, Verbs, MemoryLegs, Quiet, Acts
    <3>3. PidsLegs'
      BY <2>3 DEF AssignProcess, Running, Verbs, PidsLegs, Quiet, Acts
    <3>4. CpuLegs'
      BY <2>3 DEF AssignProcess, Running, Verbs, CpuLegs, Quiet, Acts
    <3>5. TreeLegs'
      BY <2>3 DEF AssignProcess, Running, Verbs, TreeLegs
    <3>6. TreeInJob'
      BY <2>3 DEF AssignProcess, Running, Verbs, TreeLegs, TreeInJob, Quiet
    <3>7. ProvedLimitsAct'
      BY <2>3 DEF AssignProcess, Running, ProvedLimitsAct, Untouched, StrikesIn, Deceptive
    <3>8. NoMemberOutlivesProbe'
      BY <2>3 DEF AssignProcess, Running, Verbs, NoMemberOutlivesProbe
    <3>9. QED
      BY <3>1, <3>2, <3>3, <3>4, <3>5, <3>6, <3>7, <3>8
  <2>4. CASE AssignFails
    <3>1. Verbs'
      BY <2>4, StrikeMarks DEF AssignFails, Ends, Running, Verbs
    <3>2. MemoryLegs'
      BY <2>4, StrikeMarks DEF AssignFails, Ends, Running, Verbs, MemoryLegs, Quiet, Acts
    <3>3. PidsLegs'
      BY <2>4, StrikeMarks DEF AssignFails, Ends, Running, Verbs, PidsLegs, Quiet, Acts
    <3>4. CpuLegs'
      BY <2>4, StrikeMarks DEF AssignFails, Ends, Running, Verbs, CpuLegs, Quiet, Acts
    <3>5. TreeLegs'
      BY <2>4, StrikeMarks DEF AssignFails, Ends, Running, Verbs, TreeLegs
    <3>6. TreeInJob'
      BY <2>4, StrikeMarks DEF AssignFails, Ends, Running, Verbs, TreeLegs, TreeInJob, Quiet
    <3>7. ProvedLimitsAct'
      BY <2>4, StrikeMarks DEF AssignFails, Ends, Running, ProvedLimitsAct, Untouched,
             StrikesIn, Deceptive
    <3>8. NoMemberOutlivesProbe'
      BY <2>4, StrikeMarks DEF AssignFails, Ends, Running, Verbs, NoMemberOutlivesProbe
    <3>9. QED
      BY <3>1, <3>2, <3>3, <3>4, <3>5, <3>6, <3>7, <3>8
  <2>5. CASE OpenGate
    <3>1. Verbs'
      BY <2>5 DEF OpenGate, Verbs
    <3>2. MemoryLegs'
      BY <2>5 DEF OpenGate, Verbs, MemoryLegs, Quiet, Running, Acts
    <3>3. PidsLegs'
      BY <2>5 DEF OpenGate, Verbs, PidsLegs, Quiet, Running, Acts
    <3>4. CpuLegs'
      BY <2>5 DEF OpenGate, Verbs, CpuLegs, Quiet, Running, Acts
    <3>5. TreeLegs'
      BY <2>5 DEF OpenGate, Verbs, TreeLegs, Running
    <3>6. TreeInJob'
      BY <2>5 DEF OpenGate, Verbs, TreeLegs, TreeInJob, Quiet, Running
    <3>7. ProvedLimitsAct'
      BY <2>5 DEF OpenGate, ProvedLimitsAct, Untouched, StrikesIn, Deceptive
    <3>8. NoMemberOutlivesProbe'
      BY <2>5 DEF OpenGate, Verbs, NoMemberOutlivesProbe, Running
    <3>9. QED
      BY <3>1, <3>2, <3>3, <3>4, <3>5, <3>6, <3>7, <3>8
  <2>6. CASE PollEnds
    <3>1. Verbs'
      BY <2>6 DEF PollEnds, Ends, Running, Settled, Verbs
    <3>2. MemoryLegs'
      BY <2>6 DEF PollEnds, Ends, Running, Settled, Verbs, MemoryLegs, Quiet, Acts
    <3>3. PidsLegs'
      BY <2>6 DEF PollEnds, Ends, Running, Settled, Verbs, PidsLegs, Quiet, Acts
    <3>4. CpuLegs'
      BY <2>6 DEF PollEnds, Ends, Running, Settled, Verbs, CpuLegs, Quiet, Acts
    <3>5. TreeLegs'
      BY <2>6 DEF PollEnds, Ends, Running, Settled, Verbs, TreeLegs
    <3>6. TreeInJob'
      BY <2>6 DEF PollEnds, Ends, Running, Settled, Verbs, TreeLegs, TreeInJob, Quiet
    <3>7. ProvedLimitsAct'
      BY <2>6 DEF PollEnds, Ends, Running, Settled, ProvedLimitsAct, Untouched, StrikesIn,
             Deceptive
    <3>8. NoMemberOutlivesProbe'
      BY <2>6 DEF PollEnds, Ends, Running, Settled, Verbs, NoMemberOutlivesProbe
    <3>9. QED
      BY <3>1, <3>2, <3>3, <3>4, <3>5, <3>6, <3>7, <3>8
  <2>7. CASE Reread
    <3>1. Verbs'
      BY <2>7 DEF Reread, Ends, Verbs
    <3>2. MemoryLegs'
      BY <2>7 DEF Reread, Ends, Verbs, MemoryLegs, Quiet, Running, Acts
    <3>3. PidsLegs'
      BY <2>7 DEF Reread, Ends, Verbs, PidsLegs, Quiet, Running, Acts
    <3>4. CpuLegs'
      BY <2>7 DEF Reread, Ends, Verbs, CpuLegs, Quiet, Running, Acts
    <3>5. TreeLegs'
      BY <2>7 DEF Reread, Ends, Verbs, TreeLegs, Running
    <3>6. TreeInJob'
      BY <2>7 DEF Reread, Ends, Verbs, TreeLegs, TreeInJob, Quiet, Running
    <3>7. ProvedLimitsAct'
      BY <2>7 DEF Reread, Ends, ProvedLimitsAct, Untouched, StrikesIn, Deceptive
    <3>8. NoMemberOutlivesProbe'
      BY <2>7 DEF Reread, Ends, Verbs, NoMemberOutlivesProbe, Running
    <3>9. QED
      BY <3>1, <3>2, <3>3, <3>4, <3>5, <3>6, <3>7, <3>8
  <2>8. CASE DwellEnds
    <3>1. Verbs'
      BY <2>8 DEF DwellEnds, Ends, Running, Verbs
    <3>2. MemoryLegs'
      BY <2>8 DEF DwellEnds, Ends, Running, Verbs, MemoryLegs, Quiet, Acts
    <3>3. PidsLegs'
      BY <2>8 DEF DwellEnds, Ends, Running, Verbs, PidsLegs, Quiet, Acts
    <3>4. CpuLegs'
      BY <2>8 DEF DwellEnds, Ends, Running, Verbs, CpuLegs, Quiet, Acts
    <3>5. TreeLegs'
      BY <2>8 DEF DwellEnds, Ends, Running, Verbs, TreeLegs
    <3>6. TreeInJob'
      BY <2>8 DEF DwellEnds, Ends, Running, Verbs, TreeLegs, TreeInJob, Quiet
    <3>7. ProvedLimitsAct'
      BY <2>8 DEF DwellEnds, Ends, Running, ProvedLimitsAct, Untouched, StrikesIn, Deceptive
    <3>8. NoMemberOutlivesProbe'
      BY <2>8 DEF DwellEnds, Ends, Running, Verbs, NoMemberOutlivesProbe
    <3>9. QED
      BY <3>1, <3>2, <3>3, <3>4, <3>5, <3>6, <3>7, <3>8
  <2>9. CASE LookAlive
    <3>1. Verbs'
      BY <2>9 DEF LookAlive, Ends, Running, Verbs
    <3>2. MemoryLegs'
      BY <2>9 DEF LookAlive, Ends, Running, Verbs, MemoryLegs, Quiet, Acts
    <3>3. PidsLegs'
      BY <2>9 DEF LookAlive, Ends, Running, Verbs, PidsLegs, Quiet, Acts
    <3>4. CpuLegs'
      BY <2>9 DEF LookAlive, Ends, Running, Verbs, CpuLegs, Quiet, Acts
    <3>5. TreeLegs'
      BY <2>9 DEF LookAlive, Ends, Running, Verbs, TreeLegs
    <3>6. TreeInJob'
      BY <2>9 DEF LookAlive, Ends, Running, Verbs, TreeLegs, TreeInJob, Quiet
    <3>7. ProvedLimitsAct'
      BY <2>9 DEF LookAlive, Ends, Running, ProvedLimitsAct, Untouched, StrikesIn, Deceptive
    <3>8. NoMemberOutlivesProbe'
      BY <2>9 DEF LookAlive, Ends, Running, Verbs, NoMemberOutlivesProbe
    <3>9. QED
      BY <3>1, <3>2, <3>3, <3>4, <3>5, <3>6, <3>7, <3>8
  <2>10. CASE Terminate
    <3>1. Verbs'
      BY <2>10 DEF Terminate, Running, Dies, Verbs
    <3>2. MemoryLegs'
      BY <2>10 DEF Terminate, Running, Dies, Verbs, MemoryLegs, Quiet, Acts
    <3>3. PidsLegs'
      BY <2>10 DEF Terminate, Running, Dies, Verbs, PidsLegs, Quiet, Acts
    <3>4. CpuLegs'
      BY <2>10 DEF Terminate, Running, Dies, Verbs, CpuLegs, Quiet, Acts
    <3>5. TreeLegs'
      BY <2>10 DEF Terminate, Running, Dies, Verbs, TreeLegs
    <3>6. TreeInJob'
      BY <2>10 DEF Terminate, Running, Dies, Verbs, TreeLegs, TreeInJob, Quiet
    <3>7. ProvedLimitsAct'
      BY <2>10 DEF Terminate, Running, Dies, ProvedLimitsAct, Untouched, StrikesIn, Deceptive
    <3>8. NoMemberOutlivesProbe'
      BY <2>10 DEF Terminate, Running, Dies, Verbs, NoMemberOutlivesProbe
    <3>9. QED
      BY <3>1, <3>2, <3>3, <3>4, <3>5, <3>6, <3>7, <3>8
  <2>11. CASE Reaped
    <3>1. Verbs'
      BY <2>11 DEF Reaped, Ends, Running, Verbs
    <3>2. MemoryLegs'
      BY <2>11 DEF Reaped, Ends, Running, Verbs, MemoryLegs, Quiet, Acts
    <3>3. PidsLegs'
      BY <2>11 DEF Reaped, Ends, Running, Verbs, PidsLegs, Quiet, Acts
    <3>4. CpuLegs'
      BY <2>11 DEF Reaped, Ends, Running, Verbs, CpuLegs, Quiet, Acts
    <3>5. TreeLegs'
      BY <2>11 DEF Reaped, Ends, Running, Verbs, TreeLegs
    <3>6. TreeInJob'
      BY <2>11 DEF Reaped, Ends, Running, Verbs, TreeLegs, TreeInJob, Quiet
    <3>7. ProvedLimitsAct'
      BY <2>11 DEF Reaped, Ends, Running, ProvedLimitsAct, Untouched, StrikesIn, Deceptive
    <3>8. NoMemberOutlivesProbe'
      BY <2>11 DEF Reaped, Ends, Running, Verbs, NoMemberOutlivesProbe
    <3>9. QED
      BY <3>1, <3>2, <3>3, <3>4, <3>5, <3>6, <3>7, <3>8
  <2>12. CASE PollTimesOut
    <3>1. Verbs'
      BY <2>12 DEF PollTimesOut, Ends, Running, Settled, Verbs
    <3>2. MemoryLegs'
      BY <2>12 DEF PollTimesOut, Ends, Running, Settled, Verbs, MemoryLegs, Quiet, Acts
    <3>3. PidsLegs'
      BY <2>12 DEF PollTimesOut, Ends, Running, Settled, Verbs, PidsLegs, Quiet, Acts
    <3>4. CpuLegs'
      BY <2>12 DEF PollTimesOut, Ends, Running, Settled, Verbs, CpuLegs, Quiet, Acts
    <3>5. TreeLegs'
      BY <2>12 DEF PollTimesOut, Ends, Running, Settled, Verbs, TreeLegs
    <3>6. TreeInJob'
      BY <2>12 DEF PollTimesOut, Ends, Running, Settled, Verbs, TreeLegs, TreeInJob, Quiet
    <3>7. ProvedLimitsAct'
      BY <2>12 DEF PollTimesOut, Ends, Running, Settled, ProvedLimitsAct, Untouched,
             StrikesIn, Deceptive
    <3>8. NoMemberOutlivesProbe'
      BY <2>12 DEF PollTimesOut, Ends, Running, Settled, Verbs, NoMemberOutlivesProbe
    <3>9. QED
      BY <3>1, <3>2, <3>3, <3>4, <3>5, <3>6, <3>7, <3>8
  <2>13. CASE CleanUp
    <3>1. Verbs'
      BY <2>13 DEF CleanUp, Running, Dies, FinallyKills, Known, GoesOn, Wanted, Verbs
    <3>2. MemoryLegs'
      BY <2>13 DEF CleanUp, Running, Dies, FinallyKills, Known, GoesOn, Wanted, Verbs,
             MemoryLegs, Quiet, Acts
    <3>3. PidsLegs'
      BY <2>13 DEF CleanUp, Running, Dies, FinallyKills, Known, GoesOn, Wanted, Verbs,
             PidsLegs, Quiet, Acts
    <3>4. CpuLegs'
      BY <2>13 DEF CleanUp, Running, Dies, FinallyKills, Known, GoesOn, Wanted, Verbs,
             CpuLegs, Quiet, Acts
    <3>5. TreeLegs'
      BY <2>13 DEF CleanUp, Running, Dies, FinallyKills, Known, GoesOn, Wanted, Verbs,
             TreeLegs
    <3>6. TreeInJob'
      BY <2>13 DEF CleanUp, Running, Dies, FinallyKills, Known, GoesOn, Wanted, Verbs,
             TreeLegs, TreeInJob, Quiet
    <3>7. ProvedLimitsAct'
      <4>1. CASE verdict' = verdict
        BY <2>13, <4>1 DEF CleanUp, ProvedLimitsAct, Untouched, StrikesIn, Deceptive
      <4>2. CASE ~ GoesOn /\ said = Wanted /\ leg = "claim"
        <5>1. CASE kind = "memory"
          BY <2>13, <4>2, <5>1 DEF CleanUp, Wanted, MemoryLegs, Quiet, ProvedLimitsAct, Untouched,
             StrikesIn, Deceptive
        <5>2. CASE kind = "pids"
          BY <2>13, <4>2, <5>2 DEF CleanUp, Wanted, PidsLegs, Quiet, ProvedLimitsAct, Untouched,
             StrikesIn, Deceptive
        <5>3. CASE kind = "cpu"
          BY <2>13, <4>2, <5>3 DEF CleanUp, Wanted, CpuLegs, Quiet, ProvedLimitsAct, Untouched,
             StrikesIn, Deceptive
        <5>4. CASE kind = "killTree"
          BY <2>13, <4>2, <5>4 DEF CleanUp, Wanted, TreeLegs, ProvedLimitsAct, Untouched,
             StrikesIn, Deceptive
        <5>5. QED
          BY <5>1, <5>2, <5>3, <5>4
      <4>3. QED
        BY <2>13, <4>1, <4>2 DEF CleanUp, GoesOn, ProvedLimitsAct, Deceptive
    <3>8. NoMemberOutlivesProbe'
      BY <2>13 DEF CleanUp, Running, Dies, FinallyKills, Known, GoesOn, Wanted, Verbs,
             NoMemberOutlivesProbe
    <3>9. QED
      BY <3>1, <3>2, <3>3, <3>4, <3>5, <3>6, <3>7, <3>8
  <2>14. CASE Alloc
    <3>1. Verbs'
      BY <2>14 DEF Alloc, Running, Acting, Acts, Fitting, Dies, Verbs
    <3>2. MemoryLegs'
      BY <2>14 DEF Alloc, Running, Acting, Acts, Fitting, Dies, Verbs, MemoryLegs, Quiet
    <3>3. PidsLegs'
      BY <2>14 DEF Alloc, Running, Acting, Acts, Fitting, Dies, Verbs, PidsLegs, Quiet
    <3>4. CpuLegs'
      BY <2>14 DEF Alloc, Running, Acting, Acts, Fitting, Dies, Verbs, CpuLegs, Quiet
    <3>5. TreeLegs'
      BY <2>14 DEF Alloc, Running, Acting, Acts, Fitting, Dies, Verbs, TreeLegs
    <3>6. TreeInJob'
      BY <2>14 DEF Alloc, Running, Acting, Acts, Fitting, Dies, Verbs, TreeLegs, TreeInJob,
             Quiet
    <3>7. ProvedLimitsAct'
      BY <2>14 DEF Alloc, Running, Acting, Acts, Fitting, Dies, ProvedLimitsAct, Untouched,
             StrikesIn, Deceptive
    <3>8. NoMemberOutlivesProbe'
      BY <2>14 DEF Alloc, Running, Acting, Acts, Fitting, Dies, Verbs, NoMemberOutlivesProbe
    <3>9. QED
      BY <3>1, <3>2, <3>3, <3>4, <3>5, <3>6, <3>7, <3>8
  <2>15. CASE TrySpawn
    <3>1. Verbs'
      BY <2>15 DEF TrySpawn, Running, Acting, Acts, SpawnsChild, Dies, Verbs
    <3>2. MemoryLegs'
      BY <2>15 DEF TrySpawn, Running, Acting, Acts, SpawnsChild, Dies, Verbs, MemoryLegs,
             Quiet
    <3>3. PidsLegs'
      BY <2>15 DEF TrySpawn, Running, Acting, Acts, SpawnsChild, Dies, Verbs, PidsLegs, Quiet
    <3>4. CpuLegs'
      BY <2>15 DEF TrySpawn, Running, Acting, Acts, SpawnsChild, Dies, Verbs, CpuLegs, Quiet
    <3>5. TreeLegs'
      BY <2>15 DEF TrySpawn, Running, Acting, Acts, SpawnsChild, Dies, Verbs, TreeLegs
    <3>6. TreeInJob'
      BY <2>15 DEF TrySpawn, Running, Acting, Acts, SpawnsChild, Dies, Verbs, TreeLegs,
             TreeInJob, Quiet
    <3>7. ProvedLimitsAct'
      BY <2>15 DEF TrySpawn, Running, Acting, Acts, SpawnsChild, Dies, ProvedLimitsAct,
             Untouched, StrikesIn, Deceptive
    <3>8. NoMemberOutlivesProbe'
      BY <2>15 DEF TrySpawn, Running, Acting, Acts, SpawnsChild, Dies, Verbs,
             NoMemberOutlivesProbe
    <3>9. QED
      BY <3>1, <3>2, <3>3, <3>4, <3>5, <3>6, <3>7, <3>8
  <2>16. CASE SpawnChild
    <3>1. Verbs'
      BY <2>16, StrikeMarks DEF SpawnChild, Running, Acting, SpawnsChild, Dies, Verbs
    <3>2. MemoryLegs'
      BY <2>16, StrikeMarks DEF SpawnChild, Running, Acting, SpawnsChild, Dies, Verbs,
             MemoryLegs, Quiet, Acts
    <3>3. PidsLegs'
      BY <2>16, StrikeMarks DEF SpawnChild, Running, Acting, SpawnsChild, Dies, Verbs,
             PidsLegs, Quiet, Acts
    <3>4. CpuLegs'
      BY <2>16, StrikeMarks DEF SpawnChild, Running, Acting, SpawnsChild, Dies, Verbs,
             CpuLegs, Quiet, Acts
    <3>5. TreeLegs'
      BY <2>16, StrikeMarks DEF SpawnChild, Running, Acting, SpawnsChild, Dies, Verbs,
             TreeLegs
    <3>6. TreeInJob'
      BY <2>16, StrikeMarks DEF SpawnChild, Running, Acting, SpawnsChild, Dies, Verbs,
             TreeLegs, TreeInJob, Quiet
    <3>7. ProvedLimitsAct'
      BY <2>16, StrikeMarks DEF SpawnChild, Running, Acting, SpawnsChild, Dies,
             ProvedLimitsAct, Untouched, StrikesIn, Deceptive
    <3>8. NoMemberOutlivesProbe'
      BY <2>16, StrikeMarks DEF SpawnChild, Running, Acting, SpawnsChild, Dies, Verbs,
             NoMemberOutlivesProbe
    <3>9. QED
      BY <3>1, <3>2, <3>3, <3>4, <3>5, <3>6, <3>7, <3>8
  <2>17. CASE BurnCpu
    <3>1. Verbs'
      BY <2>17 DEF BurnCpu, Running, Acting, Verbs
    <3>2. MemoryLegs'
      BY <2>17 DEF BurnCpu, Running, Acting, Verbs, MemoryLegs, Quiet, Acts
    <3>3. PidsLegs'
      BY <2>17 DEF BurnCpu, Running, Acting, Verbs, PidsLegs, Quiet, Acts
    <3>4. CpuLegs'
      BY <2>17 DEF BurnCpu, Running, Acting, Verbs, CpuLegs, Quiet, Acts
    <3>5. TreeLegs'
      BY <2>17 DEF BurnCpu, Running, Acting, Verbs, TreeLegs
    <3>6. TreeInJob'
      BY <2>17 DEF BurnCpu, Running, Acting, Verbs, TreeLegs, TreeInJob, Quiet
    <3>7. ProvedLimitsAct'
      BY <2>17 DEF BurnCpu, Running, Acting, ProvedLimitsAct, Untouched, StrikesIn, Deceptive
    <3>8. NoMemberOutlivesProbe'
      BY <2>17 DEF BurnCpu, Running, Acting, Verbs, NoMemberOutlivesProbe
    <3>9. QED
      BY <3>1, <3>2, <3>3, <3>4, <3>5, <3>6, <3>7, <3>8
  <2>18. CASE SpinnerDies
    <3>1. Verbs'
      BY <2>18 DEF SpinnerDies, Running, Acts, Dies, Verbs
    <3>2. MemoryLegs'
      BY <2>18 DEF SpinnerDies, Running, Acts, Dies, Verbs, MemoryLegs, Quiet
    <3>3. PidsLegs'
      BY <2>18 DEF SpinnerDies, Running, Acts, Dies, Verbs, PidsLegs, Quiet
    <3>4. CpuLegs'
      BY <2>18 DEF SpinnerDies, Running, Acts, Dies, Verbs, CpuLegs, Quiet
    <3>5. TreeLegs'
      BY <2>18 DEF SpinnerDies, Running, Acts, Dies, Verbs, TreeLegs
    <3>6. TreeInJob'
      BY <2>18 DEF SpinnerDies, Running, Acts, Dies, Verbs, TreeLegs, TreeInJob, Quiet
    <3>7. ProvedLimitsAct'
      BY <2>18 DEF SpinnerDies, Running, Acts, Dies, ProvedLimitsAct, Untouched, StrikesIn,
             Deceptive
    <3>8. NoMemberOutlivesProbe'
      BY <2>18 DEF SpinnerDies, Running, Acts, Dies, Verbs, NoMemberOutlivesProbe
    <3>9. QED
      BY <3>1, <3>2, <3>3, <3>4, <3>5, <3>6, <3>7, <3>8
  <2>19. CASE Struck
    <3>1. Verbs'
      BY <2>19, StrikeMarks DEF Struck, Running, Acting, Dies, Verbs
    <3>2. MemoryLegs'
      BY <2>19, StrikeMarks DEF Struck, Running, Acting, Dies, Verbs, MemoryLegs, Quiet, Acts
    <3>3. PidsLegs'
      BY <2>19, StrikeMarks DEF Struck, Running, Acting, Dies, Verbs, PidsLegs, Quiet, Acts
    <3>4. CpuLegs'
      BY <2>19, StrikeMarks DEF Struck, Running, Acting, Dies, Verbs, CpuLegs, Quiet, Acts
    <3>5. TreeLegs'
      BY <2>19, StrikeMarks DEF Struck, Running, Acting, Dies, Verbs, TreeLegs
    <3>6. TreeInJob'
      BY <2>19, StrikeMarks DEF Struck, Running, Acting, Dies, Verbs, TreeLegs, TreeInJob,
             Quiet
    <3>7. ProvedLimitsAct'
      BY <2>19, StrikeMarks DEF Struck, Running, Acting, Dies, ProvedLimitsAct, Untouched,
             StrikesIn, Deceptive
    <3>8. NoMemberOutlivesProbe'
      BY <2>19, StrikeMarks DEF Struck, Running, Acting, Dies, Verbs, NoMemberOutlivesProbe
    <3>9. QED
      BY <3>1, <3>2, <3>3, <3>4, <3>5, <3>6, <3>7, <3>8
  <2>20. CASE Tick
    <3>1. Verbs'
      BY <2>20 DEF Tick, Running, Verbs
    <3>2. MemoryLegs'
      BY <2>20 DEF Tick, Running, Verbs, MemoryLegs, Quiet, Acts
    <3>3. PidsLegs'
      BY <2>20 DEF Tick, Running, Verbs, PidsLegs, Quiet, Acts
    <3>4. CpuLegs'
      BY <2>20 DEF Tick, Running, Verbs, CpuLegs, Quiet, Acts
    <3>5. TreeLegs'
      BY <2>20 DEF Tick, Running, Verbs, TreeLegs
    <3>6. TreeInJob'
      BY <2>20 DEF Tick, Running, Verbs, TreeLegs, TreeInJob, Quiet
    <3>7. ProvedLimitsAct'
      BY <2>20 DEF Tick, Running, ProvedLimitsAct, Untouched, StrikesIn, Deceptive
    <3>8. NoMemberOutlivesProbe'
      BY <2>20 DEF Tick, Running, Verbs, NoMemberOutlivesProbe
    <3>9. QED
      BY <3>1, <3>2, <3>3, <3>4, <3>5, <3>6, <3>7, <3>8
  <2>21. CASE UNCHANGED vars
    BY <2>21 DEF vars, Verbs, MemoryLegs, PidsLegs, CpuLegs, TreeLegs, TreeInJob, Quiet,
           ProvedLimitsAct, Untouched, StrikesIn, Deceptive, NoMemberOutlivesProbe, Running
  <2>22. QED
    BY <2>1, <2>2, <2>3, <2>4, <2>5, <2>6, <2>7, <2>8, <2>9, <2>10, <2>11, <2>12, <2>13, <2>14, <2>15, <2>16, <2>17, <2>18, <2>19, <2>20, <2>21 DEF Next, Probe, Payload
<1>3. TypeOK /\ IInv /\ [Next]_vars => TypeOK'
  BY TypeStep DEF IInv
<1>4. QED
  BY <1>1, <1>2, <1>3, PTL DEF Spec

\* Every variable keeps its type: a verb publishes only what its probe reads.
THEOREM TypeCorrect == Spec => []TypeOK
BY Invariance, PTL

\* A limit that was proved acts, for any windows: no race of the child with its
\* own assignment and no fault in the control leg yields a yes by itself.
THEOREM Proved == Spec => []ProvedLimitsAct
BY Invariance, PTL DEF IInv

\* The gate keeps the grandchild in the job, so an undisturbed kill-tree probe
\* that heard of it in time says yes.
THEOREM WorkingProved == Spec => []WorkingKillTreeIsProved
<1>1. TypeOK /\ IInv => WorkingKillTreeIsProved
  BY DEF IInv, TreeInJob, Quiet, WorkingKillTreeIsProved, StrikesIn
<1>2. QED
  BY <1>1, Invariance, PTL

\* Nobody of the job outlives its probe, whatever failed.
THEOREM NobodyLeft == Spec => []NoMemberOutlivesProbe
BY Invariance, PTL DEF IInv

-----------------------------------------------------------------------------
(* The probes end: what ProbeEnds rests on, without the fairness.          *)

\* The stages a leg may still have before it.
LegStages ==
  CASE pc = "handshake" -> 9
    [] pc = "spawn" -> 8
    [] pc = "assign" -> 7
    [] pc = "open" -> 6
    [] pc = "poll" -> 5
    [] pc = "look" -> 4
    [] pc = "terminate" -> 3
    [] pc \in {"reread", "dwell", "reap"} -> 2
    [] pc = "clean" -> 1
    [] pc = "done" -> 0

\* And the probe: after a control leg there may be another, from its spawn on.
Later == IF leg = "control" /\ pc # "done" THEN LegStages + 8 ELSE LegStages

\* A bound on the steps left to the probing thread and its clock: each stage is
\* one step of the thread and Window ticks at most.
Left == Later * (Window + 1) + (Window - waited)

\* Neither the child nor a fault puts a probe back, and every step of the thread
\* and of the clock brings it nearer to its end.
RunsDown == Left' <= Left /\ (Probe \/ Tick => Left' < Left)

\* The thread has a step, or time can pass, or the spinner's time is up.
MayGoOn ==
  \/ pc \in {"handshake", "spawn", "assign", "open", "reread", "look", "terminate", "clean"}
  \/ pc = "poll" /\ (Settled \/ waited = Window)
  \/ pc = "dwell" /\ (~ Running("child") \/ waited = Dwell)
  \/ pc = "reap" /\ ((\A p \in Procs : ~ Running(p)) \/ waited = Window)
  \/ /\ \/ pc \in {"poll", "reap"} /\ waited < Window
        \/ pc = "dwell" /\ waited < Dwell
     /\ ~ (Running("child") /\ age >= host.lifetime)
  \/ kind = "cpu" /\ Running("child") /\ (Acts \/ age >= host.lifetime)

\* A stage less is worth more than a poll.
LEMMA LessLeft ==
  ASSUME NEW a \in Nat, NEW b \in Nat, a < b, NEW v \in 0 .. Window, NEW w \in 0 .. Window
  PROVE  a * (Window + 1) + (Window - v) < b * (Window + 1) + (Window - w)
<1> DEFINE n == Window + 1
           c == b - (a + 1)
<1>1. n \in Nat /\ c \in Nat /\ b = (a + 1) + c
  OBVIOUS
<1>2. c * n \in Nat /\ a * n \in Nat
  BY <1>1
<1>3. b * n = ((a + 1) + c) * n
  BY <1>1
<1>4. ((a + 1) + c) * n = (a * n + n) + c * n
  BY <1>1
<1>5. Window - v < n /\ Window - w >= 0 /\ Window - v \in Nat /\ Window - w \in Nat
  OBVIOUS
<1> HIDE DEF c
<1>6. a * n + (Window - v) < b * n + (Window - w)
  <2> DEFINE an == a * n
             bn == b * n
             cn == c * n
             x == Window - v
             y == Window - w
  <2>1. an \in Nat /\ cn \in Nat /\ bn = an + n + cn /\ x < n /\ y >= 0 /\ x \in Nat /\ y \in Nat
    BY <1>1, <1>2, <1>3, <1>4, <1>5
  <2> HIDE DEF n, an, bn, cn, x, y
  <2>2. n \in Nat
    BY <1>1
  <2>3. an + x < bn + y
    BY <2>1, <2>2
  <2>4. QED
    BY <2>3 DEF an, bn, x, y
<1>7. QED
  BY <1>6

\* Of at most 17 stages there is no more to come than 18 polls.
LEMMA LeftBound ==
  ASSUME NEW a \in 0 .. 17, NEW w \in 0 .. Window
  PROVE  a * (Window + 1) + (Window - w) \in 0 .. 18 * (Window + 1)
<1>1. a * (Window + 1) + (Window - w) < 18 * (Window + 1) + (Window - Window)
  <2>1. a \in Nat /\ 18 \in Nat /\ a < 18 /\ Window \in 0 .. Window
    OBVIOUS
  <2>2. QED
    BY <2>1, LessLeft
<1>2. a * (Window + 1) \in Nat /\ Window - w \in Nat
  <2>1. a \in Nat /\ Window + 1 \in Nat
    OBVIOUS
  <2>2. QED
    BY <2>1
<1> DEFINE x == a * (Window + 1)
<1> HIDE DEF x
<1>3. x + (Window - w) \in 0 .. 18 * (Window + 1)
  BY <1>1, <1>2 DEF x
<1>4. QED
  BY <1>3 DEF x

\* Every step of the thread leaves a stage behind.
LEMMA StageBehind ==
  ASSUME TypeOK, Verbs, Probe
  PROVE  Later \in Nat /\ Later' \in Nat /\ Later' < Later
<1> USE DEF Later, LegStages, prober, TypeOK
<1>1. CASE Handshake \/ SpawnIntoJob
  BY <1>1 DEF Handshake, SpawnIntoJob, Ends
<1>2. CASE AssignProcess \/ AssignFails \/ OpenGate
  BY <1>2 DEF AssignProcess, AssignFails, OpenGate, Ends
<1>3. CASE PollEnds
  BY <1>3 DEF PollEnds, Ends
<1>4. CASE Reread \/ DwellEnds \/ LookAlive
  BY <1>4 DEF Reread, DwellEnds, LookAlive, Ends
<1>5. CASE Terminate \/ Reaped \/ PollTimesOut
  BY <1>5 DEF Terminate, Reaped, PollTimesOut, Ends
<1>6. CASE CleanUp
  BY <1>6 DEF CleanUp, GoesOn
<1>7. QED
  BY <1>1, <1>2, <1>3, <1>4, <1>5, <1>6 DEF Probe

\* Within eighteen stages of Window ticks each the thread of a probe is done, as
\* long as it runs and time passes, whatever the child does (ProbeEnds).
THEOREM ProbeRunsDown == Spec => [](Left \in 0 .. 18 * (Window + 1)) /\ [][RunsDown]_vars
<1>1. TypeOK => Later \in 0 .. 17 /\ Left \in 0 .. 18 * (Window + 1)
  <2> SUFFICES ASSUME TypeOK PROVE Later \in 0 .. 17 /\ Left \in 0 .. 18 * (Window + 1)
    OBVIOUS
  <2>1. Later \in 0 .. 17 /\ waited \in 0 .. Window
    BY DEF TypeOK, Later, LegStages
  <2> DEFINE x == Later
  <2> HIDE DEF x
  <2>2. x * (Window + 1) + (Window - waited) \in 0 .. 18 * (Window + 1)
    BY <2>1, LeftBound DEF x
  <2>3. QED
    BY <2>1, <2>2 DEF Left, x
<1>2. TypeOK /\ TypeOK' /\ Verbs /\ Next => RunsDown
  <2> SUFFICES ASSUME TypeOK, TypeOK', Verbs, Next PROVE RunsDown
    OBVIOUS
  <2>0. /\ waited \in 0 .. Window /\ waited' \in 0 .. Window
        /\ Left \in Nat /\ Left' \in Nat /\ Later \in Nat
    <3>1. waited \in 0 .. Window /\ waited' \in 0 .. Window /\ Later' \in 0 .. 17
      BY DEF TypeOK, Later, LegStages
    <3> DEFINE x == Later'
    <3>2. x \in 0 .. 17
      BY <3>1
    <3> HIDE DEF x
    <3>3. x * (Window + 1) + (Window - waited') \in 0 .. 18 * (Window + 1)
      BY <3>1, <3>2, LeftBound
    <3>4. Left' \in 0 .. 18 * (Window + 1)
      BY <3>3 DEF Left, x
    <3>5. \A k : k \in 0 .. 18 * (Window + 1) => k \in Nat
      OBVIOUS
    <3>6. Left \in Nat /\ Left' \in Nat
      BY <1>1, <3>4, <3>5
    <3>7. QED
      BY <1>1, <3>1, <3>6
  <2>1. ASSUME Probe PROVE Left' < Left
    <3> DEFINE a == Later'
               b == Later
    <3>1. a \in Nat /\ b \in Nat /\ a < b
      BY <2>1, StageBehind
    <3> HIDE DEF a, b
    <3>2. a * (Window + 1) + (Window - waited') < b * (Window + 1) + (Window - waited)
      BY <2>0, <3>1, LessLeft
    <3>3. QED
      BY <3>2 DEF Left, a, b
  <2>2. ASSUME Tick PROVE Left' < Left
    <3>1. Later' = Later /\ waited' = waited + 1
      BY <2>2 DEF Tick, Later, LegStages, prober
    <3> DEFINE x == Later * (Window + 1)
    <3>2. x \in Nat
      BY <2>0
    <3> HIDE DEF x
    <3>3. x + (Window - waited') < x + (Window - waited)
      BY <2>0, <3>1, <3>2
    <3>4. Left' = x + (Window - waited') /\ Left = x + (Window - waited)
      BY <3>1 DEF Left, x
    <3>5. QED
      BY <3>3, <3>4
  <2>3. ASSUME ~ Probe, ~ Tick PROVE Left' = Left
    <3>1. pc' = pc /\ waited' = waited /\ leg' = leg
      BY <2>3 DEF Next, Payload, Alloc, TrySpawn, SpawnChild, BurnCpu, SpinnerDies, Struck, prober,
         clock
    <3>2. QED
      BY <3>1 DEF Left, Later, LegStages
  <2>4. QED
    BY <2>0, <2>1, <2>2, <2>3 DEF RunsDown
<1>3. QED
  BY <1>1, <1>2, Invariance, PTL DEF Spec, IInv

\* What keeps the clock going: only the spinner has a lifetime that may be shorter
\* than a poll, and nobody dwells for longer than Dwell.
ClockInv == Fits(kind, host) /\ (pc = "dwell" => waited <= Dwell)

\* And no probe waits for what may never come: before its end the thread has a
\* step, or time can pass, or the spinner's time is up.
THEOREM ProbeNeverStuck == Spec => [](pc = "done" \/ MayGoOn)
<1>1. Init => ClockInv
  BY DEF Init, ClockInv
<1>2. TypeOK /\ ClockInv /\ [Next]_vars => ClockInv'
  <2> SUFFICES ASSUME TypeOK, ClockInv, [Next]_vars PROVE ClockInv'
    OBVIOUS
  <2>1. kind' = kind /\ host' = host
    BY DEF Next, Probe, Payload, Handshake, SpawnIntoJob, AssignProcess, AssignFails, OpenGate,
       PollEnds, Reread, DwellEnds, LookAlive, Terminate, Reaped, PollTimesOut, CleanUp, Alloc,
       TrySpawn, SpawnChild, BurnCpu, SpinnerDies, Struck, Tick, prober, vars
  <2>2. Fits(kind, host)'
    BY <2>1 DEF ClockInv, Fits
  <2> USE DEF TypeOK, ClockInv, Ends
  <2>3. CASE Probe
    <3>1. pc' = "dwell" => waited' = 0
      BY <2>3 DEF Probe, Handshake, SpawnIntoJob, AssignProcess, AssignFails, OpenGate,
         PollEnds, Reread, DwellEnds, LookAlive, Terminate, Reaped, PollTimesOut, CleanUp
    <3>2. QED
      BY <2>2, <3>1
  <2>4. CASE Payload \/ Struck
    <3>1. pc' = pc /\ waited' = waited
      BY <2>4 DEF Payload, Alloc, TrySpawn, SpawnChild, BurnCpu, SpinnerDies, Struck, clock
    <3>2. QED
      BY <2>2, <3>1
  <2>5. CASE Tick
    BY <2>2, <2>5 DEF Tick, prober
  <2>6. CASE UNCHANGED vars
    BY <2>2, <2>6 DEF vars
  <2>7. QED
    BY <2>3, <2>4, <2>5, <2>6 DEF Next
<1>3. TypeOK /\ ClockInv => pc = "done" \/ MayGoOn
  <2> SUFFICES ASSUME TypeOK, ClockInv, pc # "done" PROVE MayGoOn
    OBVIOUS
  <2>1. CASE pc \in {"handshake", "spawn", "assign", "open", "reread", "look", "terminate", "clean"}
    BY <2>1 DEF MayGoOn
  <2>2. CASE pc \in {"poll", "dwell", "reap"}
    <3>1. waited \in 0 .. Window /\ age \in 0 .. Window /\ (pc = "dwell" => waited <= Dwell)
      BY DEF TypeOK, ClockInv
    <3>2. kind # "cpu" => host.lifetime = Window + 1
      BY DEF ClockInv, Fits
    <3>3. Running("child") /\ age >= host.lifetime => kind = "cpu"
      BY <3>1, <3>2
    <3>4. QED
      BY <2>2, <3>1, <3>3 DEF MayGoOn
  <2>3. QED
    BY <2>1, <2>2 DEF TypeOK
<1>4. QED
  BY <1>1, <1>2, <1>3, Invariance, PTL DEF Spec

=============================================================================
