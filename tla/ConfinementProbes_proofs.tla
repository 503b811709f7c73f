----------------------- MODULE ConfinementProbes_proofs -----------------------
(* Proofs about ConfinementProbes, for any length of the polls and any      *)
(* number of passing faults.                                                *)
EXTENDS ConfinementProbes, TLAPS

USE BoundsAssumption

\* A fault marks one strike, in the leg under way, and no strike is forgotten.
LEMMA StrikeMarks ==
  ASSUME TypeOK, Strike
  PROVE  /\ struck' \in [1 .. MaxFaults -> {"no", "control", "claim"}]
         /\ \E i \in 1 .. MaxFaults :
              /\ struck[i] = "no" /\ struck'[i] = Leg
              /\ \A j \in 1 .. MaxFaults : j # i => struck'[j] = struck[j]
         /\ \A l \in {"control", "claim"}, i \in 1 .. MaxFaults : struck[i] = l => struck'[i] = l
BY DEF TypeOK, Strike, Leg

\* What every control of a host being right comes to.
LEMMA AllWork ==
  ASSUME TypeOK, \A f \in DOMAIN host : host[f]
  PROVE  host.runs /\ host.plain /\ host.denies /\ host.grants /\ host.kills
<1>1. DOMAIN host = {"runs", "plain", "denies", "grants", "kills"}
  BY DEF TypeOK, Hosts
<1>2. QED
  BY <1>1

\* Whoever dies, everybody stays in one of the four states.
LEMMA DeadOnes ==
  ASSUME TypeOK, NEW P
  PROVE  Dies(P) => proc' \in [Procs -> {"none", "suspended", "running", "dead"}]
BY DEF TypeOK, Dies, Alive

\* The probes keep the types of their state, on any host, under any number of faults.
THEOREM TypeCorrect == Spec => []TypeOK
<1> USE DEF TypeOK, Procs
<1>1. Init => TypeOK
  <2> SUFFICES ASSUME Init PROVE TypeOK
    OBVIOUS
  <2>1. host \in Hosts /\ kind \in {"fs", "net", "caging"} /\ waited \in 0 .. Window
    BY DEF Init
  <2>2. pending \in BOOLEAN /\ report \in BOOLEAN /\ verdict = "none" /\ result = "none"
    BY DEF Init
  <2>3. /\ proc \in [Procs -> {"none", "suspended", "running", "dead"}]
        /\ struck \in [1 .. MaxFaults -> {"no", "control", "claim"}]
    BY DEF Init
  <2>4. QED
    BY <2>1, <2>2, <2>3 DEF Init
<1>2. TypeOK /\ [Next]_vars => TypeOK'
  <2> SUFFICES ASSUME TypeOK, [Next]_vars PROVE TypeOK'
    OBVIOUS
  <2> USE DEF fixed, tree, files, socket
  <2>1. CASE Handshake
    BY <2>1, DeadOnes DEF Handshake, Goes, Ends
  <2>2. CASE Place
    BY <2>2, DeadOnes DEF Place, Goes
  <2>3. CASE PortSeen
    BY <2>3, DeadOnes DEF PortSeen, Goes
  <2>4. CASE ControlLeg
    BY <2>4, DeadOnes, StrikeMarks DEF ControlLeg, Goes, Ends, Reaches
  <2>5. CASE Launch
    BY <2>5, DeadOnes, StrikeMarks DEF Launch, Goes, Ends
  <2>6. CASE ReportSeen
    BY <2>6, DeadOnes DEF ReportSeen, Goes
  <2>7. CASE ResultSeen
    BY <2>7, DeadOnes DEF ResultSeen, Goes, Ends, Proves
  <2>8. CASE LookAlive
    BY <2>8, DeadOnes DEF LookAlive, Goes, Ends, Alive
  <2>9. CASE KillLauncher
    BY <2>9, DeadOnes DEF KillLauncher, Goes, Alive
  <2>10. CASE Reaped
    BY <2>10, DeadOnes DEF Reaped, Ends, Alive
  <2>11. CASE PollTimesOut
    BY <2>11, DeadOnes DEF PollTimesOut, Ends, Alive
  <2>12. CASE CleanUp
    BY <2>12, DeadOnes DEF CleanUp, Alive
  <2>13. CASE CreateChild
    BY <2>13, DeadOnes DEF CreateChild, LauncherAt, Running
  <2>14. CASE AssignChild
    BY <2>14, DeadOnes DEF AssignChild, Alive, LauncherAt, Running
  <2>15. CASE WriteProbeReport
    BY <2>15, DeadOnes DEF WriteProbeReport, LauncherAt, Running
  <2>16. CASE ResumeChild
    BY <2>16, DeadOnes DEF ResumeChild, LauncherAt, Running
  <2>17. CASE LauncherEnds
    BY <2>17, DeadOnes, StrikeMarks DEF LauncherEnds, LauncherAt, Running, Alive
  <2>18. CASE Listen
    <3>1. target' \in {"up", "gone"} /\ pending' \in BOOLEAN
      BY <2>18 DEF Listen
    <3>2. QED
      BY <2>18, <3>1 DEF Listen
  <2>19. CASE FsCheck
    BY <2>19, DeadOnes DEF FsCheck, Confined, Running, Publish, Alive, Reaches
  <2>20. CASE Connect
    <3>1. PICK answer \in {"connected", "denied", "timeout"} : Publish(answer)
      BY <2>20 DEF Connect
    <3>2. result' \in {answer, result} /\ pending' \in BOOLEAN
      BY <2>20, <3>1 DEF Publish, Connect
    <3>3. QED
      BY <3>1, <3>2, DeadOnes DEF Publish
  <2>21. CASE SpawnChild
    <3>1. proc' \in [Procs -> {"none", "suspended", "running", "dead"}]
      BY <2>21, DeadOnes DEF SpawnChild
    <3>2. members' \subseteq {"child", "grandchild"} /\ result' \in {"pid", result}
      BY <2>21 DEF SpawnChild
    <3>3. QED
      BY <2>21, <3>1, <3>2 DEF SpawnChild
  <2>22. CASE Struck
    BY <2>22, DeadOnes, StrikeMarks DEF Struck, Alive, Running
  <2>23. CASE Tick
    BY <2>23, DeadOnes DEF Tick
  <2>24. CASE UNCHANGED vars
    BY <2>24 DEF vars
  <2>25. QED
    BY <2>1, <2>2, <2>3, <2>4, <2>5, <2>6, <2>7, <2>8, <2>9, <2>10, <2>11, <2>12, <2>13, <2>14, <2>15, <2>16, <2>17, <2>18, <2>19, <2>20, <2>21, <2>22, <2>23, <2>24 DEF Next, Probe, Launcher, Verbs
<1>3. QED
  BY <1>1, <1>2, PTL DEF Spec

-----------------------------------------------------------------------------
(* The inductive invariant.                                                *)

\* Who has started, and how far the launcher has come with its child.
Launches ==
  /\ pc \in {"handshake", "place", "port", "control", "launch"} => lpc = "none"
  /\ pc \in {"place", "port", "control"} => kind # "caging"
  /\ pc = "port" => kind = "net"
  /\ pc \in {"handshake", "place"} => proc["listener"] = "none"
  /\ pc \in {"report", "look", "kill", "reap"} => kind = "caging"
  /\ \A p \in {"launcher", "listener", "grandchild"} : proc[p] # "suspended"
  /\ proc["launcher"] = "none" <=> lpc = "none"
  /\ proc["child"] = "none" <=> lpc \in {"none", "start"}
  /\ proc["child"] = "running" => lpc = "resumed"
  /\ proc["grandchild"] # "none" => lpc = "resumed" /\ kind = "caging"
  /\ result # "none" => lpc = "resumed"
  /\ proc["listener"] # "none" => kind = "net"
  /\ "child" \in members <=> lpc \in {"jobbed", "reported", "resumed"}
  /\ proc["grandchild"] # "none" => "grandchild" \in members

\* Where kill-on-close acts nobody of the job outlives the launcher.
Caged ==
  /\ host.kills /\ ~ Alive("launcher") => ~ Alive("grandchild")
  /\ host.kills /\ ~ Alive("launcher") /\ Alive("child") => lpc = "created"
  /\ pc = "done" => ~ Alive("launcher") /\ ~ Alive("listener")

\* Without a strike in its second leg, what the file probe reads of a host that
\* does not deny is the file.
FsLeg ==
  kind = "fs" /\ (\A i \in 1 .. MaxFaults : struck[i] # "claim") =>
    /\ pc \in {"launch", "result"} => Reaches
    /\ pc = "result" /\ result = "denied" => host.denies

\* Where kill-on-close does not act, each of the two that is gone cost a strike.
CageLeg ==
  kind = "caging" =>
    /\ pc \in {"look", "kill", "reap"} => result # "none"
    /\ pc \in {"kill", "reap"} /\ ~ host.kills =>
         /\ ~ Alive("child") \/ ~ Alive("grandchild") =>
              \E i \in 1 .. MaxFaults : struck[i] = "claim"
         /\ ~ Alive("child") /\ ~ Alive("grandchild") =>
              \E i, j \in 1 .. MaxFaults : i # j /\ struck[i] = "claim" /\ struck[j] = "claim"

Sound == \A f \in DOMAIN host : host[f]
Still == \A i \in 1 .. MaxFaults : struck[i] = "no"

\* Undisturbed, on a host where everything works, no step of a probe fails.
Smooth ==
  Sound /\ Still =>
    /\ pc = "control" => target = "up"
    /\ kind = "net" /\ pc \in {"handshake", "place", "port", "control"} =>
         ~ pending /\ target \in {"absent", "up"}
    /\ pc \in {"handshake", "place"} => target = "absent"
    /\ kind # "caging" => result \in {"none", "denied", "timeout"}
    /\ kind = "fs" => result # "timeout"
    /\ kind = "caging" /\ pc \in {"report", "result", "look", "kill"} =>
         /\ Alive("launcher")
         /\ lpc \notin {"none", "start"} => Alive("child")
         /\ result # "none" => result = "pid" /\ Alive("grandchild") /\ Alive("child")
         /\ proc["grandchild"] # "dead"
    /\ pc \in {"clean", "done"} => verdict \in {"late", "yes"}

IInv == Launches /\ Caged /\ FsLeg /\ CageLeg /\ Smooth /\ ProvedControlsAct

\* What each place of a probe says of the processes and faults so far is kept by every
\* step of the probes of win-appcontainer.ts and of the launcher they start.
THEOREM Invariance == Spec => []IInv
<1> USE DEF TypeOK, Procs
<1>1. Init => IInv
  BY DEF Init, IInv, Launches, Caged, FsLeg, CageLeg, Smooth, ProvedControlsAct, Alive
<1>2. TypeOK /\ TypeOK' /\ IInv /\ [Next]_vars => IInv'
  <2> SUFFICES ASSUME TypeOK, TypeOK', IInv, [Next]_vars PROVE IInv'
    OBVIOUS
  <2> USE DEF fixed, tree, files, socket, IInv, Hosts
  <2>1. CASE Handshake
    <3>1. Launches'
      BY <2>1 DEF Handshake, Goes, Ends, Launches, Confined
    <3>2. Caged'
      BY <2>1 DEF Handshake, Goes, Ends, Launches, Caged, Alive
    <3>3. FsLeg'
      BY <2>1 DEF Handshake, Goes, Ends, Launches, FsLeg, Reaches
    <3>4. CageLeg'
      BY <2>1 DEF Handshake, Goes, Ends, Launches, CageLeg, Alive
    <3>5. Smooth'
      <4>1. Sound => host.runs
        BY AllWork DEF Sound
      <4>2. CASE ~ host.runs
        BY <2>1, <4>1, <4>2 DEF Handshake, Smooth, Sound
      <4>3. CASE host.runs
        BY <2>1, <4>3 DEF Handshake, Goes, Launches, Smooth, Sound, Still
      <4>4. QED
        BY <4>2, <4>3
    <3>6. ProvedControlsAct'
      BY <2>1 DEF Handshake, Goes, Ends, FsLeg, CageLeg, ProvedControlsAct, Untouched,
             StrikesIn
    <3>7. QED
      BY <3>1, <3>2, <3>3, <3>4, <3>5, <3>6
  <2>2. CASE Place
    <3>1. Launches'
      BY <2>2 DEF Place, Goes, Launches, Confined
    <3>2. Caged'
      BY <2>2 DEF Place, Goes, Launches, Caged, Alive
    <3>3. FsLeg'
      BY <2>2 DEF Place, Goes, Launches, FsLeg, Reaches
    <3>4. CageLeg'
      BY <2>2 DEF Place, Goes, Launches, CageLeg, Alive
    <3>5. Smooth'
      BY <2>2, AllWork DEF Place, Goes, Launches, CageLeg, Smooth, Sound, Still, Alive
    <3>6. ProvedControlsAct'
      BY <2>2 DEF Place, Goes, FsLeg, CageLeg, ProvedControlsAct, Untouched, StrikesIn
    <3>7. QED
      BY <3>1, <3>2, <3>3, <3>4, <3>5, <3>6
  <2>3. CASE PortSeen
    <3>1. Launches'
      BY <2>3 DEF PortSeen, Goes, Launches, Confined
    <3>2. Caged'
      BY <2>3 DEF PortSeen, Goes, Launches, Caged, Alive
    <3>3. FsLeg'
      BY <2>3 DEF PortSeen, Goes, Launches, FsLeg, Reaches
    <3>4. CageLeg'
      BY <2>3 DEF PortSeen, Goes, Launches, CageLeg, Alive
    <3>5. Smooth'
      BY <2>3, AllWork DEF PortSeen, Goes, Launches, CageLeg, Smooth, Sound, Still, Alive
    <3>6. ProvedControlsAct'
      BY <2>3 DEF PortSeen, Goes, FsLeg, CageLeg, ProvedControlsAct, Untouched, StrikesIn
    <3>7. QED
      BY <3>1, <3>2, <3>3, <3>4, <3>5, <3>6
  <2>4. CASE ControlLeg
    <3>1. Launches'
      BY <2>4, StrikeMarks DEF ControlLeg, Goes, Ends, Reaches, Launches, Confined, Leg
    <3>2. Caged'
      BY <2>4, StrikeMarks DEF ControlLeg, Goes, Ends, Reaches, Launches, Caged, Alive, Leg
    <3>3. FsLeg'
      BY <2>4, StrikeMarks DEF ControlLeg, Goes, Ends, Reaches, Launches, FsLeg, Leg
    <3>4. CageLeg'
      BY <2>4, StrikeMarks DEF ControlLeg, Goes, Ends, Reaches, Launches, CageLeg, Alive, Leg
    <3>5. Smooth'
      BY <2>4, AllWork, StrikeMarks DEF ControlLeg, Goes, Ends, Reaches, Launches, CageLeg,
             Smooth, Sound, Still, Alive, Leg
    <3>6. ProvedControlsAct'
      BY <2>4, StrikeMarks DEF ControlLeg, Goes, Ends, Reaches, FsLeg, CageLeg,
             ProvedControlsAct, Untouched, StrikesIn, Leg
    <3>7. QED
      BY <3>1, <3>2, <3>3, <3>4, <3>5, <3>6
  <2>5. CASE Launch
    <3>1. Launches'
      BY <2>5, StrikeMarks DEF Launch, Goes, Ends, Launches, Confined, Leg
    <3>2. Caged'
      BY <2>5, StrikeMarks DEF Launch, Goes, Ends, Launches, Caged, Alive, Leg
    <3>3. FsLeg'
      BY <2>5, StrikeMarks DEF Launch, Goes, Ends, Launches, FsLeg, Reaches, Leg
    <3>4. CageLeg'
      BY <2>5, StrikeMarks DEF Launch, Goes, Ends, Launches, CageLeg, Alive, Leg
    <3>5. Smooth'
      BY <2>5, AllWork, StrikeMarks DEF Launch, Goes, Ends, Launches, CageLeg, Smooth, Sound,
             Still, Alive, Leg
    <3>6. ProvedControlsAct'
      BY <2>5, StrikeMarks DEF Launch, Goes, Ends, FsLeg, CageLeg, ProvedControlsAct,
             Untouched, StrikesIn, Leg
    <3>7. QED
      BY <3>1, <3>2, <3>3, <3>4, <3>5, <3>6
  <2>6. CASE ReportSeen
    <3>1. Launches'
      BY <2>6 DEF ReportSeen, Goes, Launches, Confined
    <3>2. Caged'
      BY <2>6 DEF ReportSeen, Goes, Launches, Caged, Alive
    <3>3. FsLeg'
      BY <2>6 DEF ReportSeen, Goes, Launches, FsLeg, Reaches
    <3>4. CageLeg'
      BY <2>6 DEF ReportSeen, Goes, Launches, CageLeg, Alive
    <3>5. Smooth'
      BY <2>6, AllWork DEF ReportSeen, Goes, Launches, CageLeg, Smooth, Sound, Still, Alive
    <3>6. ProvedControlsAct'
      BY <2>6 DEF ReportSeen, Goes, FsLeg, CageLeg, ProvedControlsAct, Untouched, StrikesIn
    <3>7. QED
      BY <3>1, <3>2, <3>3, <3>4, <3>5, <3>6
  <2>7. CASE ResultSeen
    <3>1. Launches'
      BY <2>7 DEF ResultSeen, Goes, Ends, Proves, Launches, Confined
    <3>2. Caged'
      BY <2>7 DEF ResultSeen, Goes, Ends, Proves, Launches, Caged, Alive
    <3>3. FsLeg'
      BY <2>7 DEF ResultSeen, Goes, Ends, Proves, Launches, FsLeg, Reaches
    <3>4. CageLeg'
      BY <2>7 DEF ResultSeen, Goes, Ends, Proves, Launches, CageLeg, Alive
    <3>5. Smooth'
      BY <2>7, AllWork DEF ResultSeen, Goes, Ends, Proves, Launches, CageLeg, Smooth, Sound,
             Still, Alive
    <3>6. ProvedControlsAct'
      BY <2>7 DEF ResultSeen, Goes, Ends, Proves, FsLeg, CageLeg, ProvedControlsAct,
             Untouched, StrikesIn
    <3>7. QED
      BY <3>1, <3>2, <3>3, <3>4, <3>5, <3>6
  <2>8. CASE LookAlive
    <3>1. Launches'
      BY <2>8 DEF LookAlive, Goes, Ends, Alive, Launches, Confined
    <3>2. Caged'
      BY <2>8 DEF LookAlive, Goes, Ends, Alive, Launches, Caged
    <3>3. FsLeg'
      BY <2>8 DEF LookAlive, Goes, Ends, Alive, Launches, FsLeg, Reaches
    <3>4. CageLeg'
      BY <2>8 DEF LookAlive, Goes, Ends, Alive, Launches, CageLeg
    <3>5. Smooth'
      BY <2>8, AllWork DEF LookAlive, Goes, Ends, Alive, Launches, CageLeg, Smooth, Sound,
             Still
    <3>6. ProvedControlsAct'
      BY <2>8 DEF LookAlive, Goes, Ends, Alive, FsLeg, CageLeg, ProvedControlsAct, Untouched,
             StrikesIn
    <3>7. QED
      BY <3>1, <3>2, <3>3, <3>4, <3>5, <3>6
  <2>9. CASE KillLauncher
    <3>1. Launches'
      BY <2>9 DEF KillLauncher, Goes, Dies, Held, Alive, Launches, Confined
    <3>2. Caged'
      BY <2>9 DEF KillLauncher, Goes, Dies, Held, Alive, Launches, Caged
    <3>3. FsLeg'
      BY <2>9 DEF KillLauncher, Goes, Dies, Held, Alive, Launches, FsLeg, Reaches
    <3>4. CageLeg'
      BY <2>9 DEF KillLauncher, Goes, Dies, Held, Alive, Launches, CageLeg
    <3>5. Smooth'
      BY <2>9, AllWork DEF KillLauncher, Goes, Dies, Held, Alive, Launches, CageLeg, Smooth,
             Sound, Still
    <3>6. ProvedControlsAct'
      BY <2>9 DEF KillLauncher, Goes, Dies, Held, Alive, FsLeg, CageLeg, ProvedControlsAct,
             Untouched, StrikesIn
    <3>7. QED
      BY <3>1, <3>2, <3>3, <3>4, <3>5, <3>6
  <2>10. CASE Reaped
    <3>1. Launches'
      BY <2>10 DEF Reaped, Ends, Alive, Launches, Confined
    <3>2. Caged'
      BY <2>10 DEF Reaped, Ends, Alive, Launches, Caged
    <3>3. FsLeg'
      BY <2>10 DEF Reaped, Ends, Alive, Launches, FsLeg, Reaches
    <3>4. CageLeg'
      BY <2>10 DEF Reaped, Ends, Alive, Launches, CageLeg
    <3>5. Smooth'
      BY <2>10, AllWork DEF Reaped, Ends, Alive, Launches, CageLeg, Smooth, Sound, Still
    <3>6. ProvedControlsAct'
      <4>1. kind = "caging" /\ ~ Alive("child") /\ ~ Alive("grandchild")
        BY <2>10 DEF Reaped, Launches
      <4>2. CASE host.kills
        BY <2>10, <4>1, <4>2 DEF Reaped, ProvedControlsAct
      <4>3. CASE ~ host.kills
        <5>1. PICK i, j \in 1 .. MaxFaults : i # j /\ struck[i] = "claim" /\ struck[j] = "claim"
          BY <2>10, <4>1, <4>3 DEF Reaped, CageLeg
        <5>2. ~ Untouched'
          BY <2>10, <4>1, <5>1 DEF Reaped, Untouched, StrikesIn
        <5>3. QED
          BY <5>2 DEF ProvedControlsAct
      <4>4. QED
        BY <4>2, <4>3
    <3>7. QED
      BY <3>1, <3>2, <3>3, <3>4, <3>5, <3>6
  <2>11. CASE PollTimesOut
    <3>1. Launches'
      BY <2>11 DEF PollTimesOut, Ends, Alive, Launches, Confined
    <3>2. Caged'
      BY <2>11 DEF PollTimesOut, Ends, Alive, Launches, Caged
    <3>3. FsLeg'
      BY <2>11 DEF PollTimesOut, Ends, Alive, Launches, FsLeg, Reaches
    <3>4. CageLeg'
      BY <2>11 DEF PollTimesOut, Ends, Alive, Launches, CageLeg
    <3>5. Smooth'
      BY <2>11, AllWork DEF PollTimesOut, Ends, Alive, Launches, CageLeg, Smooth, Sound, Still
    <3>6. ProvedControlsAct'
      BY <2>11 DEF PollTimesOut, Ends, Alive, FsLeg, CageLeg, ProvedControlsAct, Untouched,
             StrikesIn
    <3>7. QED
      BY <3>1, <3>2, <3>3, <3>4, <3>5, <3>6
  <2>12. CASE CleanUp
    <3>1. Launches'
      BY <2>12 DEF CleanUp, Dies, Held, Alive, Known, Launches, Confined
    <3>2. Caged'
      BY <2>12 DEF CleanUp, Dies, Held, Alive, Known, Launches, Caged
    <3>3. FsLeg'
      BY <2>12 DEF CleanUp, Dies, Held, Alive, Known, Launches, FsLeg, Reaches
    <3>4. CageLeg'
      BY <2>12 DEF CleanUp, Dies, Held, Alive, Known, Launches, CageLeg
    <3>5. Smooth'
      BY <2>12, AllWork DEF CleanUp, Dies, Held, Alive, Known, Launches, CageLeg, Smooth,
             Sound, Still
    <3>6. ProvedControlsAct'
      BY <2>12 DEF CleanUp, Dies, Held, Alive, Known, FsLeg, CageLeg, ProvedControlsAct,
             Untouched, StrikesIn
    <3>7. QED
      BY <3>1, <3>2, <3>3, <3>4, <3>5, <3>6
  <2>13. CASE CreateChild
    <3>1. Launches'
      BY <2>13 DEF CreateChild, LauncherAt, Running, Launches, Confined
    <3>2. Caged'
      BY <2>13 DEF CreateChild, LauncherAt, Running, Launches, Caged, Alive
    <3>3. FsLeg'
      BY <2>13 DEF CreateChild, LauncherAt, Running, Launches, FsLeg, Reaches
    <3>4. CageLeg'
      BY <2>13 DEF CreateChild, LauncherAt, Running, Launches, CageLeg, Alive
    <3>5. Smooth'
      BY <2>13, AllWork DEF CreateChild, LauncherAt, Running, Launches, CageLeg, Smooth,
             Sound, Still, Alive
    <3>6. ProvedControlsAct'
      BY <2>13 DEF CreateChild, LauncherAt, Running, FsLeg, CageLeg, ProvedControlsAct,
             Untouched, StrikesIn
    <3>7. QED
      BY <3>1, <3>2, <3>3, <3>4, <3>5, <3>6
  <2>14. CASE AssignChild
    <3>1. Launches'
      BY <2>14 DEF AssignChild, Alive, LauncherAt, Running, Launches, Confined
    <3>2. Caged'
      BY <2>14 DEF AssignChild, Alive, LauncherAt, Running, Launches, Caged
    <3>3. FsLeg'
      BY <2>14 DEF AssignChild, Alive, LauncherAt, Running, Launches, FsLeg, Reaches
    <3>4. CageLeg'
      BY <2>14 DEF AssignChild, Alive, LauncherAt, Running, Launches, CageLeg
    <3>5. Smooth'
      BY <2>14, AllWork DEF AssignChild, Alive, LauncherAt, Running, Launches, CageLeg,
             Smooth, Sound, Still
    <3>6. ProvedControlsAct'
      BY <2>14 DEF AssignChild, Alive, LauncherAt, Running, FsLeg, CageLeg, ProvedControlsAct,
             Untouched, StrikesIn
    <3>7. QED
      BY <3>1, <3>2, <3>3, <3>4, <3>5, <3>6
  <2>15. CASE WriteProbeReport
    <3>1. Launches'
      BY <2>15 DEF WriteProbeReport, LauncherAt, Running, Launches, Confined
    <3>2. Caged'
      BY <2>15 DEF WriteProbeReport, LauncherAt, Running, Launches, Caged, Alive
    <3>3. FsLeg'
      BY <2>15 DEF WriteProbeReport, LauncherAt, Running, Launches, FsLeg, Reaches
    <3>4. CageLeg'
      BY <2>15 DEF WriteProbeReport, LauncherAt, Running, Launches, CageLeg, Alive
    <3>5. Smooth'
      BY <2>15, AllWork DEF WriteProbeReport, LauncherAt, Running, Launches, CageLeg, Smooth,
             Sound, Still, Alive
    <3>6. ProvedControlsAct'
      BY <2>15 DEF WriteProbeReport, LauncherAt, Running, FsLeg, CageLeg, ProvedControlsAct,
             Untouched, StrikesIn
    <3>7. QED
      BY <3>1, <3>2, <3>3, <3>4, <3>5, <3>6
  <2>16. CASE ResumeChild
    <3>1. Launches'
      BY <2>16 DEF ResumeChild, LauncherAt, Running, Launches, Confined
    <3>2. Caged'
      BY <2>16 DEF ResumeChild, LauncherAt, Running, Launches, Caged, Alive
    <3>3. FsLeg'
      BY <2>16 DEF ResumeChild, LauncherAt, Running, Launches, FsLeg, Reaches
    <3>4. CageLeg'
      BY <2>16 DEF ResumeChild, LauncherAt, Running, Launches, CageLeg, Alive
    <3>5. Smooth'
      BY <2>16, AllWork DEF ResumeChild, LauncherAt, Running, Launches, CageLeg, Smooth,
             Sound, Still, Alive
    <3>6. ProvedControlsAct'
      BY <2>16 DEF ResumeChild, LauncherAt, Running, FsLeg, CageLeg, ProvedControlsAct,
             Untouched, StrikesIn
    <3>7. QED
      BY <3>1, <3>2, <3>3, <3>4, <3>5, <3>6
  <2>17. CASE LauncherEnds
    <3>1. Launches'
      BY <2>17, StrikeMarks DEF LauncherEnds, LauncherAt, Running, Dies, Held, Alive,
             Launches, Confined, Leg
    <3>2. Caged'
      BY <2>17, StrikeMarks DEF LauncherEnds, LauncherAt, Running, Dies, Held, Alive,
             Launches, Caged, Leg
    <3>3. FsLeg'
      BY <2>17, StrikeMarks DEF LauncherEnds, LauncherAt, Running, Dies, Held, Alive,
             Launches, FsLeg, Reaches, Leg
    <3>4. CageLeg'
      BY <2>17, StrikeMarks DEF LauncherEnds, LauncherAt, Running, Dies, Held, Alive,
             Launches, CageLeg, Leg
    <3>5. Smooth'
      BY <2>17, AllWork, StrikeMarks DEF LauncherEnds, LauncherAt, Running, Dies, Held, Alive,
             Launches, CageLeg, Smooth, Sound, Still, Leg
    <3>6. ProvedControlsAct'
      BY <2>17, StrikeMarks DEF LauncherEnds, LauncherAt, Running, Dies, Held, Alive, FsLeg,
             CageLeg, ProvedControlsAct, Untouched, StrikesIn, Leg
    <3>7. QED
      BY <3>1, <3>2, <3>3, <3>4, <3>5, <3>6
  <2>18. CASE Listen
    <3>1. Launches'
      BY <2>18 DEF Listen, Running, Launches, Confined
    <3>2. Caged'
      BY <2>18 DEF Listen, Running, Launches, Caged, Alive
    <3>3. FsLeg'
      BY <2>18 DEF Listen, Running, Launches, FsLeg, Reaches
    <3>4. CageLeg'
      BY <2>18 DEF Listen, Running, Launches, CageLeg, Alive
    <3>5. Smooth'
      <4>1. kind = "net" /\ UNCHANGED <<kind, host, pc, proc, lpc, result, struck, verdict>>
        BY <2>18 DEF Listen, Running, Launches
      <4>2. ~ pending /\ target \in {"absent", "up"} => target' = "up" /\ ~ pending'
        BY <2>18 DEF Listen
      <4>3. pc \notin {"handshake", "place"}
        BY <2>18 DEF Listen, Running, Launches
      <4>4. QED
        BY <4>1, <4>2, <4>3 DEF Smooth, Sound, Still
    <3>6. ProvedControlsAct'
      BY <2>18 DEF Listen, Running, FsLeg, CageLeg, ProvedControlsAct, Untouched, StrikesIn
    <3>7. QED
      BY <3>1, <3>2, <3>3, <3>4, <3>5, <3>6
  <2>19. CASE FsCheck
    <3>1. Launches'
      BY <2>19 DEF FsCheck, Confined, Running, Publish, Dies, Alive, Reaches, Launches
    <3>2. Caged'
      BY <2>19 DEF FsCheck, Confined, Running, Publish, Dies, Alive, Reaches, Launches, Caged
    <3>3. FsLeg'
      BY <2>19 DEF FsCheck, Confined, Running, Publish, Dies, Alive, Reaches, Launches, FsLeg
    <3>4. CageLeg'
      BY <2>19 DEF FsCheck, Confined, Running, Publish, Dies, Alive, Reaches, Launches,
             CageLeg
    <3>5. Smooth'
      BY <2>19, AllWork DEF FsCheck, Confined, Running, Publish, Dies, Alive, Reaches,
             Launches, CageLeg, Smooth, Sound, Still
    <3>6. ProvedControlsAct'
      BY <2>19 DEF FsCheck, Confined, Running, Publish, Dies, Alive, Reaches, FsLeg, CageLeg,
             ProvedControlsAct, Untouched, StrikesIn
    <3>7. QED
      BY <3>1, <3>2, <3>3, <3>4, <3>5, <3>6
  <2>20. CASE Connect
    <3>1. Launches'
      BY <2>20 DEF Connect, Confined, Running, Publish, Dies, Alive, Reaches, Launches
    <3>2. Caged'
      BY <2>20 DEF Connect, Confined, Running, Publish, Dies, Alive, Reaches, Launches, Caged
    <3>3. FsLeg'
      BY <2>20 DEF Connect, Confined, Running, Publish, Dies, Alive, Reaches, Launches, FsLeg
    <3>4. CageLeg'
      BY <2>20 DEF Connect, Confined, Running, Publish, Dies, Alive, Reaches, Launches,
             CageLeg
    <3>5. Smooth'
      BY <2>20, AllWork DEF Connect, Confined, Running, Publish, Dies, Alive, Reaches,
             Launches, CageLeg, Smooth, Sound, Still
    <3>6. ProvedControlsAct'
      BY <2>20 DEF Connect, Confined, Running, Publish, Dies, Alive, Reaches, FsLeg, CageLeg,
             ProvedControlsAct, Untouched, StrikesIn
    <3>7. QED
      BY <3>1, <3>2, <3>3, <3>4, <3>5, <3>6
  <2>21. CASE SpawnChild
    <3>1. Launches'
      BY <2>21 DEF SpawnChild, Confined, Running, Dies, Alive, Launches
    <3>2. Caged'
      BY <2>21 DEF SpawnChild, Confined, Running, Dies, Alive, Launches, Caged
    <3>3. FsLeg'
      BY <2>21 DEF SpawnChild, Confined, Running, Dies, Alive, Launches, FsLeg, Reaches
    <3>4. CageLeg'
      BY <2>21 DEF SpawnChild, Confined, Running, Dies, Alive, Launches, CageLeg
    <3>5. Smooth'
      BY <2>21, AllWork DEF SpawnChild, Confined, Running, Dies, Alive, Launches, CageLeg,
             Smooth, Sound, Still
    <3>6. ProvedControlsAct'
      BY <2>21 DEF SpawnChild, Confined, Running, Dies, Alive, FsLeg, CageLeg,
             ProvedControlsAct, Untouched, StrikesIn
    <3>7. QED
      BY <3>1, <3>2, <3>3, <3>4, <3>5, <3>6
  <2>22. CASE Struck
    <3>1. Launches'
      BY <2>22, StrikeMarks DEF Struck, Dies, Held, Alive, Running, Launches, Confined, Leg
    <3>2. Caged'
      BY <2>22, StrikeMarks DEF Struck, Dies, Held, Alive, Running, Launches, Caged, Leg
    <3>3. FsLeg'
      BY <2>22, StrikeMarks DEF Struck, Dies, Held, Alive, Running, Launches, FsLeg, Reaches,
             Leg
    <3>4. CageLeg'
      BY <2>22, StrikeMarks DEF Struck, Dies, Held, Alive, Running, Launches, CageLeg, Leg
    <3>5. Smooth'
      BY <2>22, AllWork, StrikeMarks DEF Struck, Dies, Held, Alive, Running, Launches,
             CageLeg, Smooth, Sound, Still, Leg
    <3>6. ProvedControlsAct'
      BY <2>22, StrikeMarks DEF Struck, Dies, Held, Alive, Running, FsLeg, CageLeg,
             ProvedControlsAct, Untouched, StrikesIn, Leg
    <3>7. QED
      BY <3>1, <3>2, <3>3, <3>4, <3>5, <3>6
  <2>23. CASE Tick
    <3>1. Launches'
      BY <2>23 DEF Tick, Launches, Confined
    <3>2. Caged'
      BY <2>23 DEF Tick, Launches, Caged, Alive
    <3>3. FsLeg'
      BY <2>23 DEF Tick, Launches, FsLeg, Reaches
    <3>4. CageLeg'
      BY <2>23 DEF Tick, Launches, CageLeg, Alive
    <3>5. Smooth'
      BY <2>23, AllWork DEF Tick, Launches, CageLeg, Smooth, Sound, Still, Alive
    <3>6. ProvedControlsAct'
      BY <2>23 DEF Tick, FsLeg, CageLeg, ProvedControlsAct, Untouched, StrikesIn
    <3>7. QED
      BY <3>1, <3>2, <3>3, <3>4, <3>5, <3>6
  <2>24. CASE UNCHANGED vars
    BY <2>24 DEF vars, Launches, Caged, FsLeg, CageLeg, Smooth, Sound, Still,
           ProvedControlsAct, Untouched, StrikesIn, Alive, Reaches
  <2>25. QED
    BY <2>1, <2>2, <2>3, <2>4, <2>5, <2>6, <2>7, <2>8, <2>9, <2>10, <2>11, <2>12, <2>13, <2>14, <2>15, <2>16, <2>17, <2>18, <2>19, <2>20, <2>21, <2>22, <2>23, <2>24 DEF Next, Probe, Launcher, Verbs
<1>3. QED
  BY <1>1, <1>2, TypeCorrect, PTL DEF Spec

\* A yes of the file or the caging probe is earned if nothing passing touched
\* its second leg, whatever else failed and however often.
THEOREM Proved == Spec => []ProvedControlsAct
BY Invariance, PTL DEF IInv

\* No order of the steps of the five processes spoils an undisturbed probe.
THEOREM WorkingProved == Spec => []WorkingControlsAreProved
<1>1. TypeOK => (StrikesIn("control") \cup StrikesIn("claim") = {} => Still)
  BY DEF TypeOK, StrikesIn, Still
<1>2. TypeOK /\ IInv => WorkingControlsAreProved
  BY <1>1 DEF IInv, Smooth, Sound, WorkingControlsAreProved
<1>3. QED
  BY <1>2, TypeCorrect, Invariance, PTL

\* However a probe ended, nothing runs after it where kill-on-close acts.
THEOREM NothingLeft == Spec => []NothingRunsAfterProbe
<1>1. IInv => NothingRunsAfterProbe
  BY DEF IInv, Launches, Caged, NothingRunsAfterProbe, Alive, Running
<1>2. QED
  BY <1>1, Invariance, PTL

-----------------------------------------------------------------------------
(* The probes end: what ProbeEnds rests on, without the fairness.          *)

\* The stages a probe may still have before it.
Later ==
  CASE pc = "handshake" -> 11
    [] pc = "place" -> 10
    [] pc = "port" -> 9
    [] pc = "control" -> 8
    [] pc = "launch" -> 7
    [] pc = "report" -> 6
    [] pc = "result" -> 5
    [] pc = "look" -> 4
    [] pc = "kill" -> 3
    [] pc = "reap" -> 2
    [] pc = "clean" -> 1
    [] pc = "done" -> 0

\* A bound on the steps left to the probing process and its clock: each stage is
\* one step of the process and Window ticks at most.
Left == Later * (Window + 1) + (Window - waited)

\* Neither launcher, listener, children nor faults put a probe back, and every
\* step of the process and of the clock brings it nearer to its end.
RunsDown == Left' <= Left /\ (Probe \/ Tick => Left' < Left)

\* The probing process has a step, or time can pass.
MayGoOn ==
  \/ pc \in {"handshake", "control", "launch", "look", "kill", "clean"}
  \/ pc = "place" /\ kind \in {"fs", "net"}
  \/ pc = "port" /\ target # "absent"
  \/ pc = "report" /\ report
  \/ pc = "result" /\ result # "none"
  \/ pc = "reap" /\ ~ Alive("child") /\ ~ Alive("grandchild")
  \/ pc \in {"port", "report", "result", "reap"} /\ waited \in 0 .. Window

\* A stage less is worth more than a poll.
LEMMA LessLeft ==
  ASSUME NEW a \in Nat, NEW b \in Nat, a < b, NEW v \in 0 .. Window, NEW w \in 0 .. Window
  PROVE  a * (Window + 1) + (Window - v) < b * (Window + 1) + (Window - w)
<1> DEFINE n == Window + 1
           c == b - (a + 1)
<1>1. n \in Nat /\ c \in Nat /\ b = (a + 1) + c
  OBVIOUS
<1>2. c * n \in Nat /\ a * n \in Nat
  BY <1>1
<1>3. b * n = ((a + 1) + c) * n
  BY <1>1
<1>4. ((a + 1) + c) * n = (a * n + n) + c * n
  BY <1>1
<1>5. Window - v < n /\ Window - w >= 0 /\ Window - v \in Nat /\ Window - w \in Nat
  OBVIOUS
<1> HIDE DEF c
<1>6. a * n + (Window - v) < b * n + (Window - w)
  <2> DEFINE an == a * n
             bn == b * n
             cn == c * n
             x == Window - v
             y == Window - w
  <2>1. an \in Nat /\ cn \in Nat /\ bn = an + n + cn /\ x < n /\ y >= 0 /\ x \in Nat /\ y \in Nat
    BY <1>1, <1>2, <1>3, <1>4, <1>5
  <2> HIDE DEF n, an, bn, cn, x, y
  <2>2. n \in Nat
    BY <1>1
  <2>3. an + x < bn + y
    BY <2>1, <2>2
  <2>4. QED
    BY <2>3 DEF an, bn, x, y
<1>7. QED
  BY <1>6

\* Of at most 11 stages there is no more to come than 12 polls.
LEMMA LeftBound ==
  ASSUME NEW a \in 0 .. 11, NEW w \in 0 .. Window
  PROVE  a * (Window + 1) + (Window - w) \in 0 .. 12 * (Window + 1)
<1>1. a * (Window + 1) + (Window - w) < 12 * (Window + 1) + (Window - Window)
  <2>1. a \in Nat /\ 12 \in Nat /\ a < 12 /\ Window \in 0 .. Window
    OBVIOUS
  <2>2. QED
    BY <2>1, LessLeft
<1>2. a * (Window + 1) \in Nat /\ Window - w \in Nat
  <2>1. a \in Nat /\ Window + 1 \in Nat
    OBVIOUS
  <2>2. QED
    BY <2>1
<1> DEFINE x == a * (Window + 1)
<1> HIDE DEF x
<1>3. x + (Window - w) \in 0 .. 12 * (Window + 1)
  BY <1>1, <1>2 DEF x
<1>4. QED
  BY <1>3 DEF x

\* Every step of the probing process leaves a stage behind.
LEMMA StageBehind ==
  ASSUME TypeOK, Probe
  PROVE  Later \in Nat /\ Later' \in Nat /\ Later' < Later
<1>1. CASE Handshake \/ Place \/ PortSeen
  BY <1>1 DEF Handshake, Place, PortSeen, Goes, Ends, Later
<1>2. CASE ControlLeg \/ Launch
  BY <1>2 DEF ControlLeg, Launch, Goes, Ends, Later
<1>3. CASE ReportSeen \/ ResultSeen
  BY <1>3 DEF ReportSeen, ResultSeen, Goes, Ends, Later
<1>4. CASE LookAlive \/ KillLauncher \/ Reaped \/ CleanUp
  BY <1>4 DEF LookAlive, KillLauncher, Reaped, CleanUp, Goes, Ends, Later
<1>5. CASE PollTimesOut
  <2>1. pc' = "clean" /\ pc \in {"port", "report", "result", "reap"}
    BY <1>5 DEF PollTimesOut, Ends
  <2>2. Later' = 1
    BY <2>1 DEF Later
  <2>3. Later \in {9, 6, 5, 2}
    BY <2>1 DEF Later
  <2>4. QED
    BY <2>2, <2>3
<1>6. QED
  BY <1>1, <1>2, <1>3, <1>4, <1>5 DEF Probe

\* Within twelve stages of Window ticks each the probing process is done, as long
\* as it runs and time passes, whatever the others do (ProbeEnds).
THEOREM ProbeRunsDown == Spec => [](Left \in 0 .. 12 * (Window + 1)) /\ [][RunsDown]_vars
<1>1. TypeOK => Later \in 0 .. 11 /\ Left \in 0 .. 12 * (Window + 1)
  <2> SUFFICES ASSUME TypeOK PROVE Later \in 0 .. 11 /\ Left \in 0 .. 12 * (Window + 1)
    OBVIOUS
  <2>1. Later \in 0 .. 11 /\ waited \in 0 .. Window
    BY DEF TypeOK, Later
  <2> DEFINE x == Later
  <2> HIDE DEF x
  <2>2. x * (Window + 1) + (Window - waited) \in 0 .. 12 * (Window + 1)
    BY <2>1, LeftBound DEF x
  <2>3. QED
    BY <2>1, <2>2 DEF Left, x
<1>2. TypeOK /\ TypeOK' /\ Next => RunsDown
  <2> SUFFICES ASSUME TypeOK, TypeOK', Next PROVE RunsDown
    OBVIOUS
  <2>0. /\ waited \in 0 .. Window /\ waited' \in 0 .. Window
        /\ Left \in Nat /\ Left' \in Nat /\ Later \in Nat
    <3>1. waited \in 0 .. Window /\ waited' \in 0 .. Window /\ Later' \in 0 .. 11
      BY DEF TypeOK, Later
    <3> DEFINE x == Later'
    <3>2. x \in 0 .. 11
      BY <3>1
    <3> HIDE DEF x
    <3>3. x * (Window + 1) + (Window - waited') \in 0 .. 12 * (Window + 1)
      BY <3>1, <3>2, LeftBound
    <3>4. Left' \in 0 .. 12 * (Window + 1)
      BY <3>3 DEF Left, x
    <3>5. \A k : k \in 0 .. 12 * (Window + 1) => k \in Nat
      OBVIOUS
    <3>6. Left \in Nat /\ Left' \in Nat
      BY <1>1, <3>4, <3>5
    <3>7. QED
      BY <1>1, <3>1, <3>6
  <2>1. ASSUME Probe PROVE Left' < Left
    <3> DEFINE a == Later'
               b == Later
    <3>1. a \in Nat /\ b \in Nat /\ a < b
      BY <2>1, StageBehind
    <3> HIDE DEF a, b
    <3>2. a * (Window + 1) + (Window - waited') < b * (Window + 1) + (Window - waited)
      BY <2>0, <3>1, LessLeft
    <3>3. QED
      BY <3>2 DEF Left, a, b
  <2>2. ASSUME Tick PROVE Left' < Left
    <3>1. Later' = Later /\ waited' = waited + 1
      BY <2>2 DEF Tick, Later
    <3> DEFINE x == Later * (Window + 1)
    <3>2. x \in Nat
      BY <2>0
    <3> HIDE DEF x
    <3>3. x + (Window - waited') < x + (Window - waited)
      BY <2>0, <3>1, <3>2
    <3>4. Left' = x + (Window - waited') /\ Left = x + (Window - waited)
      BY <3>1 DEF Left, x
    <3>5. QED
      BY <3>3, <3>4
  <2>3. ASSUME ~ Probe, ~ Tick PROVE Left' = Left
    <3>1. pc' = pc /\ waited' = waited
      BY <2>3 DEF Next, Launcher, Verbs, LauncherAt, CreateChild, AssignChild, WriteProbeReport,
         ResumeChild, LauncherEnds, Listen, FsCheck, Connect, SpawnChild, Publish, Struck, Strike
    <3>2. QED
      BY <3>1 DEF Left, Later
  <2>4. QED
    BY <2>0, <2>1, <2>2, <2>3 DEF RunsDown
<1>3. QED
  BY <1>1, <1>2, TypeCorrect, PTL DEF Spec

\* Only the filesystem and the network probe place something.
PlacesSomething == pc = "place" => kind \in {"fs", "net"}

\* And no probe waits for what may never come: before its end the probing process
\* has a step, or time can pass.
THEOREM ProbeNeverStuck == Spec => [](pc = "done" \/ MayGoOn)
<1>1. Init => PlacesSomething
  BY DEF Init, PlacesSomething
<1>2. TypeOK /\ PlacesSomething /\ [Next]_vars => PlacesSomething'
  <2> SUFFICES ASSUME TypeOK, PlacesSomething, [Next]_vars PROVE PlacesSomething'
    OBVIOUS
  <2> USE DEF TypeOK, PlacesSomething, fixed
  <2>1. CASE Probe
    BY <2>1 DEF Probe, Handshake, Place, PortSeen, ControlLeg, Launch, ReportSeen, ResultSeen,
       LookAlive, KillLauncher, Reaped, PollTimesOut, CleanUp, Goes, Ends
  <2>2. CASE ~ Probe
    <3>1. UNCHANGED <<pc, kind>>
      BY <2>2 DEF Next, Launcher, LauncherAt, CreateChild, AssignChild, WriteProbeReport,
         ResumeChild, LauncherEnds, Verbs, Listen, FsCheck, Connect, SpawnChild, Publish,
         Struck, Tick, vars
    <3>2. QED
      BY <3>1
  <2>3. QED
    BY <2>1, <2>2
<1>3. TypeOK /\ PlacesSomething => pc = "done" \/ MayGoOn
  BY DEF TypeOK, PlacesSomething, MayGoOn
<1>4. QED
  BY <1>1, <1>2, <1>3, TypeCorrect, PTL DEF Spec

=============================================================================
