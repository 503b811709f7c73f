---------------------- MODULE AppContainerSpawn_proofs ----------------------
(* Proofs about AppContainerSpawn, for any set of spawns and any number of *)
(* deny and grant lines.                                                   *)
EXTENDS AppContainerSpawn, TLAPS

USE SpawnsAssumption, LinesAssumption

\* Every step of the host, the launchers and the janitor keeps the variables
\* in their types; in particular the cursors over the grants file
\* (appliedPaths, the revocation loop, the janitor's lines) stay inside it.
THEOREM TypeCorrect == Spec => []TypeOK
<1>1. Init => TypeOK
  BY DEF Init, TypeOK, Hosts, Stages, Live, Launching, Holding, Cleaning, Children,
         Lines, NLines
<1>2. TypeOK /\ [Next]_vars => TypeOK'
  <2> SUFFICES ASSUME TypeOK, [Next]_vars PROVE TypeOK'
    OBVIOUS
  <2> USE DEF TypeOK, Hosts, Stages, Live, Launching, Holding, Cleaning, Children,
              Lines, NLines, hostVars, procVars, diskVars, launcherVars,
              giveUpVars, sweepVars
  <2>1. ASSUME NEW s \in Spawns, Prepare(s) PROVE TypeOK'
    BY <2>1 DEF Prepare, SetStage
  <2>2. ASSUME NEW s \in Spawns, RefusePrepare(s) PROVE TypeOK'
    BY <2>2 DEF RefusePrepare, SetStage
  <2>3. ASSUME NEW s \in Spawns, StartLauncher(s) PROVE TypeOK'
    BY <2>3 DEF StartLauncher, SetStage
  <2>4. ASSUME NEW s \in Spawns, Attach(s) PROVE TypeOK'
    BY <2>4 DEF Attach, SetStage
  <2>5. ASSUME NEW s \in Spawns, AttachFail(s) PROVE TypeOK'
    BY <2>5 DEF AttachFail, SetStage, Die
  <2>6. ASSUME NEW s \in Spawns, CloseJob(s) PROVE TypeOK'
    BY <2>6 DEF CloseJob, SetStage, Die, CloseOuterJobs
  <2>7. ASSUME NEW s \in Spawns, ProbeKill(s) PROVE TypeOK'
    BY <2>7 DEF ProbeKill, SetStage, Die
  <2>8. ASSUME NEW s \in Spawns, ProbeUnledger(s) PROVE TypeOK'
    BY <2>8 DEF ProbeUnledger, SetStage
  <2>9. ASSUME NEW s \in Spawns, ProbeDeleteProfile(s) PROVE TypeOK'
    BY <2>9 DEF ProbeDeleteProfile, SetStage
  <2>10. ASSUME NEW s \in Spawns, ReadGrants(s) PROVE TypeOK'
    BY <2>10 DEF ReadGrants, Step
  <2>11. ASSUME NEW s \in Spawns, EarlyReturn(s) PROVE TypeOK'
    BY <2>11 DEF EarlyReturn, Step
  <2>12. ASSUME NEW s \in Spawns, CreateProfile(s) PROVE TypeOK'
    BY <2>12 DEF CreateProfile, Step
  <2>13. ASSUME NEW s \in Spawns, ApplyAce(s) PROVE TypeOK'
    BY <2>13 DEF ApplyAce
  <2>14. ASSUME NEW s \in Spawns, CreateChild(s) PROVE TypeOK'
    BY <2>14 DEF CreateChild, Step
  <2>15. ASSUME NEW s \in Spawns, AssignJob(s) PROVE TypeOK'
    BY <2>15 DEF AssignJob, Step
  <2>16. ASSUME NEW s \in Spawns, Resume(s) PROVE TypeOK'
    BY <2>16 DEF Resume, Step
  <2>17. ASSUME NEW s \in Spawns, FailLaunch(s) PROVE TypeOK'
    BY <2>17 DEF FailLaunch, Step
  <2>18. ASSUME NEW s \in Spawns, ChildWaited(s) PROVE TypeOK'
    BY <2>18 DEF ChildWaited, Step
  <2>19. ASSUME NEW s \in Spawns, CloseHandles(s) PROVE TypeOK'
    BY <2>19 DEF CloseHandles, Step
  <2>20. ASSUME NEW s \in Spawns, RevokeAce(s) PROVE TypeOK'
    BY <2>20 DEF RevokeAce
  <2>21. ASSUME NEW s \in Spawns, DeleteProfile(s) PROVE TypeOK'
    BY <2>21 DEF DeleteProfile, Step
  <2>22. ASSUME NEW s \in Spawns, DeleteLedger(s) PROVE TypeOK'
    BY <2>22 DEF DeleteLedger, Step
  <2>23. ASSUME NEW s \in Spawns, KillLauncher(s) PROVE TypeOK'
    BY <2>23 DEF KillLauncher, Die
  <2>24. ASSUME NEW s \in Spawns, ChildExits(s) PROVE TypeOK'
    BY <2>24 DEF ChildExits
  <2>25. ASSUME NEW s \in Spawns, TempSweep(s) PROVE TypeOK'
    BY <2>25 DEF TempSweep
  <2>26. ASSUME NEW s \in Spawns, SweepEntry(s) PROVE TypeOK'
    BY <2>26 DEF SweepEntry
  <2>27. ASSUME NEW s \in Spawns, SweepSkip(s) PROVE TypeOK'
    BY <2>27 DEF SweepSkip
  <2>28. CASE HostDies
    BY <2>28 DEF HostDies, Die, CloseOuterJobs
  <2>29. CASE PowerLoss
    BY <2>29 DEF PowerLoss, Die
  <2>30. CASE Boot
    BY <2>30 DEF Boot
  <2>31. CASE BootWithoutSweep
    BY <2>31 DEF BootWithoutSweep
  <2>32. CASE SweepLine
    BY <2>32 DEF SweepLine
  <2>33. CASE SweepProfile
    BY <2>33 DEF SweepProfile
  <2>34. CASE SweepFails
    BY <2>34 DEF SweepFails
  <2>35. CASE SweepLedger
    BY <2>35 DEF SweepLedger
  <2>36. CASE SweepDone
    BY <2>36 DEF SweepDone
  <2>37. CASE UNCHANGED vars
    BY <2>37 DEF vars
  <2>38. QED
    BY <2>1, <2>2, <2>3, <2>4, <2>5, <2>6, <2>7, <2>8, <2>9, <2>10, <2>11, <2>12, <2>13, <2>14, <2>15, <2>16, <2>17, <2>18, <2>19, <2>20, <2>21, <2>22, <2>23, <2>24, <2>25, <2>26, <2>27, <2>28, <2>29, <2>30, <2>31, <2>32, <2>33, <2>34, <2>35, <2>36, <2>37
       DEF Next, HostStep, LauncherStep, SweepStep
<1>3. QED
  BY <1>1, <1>2, PTL DEF Spec

\* What a launcher has applied, in file order, is a prefix of the file.
LEMMA NoLines == 1..0 = {}
  OBVIOUS

\* One more line applied.
LEMMA NextLine == \A n \in Nat : 1..(n + 1) = (1..n) \cup {n + 1}
  OBVIOUS

\* IInv is inductive: the place of a launcher determines which ACEs are in
\* force and where its child is, whoever else moves.
THEOREM Invariance == Spec => []IInv
<1>1. Init => IInv
  BY DEF Init, IInv, Live, Launching, Holding, Cleaning, Lines, NLines,
     ChildFollowsLauncher, AcesFollowLauncher, Recorded, SweptSoFar, StageFollows
<1>2. TypeOK /\ IInv /\ [Next]_vars => IInv'
  <2> SUFFICES ASSUME TypeOK, IInv, [Next]_vars PROVE IInv'
    OBVIOUS
  <2> USE DEF TypeOK, Hosts, Stages, Live, Launching, Holding, Cleaning, Children,
              Lines, NLines, hostVars, procVars, diskVars, launcherVars,
              giveUpVars, sweepVars, IInv, ChildFollowsLauncher,
              AcesFollowLauncher, Recorded, SweptSoFar, StageFollows, Disowned
  <2>1. ASSUME NEW s \in Spawns, Prepare(s) PROVE IInv'
    BY <2>1 DEF Prepare, SetStage
  <2>2. ASSUME NEW s \in Spawns, RefusePrepare(s) PROVE IInv'
    BY <2>2 DEF RefusePrepare, SetStage
  <2>3. ASSUME NEW s \in Spawns, StartLauncher(s) PROVE IInv'
    BY <2>3 DEF StartLauncher, SetStage
  <2>4. ASSUME NEW s \in Spawns, Attach(s) PROVE IInv'
    BY <2>4 DEF Attach, SetStage
  <2>5. ASSUME NEW s \in Spawns, AttachFail(s) PROVE IInv'
    BY <2>5 DEF AttachFail, SetStage, Die
  <2>6. ASSUME NEW s \in Spawns, CloseJob(s) PROVE IInv'
    BY <2>6 DEF CloseJob, SetStage, Die, CloseOuterJobs
  <2>7. ASSUME NEW s \in Spawns, ProbeKill(s) PROVE IInv'
    BY <2>7 DEF ProbeKill, SetStage, Die
  <2>8. ASSUME NEW s \in Spawns, ProbeUnledger(s) PROVE IInv'
    BY <2>8 DEF ProbeUnledger, SetStage
  <2>9. ASSUME NEW s \in Spawns, ProbeDeleteProfile(s) PROVE IInv'
    BY <2>9 DEF ProbeDeleteProfile, SetStage
  <2>10. ASSUME NEW s \in Spawns, ReadGrants(s) PROVE IInv'
    BY <2>10 DEF ReadGrants, Step
  <2>11. ASSUME NEW s \in Spawns, EarlyReturn(s) PROVE IInv'
    BY <2>11 DEF EarlyReturn, Step
  <2>12. ASSUME NEW s \in Spawns, CreateProfile(s) PROVE IInv'
    <3>1. s \notin sweptLive => applied[s] = 0 /\ ace[s] = 1..applied[s]
      BY <2>12, NoLines DEF CreateProfile, Step
    <3>2. ASSUME NEW t \in Spawns
          PROVE  ChildFollowsLauncher(t)' /\ StageFollows(t)'
      BY <2>12, <3>2 DEF CreateProfile, Step
    <3>3. ASSUME NEW t \in Spawns, t \notin sweptLive
          PROVE  AcesFollowLauncher(t)'
      BY <2>12, <3>1, <3>3 DEF CreateProfile, Step
    <3>4. ASSUME NEW t \in Spawns, t \notin sweptLive
          PROVE  SweptSoFar(t)'
      BY <2>12, <3>1, <3>4 DEF CreateProfile, Step
    <3>5. ASSUME NEW t \in Spawns, t \notin Disowned
          PROVE  Recorded(t)'
      BY <2>12, <3>1, <3>5 DEF CreateProfile, Step
    <3>6. /\ current' # None => host' = "sweeping"
          /\ sweptLive' = sweptLive /\ Disowned' = Disowned
      BY <2>12 DEF CreateProfile, Step
    <3> HIDE DEF ChildFollowsLauncher, StageFollows, AcesFollowLauncher, Recorded,
                 SweptSoFar, Disowned
    <3>7. QED
      BY <3>2, <3>3, <3>4, <3>5, <3>6
  <2>13. ASSUME NEW s \in Spawns, ApplyAce(s) PROVE IInv'
    <3>1. s \notin sweptLive => ace'[s] = 1..applied'[s]
      <4>1. applied[s] \in Nat /\ (s \notin sweptLive => ace[s] = 1..applied[s])
        BY <2>13 DEF ApplyAce
      <4>2. ace'[s] = ace[s] \cup {applied[s] + 1} /\ applied'[s] = applied[s] + 1
        BY <2>13 DEF ApplyAce
      <4>3. QED
        BY <4>1, <4>2, NextLine
    <3>2. ASSUME NEW t \in Spawns
          PROVE  ChildFollowsLauncher(t)' /\ StageFollows(t)'
      BY <2>13, <3>2 DEF ApplyAce
    <3>3. ASSUME NEW t \in Spawns, t \notin sweptLive
          PROVE  AcesFollowLauncher(t)'
      BY <2>13, <3>1, <3>3, ZenonT(60) DEF ApplyAce
    <3>4. ASSUME NEW t \in Spawns, t \notin sweptLive
          PROVE  SweptSoFar(t)'
      BY <2>13, <3>1, <3>4 DEF ApplyAce
    <3>5. ASSUME NEW t \in Spawns, t \notin Disowned
          PROVE  Recorded(t)'
      BY <2>13, <3>1, <3>5 DEF ApplyAce
    <3>6. /\ current' # None => host' = "sweeping"
          /\ sweptLive' = sweptLive /\ Disowned' = Disowned
      BY <2>13 DEF ApplyAce
    <3> HIDE DEF ChildFollowsLauncher, StageFollows, AcesFollowLauncher, Recorded,
                 SweptSoFar, Disowned
    <3>7. QED
      BY <3>2, <3>3, <3>4, <3>5, <3>6
  <2>14. ASSUME NEW s \in Spawns, CreateChild(s) PROVE IInv'
    BY <2>14 DEF CreateChild, Step
  <2>15. ASSUME NEW s \in Spawns, AssignJob(s) PROVE IInv'
    BY <2>15 DEF AssignJob, Step
  <2>16. ASSUME NEW s \in Spawns, Resume(s) PROVE IInv'
    BY <2>16 DEF Resume, Step
  <2>17. ASSUME NEW s \in Spawns, FailLaunch(s) PROVE IInv'
    BY <2>17 DEF FailLaunch, Step
  <2>18. ASSUME NEW s \in Spawns, ChildWaited(s) PROVE IInv'
    BY <2>18 DEF ChildWaited, Step
  <2>19. ASSUME NEW s \in Spawns, CloseHandles(s) PROVE IInv'
    BY <2>19 DEF CloseHandles, Step
  <2>20. ASSUME NEW s \in Spawns, RevokeAce(s) PROVE IInv'
    BY <2>20 DEF RevokeAce
  <2>21. ASSUME NEW s \in Spawns, DeleteProfile(s) PROVE IInv'
    BY <2>21 DEF DeleteProfile, Step
  <2>22. ASSUME NEW s \in Spawns, DeleteLedger(s) PROVE IInv'
    BY <2>22 DEF DeleteLedger, Step
  <2>23. ASSUME NEW s \in Spawns, KillLauncher(s) PROVE IInv'
    BY <2>23 DEF KillLauncher, Die
  <2>24. ASSUME NEW s \in Spawns, ChildExits(s) PROVE IInv'
    BY <2>24 DEF ChildExits
  <2>25. ASSUME NEW s \in Spawns, TempSweep(s) PROVE IInv'
    BY <2>25 DEF TempSweep
  <2>26. ASSUME NEW s \in Spawns, SweepEntry(s) PROVE IInv'
    BY <2>26 DEF SweepEntry
  <2>27. ASSUME NEW s \in Spawns, SweepSkip(s) PROVE IInv'
    BY <2>27 DEF SweepSkip
  <2>28. CASE HostDies
    BY <2>28 DEF HostDies, Die, CloseOuterJobs
  <2>29. CASE PowerLoss
    BY <2>29 DEF PowerLoss, Die
  <2>30. CASE Boot
    BY <2>30 DEF Boot
  <2>31. CASE BootWithoutSweep
    BY <2>31 DEF BootWithoutSweep
  <2>32. CASE SweepLine
    <3>1. \A t \in Spawns :
            /\ ace'[t] \subseteq ace[t] /\ dropped[t] \subseteq dropped'[t]
            /\ t # current => ace'[t] = ace[t]
            /\ t = current /\ line + 1 \in ace'[t] => line + 1 \in dropped'[t]
      BY <2>32 DEF SweepLine
    <3>2. ASSUME NEW t \in Spawns
          PROVE  ChildFollowsLauncher(t)' /\ StageFollows(t)'
      BY <2>32, <3>2 DEF SweepLine
    <3>3. ASSUME NEW t \in Spawns, t \notin sweptLive
          PROVE  AcesFollowLauncher(t)'
      BY <2>32, <3>1, <3>3 DEF SweepLine
    <3>4. ASSUME NEW t \in Spawns, t \notin sweptLive
          PROVE  SweptSoFar(t)'
      BY <2>32, <3>1, <3>4 DEF SweepLine
    <3>5. ASSUME NEW t \in Spawns, t \notin Disowned
          PROVE  Recorded(t)'
      BY <2>32, <3>1, <3>5 DEF SweepLine
    <3>6. /\ current' # None => host' = "sweeping"
          /\ sweptLive' = sweptLive /\ Disowned' = Disowned
      BY <2>32 DEF SweepLine
    <3> HIDE DEF ChildFollowsLauncher, StageFollows, AcesFollowLauncher, Recorded,
                 SweptSoFar, Disowned
    <3>7. QED
      BY <3>2, <3>3, <3>4, <3>5, <3>6
  <2>33. CASE SweepProfile
    BY <2>33 DEF SweepProfile
  <2>34. CASE SweepFails
    BY <2>34 DEF SweepFails
  <2>35. CASE SweepLedger
    BY <2>35 DEF SweepLedger
  <2>36. CASE SweepDone
    BY <2>36 DEF SweepDone
  <2>37. CASE UNCHANGED vars
    BY <2>37 DEF vars
  <2>38. QED
    BY <2>1, <2>2, <2>3, <2>4, <2>5, <2>6, <2>7, <2>8, <2>9, <2>10, <2>11, <2>12, <2>13, <2>14, <2>15, <2>16, <2>17, <2>18, <2>19, <2>20, <2>21, <2>22, <2>23, <2>24, <2>25, <2>26, <2>27, <2>28, <2>29, <2>30, <2>31, <2>32, <2>33, <2>34, <2>35, <2>36, <2>37
       DEF Next, HostStep, LauncherStep, SweepStep
<1>3. QED
  BY <1>1, <1>2, TypeCorrect, PTL DEF Spec

\* A child executes only inside the launcher's kill-on-close job and under the
\* whole of its grants file, unless the janitor mistook it for an orphan.
THEOREM Confinement == Spec => []RunsConfined
<1>1. TypeOK /\ IInv => RunsConfined
  BY DEF TypeOK, IInv, ChildFollowsLauncher, AcesFollowLauncher, RunsConfined,
         Holding, Lines
<1>2. QED
  BY <1>1, TypeCorrect, Invariance, PTL

\* A host that has let go of a spawn, or has died after its hook ran, leaves
\* nothing of that spawn executing.
THEOREM Release == Spec => []NothingRunsAfterRelease
<1>1. IInv => NothingRunsAfterRelease
  BY DEF IInv, StageFollows, ChildFollowsLauncher, NothingRunsAfterRelease, Over,
         Live, Holding
<1>2. QED
  BY <1>1, Invariance, PTL

\* What a spawn leaves on disk is in the ledger, or was given up.
THEOREM Recovery == Spec => []LitterIsRecorded
<1>1. IInv => LitterIsRecorded
  BY DEF IInv, Recorded, LitterIsRecorded
<1>2. QED
  BY <1>1, Invariance, PTL

-----------------------------------------------------------------------------
(* AppContainerSpawn implements SpawnContract, step by step: every action  *)
(* of the host, a launcher, a child or the janitor is, for each spawn, a   *)
(* turn the contract allows.                                               *)

\* A step of the system is a turn of every spawn under the mapping.
LEMMA StepIsTurn ==
  ASSUME TypeOK, TypeOK', IInv, IInv', [Next]_vars, NEW t \in Spawns
  PROVE  Contract!Turn(t)
<1>1. t \in Released' => Phase'[t] = "over"
  BY DEF TypeOK, IInv, ChildFollowsLauncher, StageFollows, Released, Phase, Over, Live,
         Launching, Holding, Cleaning, Stages, Children
<1>2. QED
  <2> USE <1>1 DEF TypeOK, Hosts, Stages, Live, Launching, Holding, Cleaning, Children,
              Lines, NLines, hostVars, procVars, diskVars, launcherVars,
              giveUpVars, sweepVars, IInv, ChildFollowsLauncher,
              AcesFollowLauncher, Recorded, SweptSoFar, StageFollows, Disowned,
              Phase, Released, Litter, Over, Contract!Turn, Contract!RunsOnce,
              Contract!StaysReleased, Contract!LittersOnRecord
  <2>1. ASSUME NEW s \in Spawns, Prepare(s) PROVE Contract!Turn(t)
    BY <2>1 DEF Prepare, SetStage
  <2>2. ASSUME NEW s \in Spawns, RefusePrepare(s) PROVE Contract!Turn(t)
    BY <2>2 DEF RefusePrepare, SetStage
  <2>3. ASSUME NEW s \in Spawns, StartLauncher(s) PROVE Contract!Turn(t)
    BY <2>3 DEF StartLauncher, SetStage
  <2>4. ASSUME NEW s \in Spawns, Attach(s) PROVE Contract!Turn(t)
    BY <2>4 DEF Attach, SetStage
  <2>5. ASSUME NEW s \in Spawns, AttachFail(s) PROVE Contract!Turn(t)
    BY <2>5, SMTT(60) DEF AttachFail, SetStage, Die
  <2>6. ASSUME NEW s \in Spawns, CloseJob(s) PROVE Contract!Turn(t)
    BY <2>6, SMTT(60) DEF CloseJob, SetStage, Die, CloseOuterJobs
  <2>7. ASSUME NEW s \in Spawns, ProbeKill(s) PROVE Contract!Turn(t)
    BY <2>7 DEF ProbeKill, SetStage, Die
  <2>8. ASSUME NEW s \in Spawns, ProbeUnledger(s) PROVE Contract!Turn(t)
    BY <2>8 DEF ProbeUnledger, SetStage
  <2>9. ASSUME NEW s \in Spawns, ProbeDeleteProfile(s) PROVE Contract!Turn(t)
    BY <2>9 DEF ProbeDeleteProfile, SetStage
  <2>10. ASSUME NEW s \in Spawns, ReadGrants(s) PROVE Contract!Turn(t)
    BY <2>10 DEF ReadGrants, Step
  <2>11. ASSUME NEW s \in Spawns, EarlyReturn(s) PROVE Contract!Turn(t)
    BY <2>11 DEF EarlyReturn, Step
  <2>12. ASSUME NEW s \in Spawns, CreateProfile(s) PROVE Contract!Turn(t)
    BY <2>12 DEF CreateProfile, Step
  <2>13. ASSUME NEW s \in Spawns, ApplyAce(s) PROVE Contract!Turn(t)
    BY <2>13 DEF ApplyAce
  <2>14. ASSUME NEW s \in Spawns, CreateChild(s) PROVE Contract!Turn(t)
    BY <2>14 DEF CreateChild, Step
  <2>15. ASSUME NEW s \in Spawns, AssignJob(s) PROVE Contract!Turn(t)
    BY <2>15 DEF AssignJob, Step
  <2>16. ASSUME NEW s \in Spawns, Resume(s) PROVE Contract!Turn(t)
    BY <2>16 DEF Resume, Step
  <2>17. ASSUME NEW s \in Spawns, FailLaunch(s) PROVE Contract!Turn(t)
    BY <2>17 DEF FailLaunch, Step
  <2>18. ASSUME NEW s \in Spawns, ChildWaited(s) PROVE Contract!Turn(t)
    BY <2>18 DEF ChildWaited, Step
  <2>19. ASSUME NEW s \in Spawns, CloseHandles(s) PROVE Contract!Turn(t)
    BY <2>19 DEF CloseHandles, Step
  <2>20. ASSUME NEW s \in Spawns, RevokeAce(s) PROVE Contract!Turn(t)
    BY <2>20, SMTT(60) DEF RevokeAce
  <2>21. ASSUME NEW s \in Spawns, DeleteProfile(s) PROVE Contract!Turn(t)
    BY <2>21 DEF DeleteProfile, Step
  <2>22. ASSUME NEW s \in Spawns, DeleteLedger(s) PROVE Contract!Turn(t)
    BY <2>22 DEF DeleteLedger, Step
  <2>23. ASSUME NEW s \in Spawns, KillLauncher(s) PROVE Contract!Turn(t)
    BY <2>23 DEF KillLauncher, Die
  <2>24. ASSUME NEW s \in Spawns, ChildExits(s) PROVE Contract!Turn(t)
    BY <2>24 DEF ChildExits
  <2>25. ASSUME NEW s \in Spawns, TempSweep(s) PROVE Contract!Turn(t)
    BY <2>25 DEF TempSweep
  <2>26. ASSUME NEW s \in Spawns, SweepEntry(s) PROVE Contract!Turn(t)
    BY <2>26 DEF SweepEntry
  <2>27. ASSUME NEW s \in Spawns, SweepSkip(s) PROVE Contract!Turn(t)
    BY <2>27 DEF SweepSkip
  <2>28. CASE HostDies
    BY <2>28, SMTT(60) DEF HostDies, Die, CloseOuterJobs
  <2>29. CASE PowerLoss
    BY <2>29, SMTT(60) DEF PowerLoss, Die
  <2>30. CASE Boot
    BY <2>30 DEF Boot
  <2>31. CASE BootWithoutSweep
    BY <2>31 DEF BootWithoutSweep
  <2>32. CASE SweepLine
    BY <2>32 DEF SweepLine
  <2>33. CASE SweepProfile
    BY <2>33 DEF SweepProfile
  <2>34. CASE SweepFails
    BY <2>34 DEF SweepFails
  <2>35. CASE SweepLedger
    BY <2>35 DEF SweepLedger
  <2>36. CASE SweepDone
    BY <2>36 DEF SweepDone
  <2>37. CASE UNCHANGED vars
    BY <2>37 DEF vars
  <2>38. QED
    BY <2>1, <2>2, <2>3, <2>4, <2>5, <2>6, <2>7, <2>8, <2>9, <2>10, <2>11, <2>12, <2>13, <2>14, <2>15, <2>16, <2>17, <2>18, <2>19, <2>20, <2>21, <2>22, <2>23, <2>24, <2>25, <2>26, <2>27, <2>28, <2>29, <2>30, <2>31, <2>32, <2>33, <2>34, <2>35, <2>36, <2>37, ZenonT(60)
       DEF Next, HostStep, LauncherStep, SweepStep

\* The detailed life of a spawn implements the contract, for any number of
\* spawns and lines.
THEOREM Refinement == Spec => ImplementsContract
<1>1. Init => Contract!Init
  BY DEF Init, Contract!Init, Phase, Released, Litter, Disowned, Over, Live, Launching,
         Holding, Cleaning
<1>2. TypeOK /\ TypeOK' /\ IInv /\ IInv' /\ [Next]_vars => Contract!Next
  BY StepIsTurn DEF Contract!Next
<1>3. QED
  BY <1>1, <1>2, TypeCorrect, Invariance, PTL DEF Spec, ImplementsContract, Contract!Spec

=============================================================================
