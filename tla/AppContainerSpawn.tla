------------------------- MODULE AppContainerSpawn -------------------------
(***************************************************************************)
(* The life of an AppContainer spawn on Windows.                           *)
(*                                                                         *)
(* The host (a Node process) records the grants of the spawn in a ledger   *)
(* file, starts the launcher, and assigns the launcher to an outer Job     *)
(* Object from a hook that runs after the spawn.  The launcher, a process  *)
(* of its own, creates the AppContainer profile, applies one ACE per line  *)
(* of the ledger file, creates the confined child suspended, puts it in an *)
(* inner kill-on-close job, resumes it, waits, and undoes all of it.  The  *)
(* janitor runs when a host boots and undoes what is left in the ledger.   *)
(*                                                                         *)
(* Every process runs at its own pace, and any of them may be killed       *)
(* between two steps: the host by a crash or an exit, the launcher by a    *)
(* hard kill, all of them by a power loss.  What is on disk survives: the  *)
(* ledger, the ACEs and the profiles.                                      *)
(***************************************************************************)
EXTENDS Naturals

CONSTANTS
  Spawns,      \* profile names; each is drawn at random and used once
  DenyLines,   \* how many deny lines a grants file starts with
  GrantLines,  \* how many read and write lines follow them
  None         \* no ledger entry

ASSUME SpawnsAssumption == None \notin Spawns
ASSUME LinesAssumption == DenyLines \in Nat /\ GrantLines \in Nat

\* The lines of a grants file by number, the deny lines first.
NLines == DenyLines + GrantLines
Lines == 1..NLines

VARIABLES
  probes,      \* the spawns made by spawnViaLauncher for a capability probe
  host,        \* "up", "sweeping" (inside the boot janitor) or "down"
  stage,       \* how far the host has taken a spawn
  launcher,    \* where the launcher process of a spawn is
  child,       \* the confined process
  ran,         \* the spawns whose child has executed an instruction
  inner,       \* the spawns whose child is in the launcher's job
  outer,       \* the spawns whose launcher is in the host's job
  childOuter,  \* the spawns whose child is in the host's job
  ledger,      \* the spawns with a grants file in the ledger directory
  profile,     \* the AppContainer profiles that exist
  ace,         \* the lines whose ACE is in force for the SID of a spawn
  applied,     \* how many lines the launcher has applied (appliedPaths)
  revoked,     \* how many of them it has gone over to revoke
  dropped,     \* history: the lines a revocation failed on and gave up
  undeleted,   \* history: the profiles a deletion failed on and gave up
  unrecorded,  \* history: the spawns whose grants file a temp sweep took
  sweptLive,   \* history: the spawns swept while their launcher was alive
  queue,       \* the entries readdirSync returned, not handled yet
  current,     \* the entry the janitor is at
  line         \* how many lines of that entry it has gone over

hostVars == <<probes, host, stage>>
procVars == <<launcher, child, ran, inner, outer, childOuter>>
diskVars == <<ledger, profile, ace>>
giveUpVars == <<dropped, undeleted, unrecorded>>
launcherVars == <<applied, revoked>>
sweepVars == <<sweptLive, queue, current, line>>
vars == <<hostVars, procVars, diskVars, launcherVars, giveUpVars, sweepVars>>

Hosts == {"up", "sweeping", "down"}
\* "killed" and "unledgered" are the steps of cleanupLauncherSpawn.
Stages == {"idle", "prepared", "spawned", "attached", "refused", "killed",
           "unledgered", "done", "lost"}
\* Before the child exists, after it does, and in the shared cleanup.
Launching == {"start", "parsed", "granting"}
Holding == {"created", "jobbed", "waiting"}
Cleaning == {"cleanup", "revoking", "unprofiled"}
Live == Launching \cup Holding \cup Cleaning
Children == {"none", "suspended", "running", "dead"}

TypeOK ==
  /\ probes \subseteq Spawns
  /\ host \in Hosts
  /\ stage \in [Spawns -> Stages]
  /\ launcher \in [Spawns -> Live \cup {"none", "gone"}]
  /\ child \in [Spawns -> Children]
  /\ ran \subseteq Spawns
  /\ inner \subseteq Spawns
  /\ outer \subseteq Spawns
  /\ childOuter \subseteq Spawns
  /\ ledger \subseteq Spawns
  /\ profile \subseteq Spawns
  /\ ace \in [Spawns -> SUBSET Lines]
  /\ applied \in [Spawns -> 0..NLines]
  /\ revoked \in [Spawns -> 0..NLines]
  /\ dropped \in [Spawns -> SUBSET Lines]
  /\ undeleted \subseteq Spawns
  /\ unrecorded \subseteq Spawns
  /\ sweptLive \subseteq Spawns
  /\ queue \subseteq Spawns
  /\ current \in Spawns \cup {None}
  /\ line \in 0..NLines

Init ==
  /\ probes \in SUBSET Spawns
  /\ host = "up"
  /\ stage = [s \in Spawns |-> "idle"]
  /\ launcher = [s \in Spawns |-> "none"]
  /\ child = [s \in Spawns |-> "none"]
  /\ ran = {} /\ inner = {} /\ outer = {} /\ childOuter = {}
  /\ ledger = {} /\ profile = {}
  /\ ace = [s \in Spawns |-> {}]
  /\ applied = [s \in Spawns |-> 0]
  /\ revoked = [s \in Spawns |-> 0]
  /\ dropped = [s \in Spawns |-> {}]
  /\ undeleted = {} /\ unrecorded = {} /\ sweptLive = {}
  /\ queue = {} /\ current = None /\ line = 0

-----------------------------------------------------------------------------
(* Process deaths.  A launcher that dies loses its memory and closes its   *)
(* handles, so the inner job kills what was assigned to it; a suspended    *)
(* child that was not stays.                                               *)

\* As Die, had the inner job not been created kill-on-close.
DieWithoutKillOnClose(K, C) ==
  /\ launcher' = [s \in Spawns |->
       IF s \in K /\ launcher[s] \in Live THEN "gone" ELSE launcher[s]]
  /\ child' = [s \in Spawns |->
       IF child[s] \in {"suspended", "running"} /\ s \in C THEN "dead" ELSE child[s]]
  /\ applied' = [s \in Spawns |->
       IF s \in K /\ launcher[s] \in Live THEN 0 ELSE applied[s]]
  /\ revoked' = [s \in Spawns |->
       IF s \in K /\ launcher[s] \in Live THEN 0 ELSE revoked[s]]

\* The launchers of K die, and with each of them the child its job holds;
\* the children of C die as members of the host's job.
Die(K, C) ==
  /\ launcher' = [s \in Spawns |->
       IF s \in K /\ launcher[s] \in Live THEN "gone" ELSE launcher[s]]
  /\ child' = [s \in Spawns |->
       IF /\ child[s] \in {"suspended", "running"}
          /\ \/ s \in K /\ s \in inner /\ launcher[s] \in Live
             \/ s \in C
       THEN "dead" ELSE child[s]]
  /\ applied' = [s \in Spawns |->
       IF s \in K /\ launcher[s] \in Live THEN 0 ELSE applied[s]]
  /\ revoked' = [s \in Spawns |->
       IF s \in K /\ launcher[s] \in Live THEN 0 ELSE revoked[s]]

\* The members of the host's job of s die.
CloseOuterJobs(K) == Die(K \cap outer, K \cap childOuter)

-----------------------------------------------------------------------------
(* The host.  Its functions are synchronous: nothing else of the host runs *)
(* while the janitor does.                                                 *)

SetStage(s, from, to) ==
  /\ host = "up"
  /\ stage[s] = from
  /\ stage' = [stage EXCEPT ![s] = to]

\* prepareAppContainerSpawn, to the end: the grants file is on disk before the
\* launcher command is returned.
Prepare(s) ==
  /\ SetStage(s, "idle", "prepared")
  /\ ledger' = ledger \cup {s}
  /\ UNCHANGED <<probes, host, procVars, profile, ace, launcherVars, giveUpVars, sweepVars>>

\* A refusal of wrapSpawn, or a throw out of prepareAppContainerSpawn (a deny
\* leaf of unknown kind or that cannot be created), before the file is written.
RefusePrepare(s) ==
  /\ SetStage(s, "idle", "refused")
  /\ UNCHANGED <<probes, host, procVars, diskVars, launcherVars, giveUpVars, sweepVars>>

\* The runner starts the launcher.
StartLauncher(s) ==
  /\ SetStage(s, "prepared", "spawned")
  /\ launcher' = [launcher EXCEPT ![s] = "start"]
  /\ UNCHANGED <<probes, host, child, ran, inner, outer, childOuter, diskVars, launcherVars,
                 giveUpVars, sweepVars>>

\* postSpawnHook: attachPidToJob creates a kill-on-close job with the limits
\* and assigns the launcher.  A child the launcher has already created does
\* not join.
Attach(s) ==
  /\ s \notin probes
  /\ launcher[s] \in Live
  /\ SetStage(s, "spawned", "attached")
  /\ outer' = outer \cup {s}
  /\ UNCHANGED <<probes, host, launcher, child, ran, inner, childOuter, diskVars, launcherVars,
                 giveUpVars, sweepVars>>

\* attachPidToJob throws (the launcher is gone, or a native call fails): the
\* caller treats the spawn as refused and kills the launcher.
AttachFail(s) ==
  /\ s \notin probes
  /\ SetStage(s, "spawned", "refused")
  /\ Die({s}, {})
  /\ UNCHANGED <<probes, host, ran, inner, outer, childOuter, diskVars,
                 giveUpVars, sweepVars>>

\* terminateWinJob and releaseWinJob: the job is terminated, or its last handle
\* closed; either way its members die.
CloseJob(s) ==
  /\ SetStage(s, "attached", "done")
  /\ CloseOuterJobs({s})
  /\ UNCHANGED <<probes, host, ran, inner, outer, childOuter, diskVars,
                 giveUpVars, sweepVars>>

\* cleanupLauncherSpawn, in its order: kill the launcher, remove the grants
\* file, delete the profile.
ProbeKill(s) ==
  /\ s \in probes
  /\ SetStage(s, "spawned", "killed")
  /\ Die({s}, {})
  /\ UNCHANGED <<probes, host, ran, inner, outer, childOuter, diskVars,
                 giveUpVars, sweepVars>>

ProbeUnledger(s) ==
  /\ SetStage(s, "killed", "unledgered")
  /\ ledger' = ledger \ {s}
  /\ UNCHANGED <<probes, host, procVars, profile, ace, launcherVars, giveUpVars, sweepVars>>

ProbeDeleteProfile(s) ==
  /\ SetStage(s, "unledgered", "done")
  /\ \/ profile' = profile \ {s} /\ UNCHANGED undeleted
     \/ profile' = profile /\ undeleted' = undeleted \cup {s}
  /\ UNCHANGED <<probes, host, procVars, ledger, ace, launcherVars, dropped, unrecorded,
                 sweepVars>>

\* The host exits or crashes: the jobs whose only handle it held close.
HostDies ==
  /\ host # "down"
  /\ host' = "down"
  /\ stage' = [s \in Spawns |->
       IF stage[s] \in {"prepared", "spawned", "attached", "killed", "unledgered"}
       THEN "lost" ELSE stage[s]]
  /\ CloseOuterJobs({s \in Spawns : stage[s] = "attached"})
  /\ queue' = {} /\ current' = None /\ line' = 0
  /\ UNCHANGED <<probes, ran, inner, outer, childOuter, diskVars, giveUpVars,
                 sweptLive>>

\* The machine stops: every process dies, the disk stays.
PowerLoss ==
  /\ host' = "down"
  /\ stage' = [s \in Spawns |->
       IF stage[s] \in {"idle", "refused", "done"} THEN stage[s] ELSE "lost"]
  /\ Die(Spawns, Spawns)
  /\ queue' = {} /\ current' = None /\ line' = 0
  /\ UNCHANGED <<probes, ran, inner, outer, childOuter, diskVars, giveUpVars,
                 sweptLive>>

-----------------------------------------------------------------------------
(* The launcher.                                                           *)

Step(s, from, to) ==
  /\ launcher[s] = from
  /\ launcher' = [launcher EXCEPT ![s] = to]

\* As ReadGrants, had the launcher removed the file as soon as it has read it.
ReadGrantsAndRemove(s) ==
  /\ s \in ledger
  /\ Step(s, "start", "parsed")
  /\ ledger' = ledger \ {s}
  /\ UNCHANGED <<hostVars, child, ran, inner, outer, childOuter, profile, ace,
                 launcherVars, giveUpVars, sweepVars>>

\* The grants file is read, parsed, and the environment checked.
ReadGrants(s) ==
  /\ s \in ledger
  /\ Step(s, "start", "parsed")
  /\ UNCHANGED <<hostVars, child, ran, inner, outer, childOuter, diskVars, launcherVars,
                 giveUpVars, sweepVars>>

\* The early returns, for bad arguments, an unreadable or malformed grants
\* file, no LOCALAPPDATA, or no profile: nothing is cleaned up.
EarlyReturn(s) ==
  /\ \/ Step(s, "start", "gone")
     \/ Step(s, "parsed", "gone")
  /\ UNCHANGED <<hostVars, child, ran, inner, outer, childOuter, diskVars, launcherVars,
                 giveUpVars, sweepVars>>

CreateProfile(s) ==
  /\ Step(s, "parsed", "granting")
  /\ profile' = profile \cup {s}
  /\ UNCHANGED <<hostVars, child, ran, inner, outer, childOuter, ledger, ace,
                 launcherVars, giveUpVars, sweepVars>>

\* ApplySidAceOnPath on the next line.
ApplyAce(s) ==
  /\ launcher[s] = "granting"
  /\ applied[s] < NLines
  /\ applied' = [applied EXCEPT ![s] = @ + 1]
  /\ ace' = [ace EXCEPT ![s] = @ \cup {applied[s] + 1}]
  /\ UNCHANGED <<revoked, hostVars, procVars, ledger, profile, giveUpVars, sweepVars>>

\* CreateProcessW, suspended, once every ACE is applied.  The child joins the
\* jobs its creator is in at that moment.
CreateChild(s) ==
  /\ applied[s] = NLines
  /\ Step(s, "granting", "created")
  /\ child' = [child EXCEPT ![s] = "suspended"]
  /\ childOuter' = IF s \in outer THEN childOuter \cup {s} ELSE childOuter
  /\ UNCHANGED <<hostVars, ran, inner, outer, diskVars, launcherVars, giveUpVars,
                 sweepVars>>

\* As AssignJob, had a failing AssignProcessToJobObject been ignored.
AssignJobOrGoOn(s) ==
  /\ Step(s, "created", "jobbed")
  /\ inner' = inner \cup {s} \/ UNCHANGED inner
  /\ UNCHANGED <<hostVars, child, ran, outer, childOuter, diskVars, launcherVars,
                 giveUpVars, sweepVars>>

\* A kill-on-close job is created and the suspended child assigned to it.
AssignJob(s) ==
  /\ Step(s, "created", "jobbed")
  /\ inner' = inner \cup {s}
  /\ UNCHANGED <<hostVars, child, ran, outer, childOuter, diskVars, launcherVars,
                 giveUpVars, sweepVars>>

Resume(s) ==
  /\ child[s] = "suspended"
  /\ Step(s, "jobbed", "waiting")
  /\ child' = [child EXCEPT ![s] = "running"]
  /\ ran' = ran \cup {s}
  /\ UNCHANGED <<hostVars, inner, outer, childOuter, diskVars, launcherVars, giveUpVars,
                 sweepVars>>

\* A step before the wait fails (an ACE, the capability SIDs, the attribute
\* list, CreateProcessW, the job, ResumeThread): break out to the cleanup.
FailLaunch(s) ==
  /\ \/ Step(s, "granting", "cleanup")
     \/ Step(s, "created", "cleanup")
     \/ Step(s, "jobbed", "cleanup")
  /\ UNCHANGED <<hostVars, child, ran, inner, outer, childOuter, diskVars, launcherVars,
                 giveUpVars, sweepVars>>

\* WaitForSingleObject returns.
ChildWaited(s) ==
  /\ child[s] = "dead"
  /\ Step(s, "waiting", "cleanup")
  /\ UNCHANGED <<hostVars, child, ran, inner, outer, childOuter, diskVars, launcherVars,
                 giveUpVars, sweepVars>>

\* Terminate a child that was not waited for, and close the handles.
CloseHandles(s) ==
  /\ Step(s, "cleanup", "revoking")
  /\ child' = [child EXCEPT ![s] = IF @ = "none" THEN @ ELSE "dead"]
  /\ UNCHANGED <<hostVars, ran, inner, outer, childOuter, diskVars, launcherVars,
                 giveUpVars, sweepVars>>

\* RemoveSidAcesFromPath on the next of appliedPaths; its status is ignored.
RevokeAce(s) ==
  /\ launcher[s] = "revoking"
  /\ revoked[s] < applied[s]
  /\ revoked' = [revoked EXCEPT ![s] = @ + 1]
  /\ \/ ace' = [ace EXCEPT ![s] = @ \ {revoked[s] + 1}] /\ UNCHANGED dropped
     \/ UNCHANGED ace
        /\ dropped' = [dropped EXCEPT ![s] = @ \cup {revoked[s] + 1}]
  /\ UNCHANGED <<applied, hostVars, procVars, ledger, profile, undeleted, unrecorded,
                 sweepVars>>

\* DeleteProfileIdempotent; its result is ignored.
DeleteProfile(s) ==
  /\ revoked[s] = applied[s]
  /\ Step(s, "revoking", "unprofiled")
  /\ \/ profile' = profile \ {s} /\ UNCHANGED undeleted
     \/ UNCHANGED profile /\ undeleted' = undeleted \cup {s}
  /\ UNCHANGED <<hostVars, child, ran, inner, outer, childOuter, ledger, ace,
                 launcherVars, dropped, unrecorded,
                 sweepVars>>

\* DeleteFileW on the grants file, and the return of wmain.
DeleteLedger(s) ==
  /\ Step(s, "unprofiled", "gone")
  /\ ledger' = ledger \ {s}
  /\ UNCHANGED <<hostVars, child, ran, inner, outer, childOuter, profile, ace,
                 launcherVars, giveUpVars, sweepVars>>

\* A hard kill of the launcher.
KillLauncher(s) ==
  /\ launcher[s] \in Live
  /\ Die({s}, {})
  /\ UNCHANGED <<hostVars, ran, inner, outer, childOuter, diskVars,
                 giveUpVars, sweepVars>>

\* The ledger lies under the temporary directory (winAppContainerLedgerDir):
\* something else empties that, whatever is running.
TempSweep(s) ==
  /\ s \in ledger
  /\ ledger' = ledger \ {s}
  /\ unrecorded' = unrecorded \cup {s}
  /\ UNCHANGED <<hostVars, procVars, profile, ace, launcherVars, dropped, undeleted,
                 sweepVars>>

ChildExits(s) ==
  /\ child[s] = "running"
  /\ child' = [child EXCEPT ![s] = "dead"]
  /\ UNCHANGED <<hostVars, launcher, ran, inner, outer, childOuter, diskVars,
                 launcherVars, giveUpVars, sweepVars>>

-----------------------------------------------------------------------------
(* The boot janitor, sweepOrphanedAppContainerProfiles.                    *)

\* As Boot, had the name filter of the janitor matched no entry.
BootMatchingNothing ==
  /\ host = "down"
  /\ host' = "sweeping"
  /\ queue' = {}
  /\ UNCHANGED <<probes, stage, procVars, diskVars, launcherVars, giveUpVars, sweptLive,
                 current, line>>

\* A host boots and calls the janitor, which lists the ledger directory.
Boot ==
  /\ host = "down"
  /\ host' = "sweeping"
  /\ queue' = ledger
  /\ UNCHANGED <<probes, stage, procVars, diskVars, launcherVars, giveUpVars, sweptLive, current,
                 line>>

\* A host boots without the addon, or the directory cannot be read.
BootWithoutSweep ==
  /\ host = "down"
  /\ host' = "up"
  /\ UNCHANGED <<probes, stage, procVars, diskVars, launcherVars, giveUpVars, sweepVars>>

\* Read the grants file of the next entry.
SweepEntry(s) ==
  /\ host = "sweeping" /\ current = None /\ s \in queue
  /\ s \in ledger
  /\ current' = s
  /\ line' = 0
  /\ sweptLive' = IF launcher[s] \in Live THEN sweptLive \cup {s} ELSE sweptLive
  /\ UNCHANGED <<hostVars, procVars, diskVars, launcherVars, giveUpVars, queue>>

\* The file cannot be read, for instance because its launcher has just
\* removed it: on to the next entry.
SweepSkip(s) ==
  /\ host = "sweeping" /\ current = None /\ s \in queue
  /\ queue' = queue \ {s}
  /\ UNCHANGED <<hostVars, procVars, diskVars, launcherVars, giveUpVars, sweptLive,
                 current, line>>

\* removeAppContainerAce on the next line; an exception is swallowed.
SweepLine ==
  /\ host = "sweeping" /\ current # None /\ line < NLines
  /\ line' = line + 1
  /\ \/ ace' = [ace EXCEPT ![current] = @ \ {line + 1}] /\ UNCHANGED dropped
     \/ /\ UNCHANGED ace
        /\ dropped' = [dropped EXCEPT ![current] = @ \cup {line + 1}]
  /\ UNCHANGED <<hostVars, procVars, ledger, profile, launcherVars, undeleted, unrecorded,
                 sweptLive, queue, current>>

\* deleteAppContainerProfile succeeds.
SweepProfile ==
  /\ host = "sweeping" /\ current # None /\ line = NLines
  /\ current \in profile
  /\ profile' = profile \ {current}
  /\ UNCHANGED <<hostVars, procVars, ledger, ace, launcherVars, giveUpVars, sweepVars>>

\* As SweepFails, had the grants file been removed whatever the profile did.
SweepFailsAndForgets ==
  /\ host = "sweeping" /\ current # None /\ line = NLines
  /\ ledger' = ledger \ {current}
  /\ queue' = queue \ {current}
  /\ current' = None
  /\ UNCHANGED <<hostVars, procVars, profile, ace, launcherVars, giveUpVars, sweptLive,
                 line>>

\* deleteAppContainerProfile or the removal of the file throws: the entry stays
\* for the next boot.
SweepFails ==
  /\ host = "sweeping" /\ current # None /\ line = NLines
  /\ queue' = queue \ {current}
  /\ current' = None
  /\ UNCHANGED <<hostVars, procVars, diskVars, launcherVars, giveUpVars, sweptLive, line>>

\* The profile is gone; remove the grants file.
SweepLedger ==
  /\ host = "sweeping" /\ current # None /\ line = NLines
  /\ current \notin profile
  /\ ledger' = ledger \ {current}
  /\ queue' = queue \ {current}
  /\ current' = None
  /\ UNCHANGED <<hostVars, procVars, profile, ace, launcherVars, giveUpVars, sweptLive,
                 line>>

SweepDone ==
  /\ host = "sweeping" /\ current = None /\ queue = {}
  /\ host' = "up"
  /\ UNCHANGED <<probes, stage, procVars, diskVars, launcherVars, giveUpVars, sweepVars>>

-----------------------------------------------------------------------------

HostStep(s) ==
  \/ Prepare(s) \/ RefusePrepare(s) \/ StartLauncher(s)
  \/ Attach(s) \/ AttachFail(s) \/ CloseJob(s)
  \/ ProbeKill(s) \/ ProbeUnledger(s) \/ ProbeDeleteProfile(s)

LauncherStep(s) ==
  \/ ReadGrants(s) \/ EarlyReturn(s) \/ CreateProfile(s) \/ ApplyAce(s)
  \/ CreateChild(s) \/ AssignJob(s) \/ Resume(s) \/ FailLaunch(s)
  \/ ChildWaited(s) \/ CloseHandles(s) \/ RevokeAce(s)
  \/ DeleteProfile(s) \/ DeleteLedger(s)

SweepStep ==
  \/ \E s \in Spawns : SweepEntry(s) \/ SweepSkip(s)
  \/ SweepLine \/ SweepProfile \/ SweepFails \/ SweepLedger \/ SweepDone

Next ==
  \/ \E s \in Spawns :
       HostStep(s) \/ LauncherStep(s) \/ KillLauncher(s) \/ ChildExits(s) \/ TempSweep(s)
  \/ HostDies \/ PowerLoss \/ Boot \/ BootWithoutSweep \/ SweepStep

Spec == Init /\ [][Next]_vars

\* The processes that are alive get to run, a booted host finishes its sweep, a
\* host that is down is booted again with its addon if that keeps being
\* possible, and a native call of the janitor does not fail for ever.  Nothing
\* is assumed of crashes, kills and exits, nor of what the host does next.
Fairness ==
  /\ \A s \in Spawns : WF_vars(LauncherStep(s)) /\ WF_vars(ChildExits(s))
  /\ WF_vars(SweepStep) /\ SF_vars(Boot)
  /\ \A s \in Spawns : SF_vars(SweepEntry(s)) /\ SF_vars(current = s /\ SweepLedger)
                       /\ SF_vars(current = s /\ SweepProfile)
  /\ \A s \in Spawns : \A i \in Lines : SF_vars(current = s /\ line = i - 1 /\ SweepLine)

FairSpec == Spec /\ Fairness

-----------------------------------------------------------------------------
(* Properties.                                                             *)

Over(s) == launcher[s] \notin Live

\* A child executes only while its launcher waits for it, inside the launcher's
\* kill-on-close job, with every ACE of its grants file in force, so that no
\* deny is missing under a grant.  The exception is a spawn the janitor took
\* for an orphan while its launcher was still alive.
RunsConfined ==
  \A s \in Spawns : child[s] = "running" =>
    /\ launcher[s] = "waiting"
    /\ s \in inner
    /\ s \notin sweptLive => ace[s] = Lines

\* When the host has let go of a spawn, by a refusal of its hook, by closing
\* or terminating its job, by the cleanup of a probe, or by dying after its
\* hook ran, nothing of that spawn executes any more, although the child may
\* never have joined the host's job.
NothingRunsAfterRelease ==
  \A s \in Spawns :
    \/ stage[s] \in {"refused", "done", "killed", "unledgered"}
    \/ stage[s] = "lost" /\ s \in outer
    => child[s] # "running" /\ Over(s)

\* Spawns whose record nobody vouches for: a probe's is removed by its cleanup,
\* and what of it is still there then, an orphan's by the janitor, though its
\* launcher lived, and any by a temp sweep.
Disowned == probes \cup sweptLive \cup unrecorded

\* What a spawn leaves behind can be found again: an ACE or a profile that still
\* exists is recorded in the ledger, or the call that was to remove it failed
\* and was given up.
LitterIsRecorded ==
  \A s \in Spawns \ Disowned : s \notin ledger =>
    /\ ace[s] \subseteq dropped[s]
    /\ s \in profile => s \in undeleted

\* An entry no live launcher will clean up, of a host that is gone, is swept by
\* a later boot, its ACEs and profile with it, provided hosts keep exiting and
\* booting.  The exits may come in the middle of any sweep.
Orphan(s) == s \in ledger /\ Over(s) /\ stage[s] = "lost"
OrphansAreSwept ==
  []<>(host = "down") =>
    \A s \in Spawns : Orphan(s) ~>
      /\ s \notin ledger
      /\ s \in sweptLive \cup unrecorded
         \/ (s \notin profile /\ ace[s] \subseteq dropped[s])

-----------------------------------------------------------------------------
(* The contract this implements, and what its variables are here.          *)

Phase == [s \in Spawns |->
  IF child[s] = "running" THEN "running"
  ELSE IF \/ child[s] = "dead" \/ launcher[s] \in Cleaning \cup {"gone"}
          \/ launcher[s] = "none" /\ stage[s] \in {"refused", "lost"}
       THEN "over" ELSE "idle"]

Released == {s \in Spawns :
  \/ stage[s] \in {"refused", "done", "killed", "unledgered"}
  \/ stage[s] = "lost" /\ (s \in outer \/ Over(s))}

Litter == {s \in Spawns : ~ ace[s] \subseteq dropped[s]}
          \cup (profile \ undeleted)

Contract == INSTANCE SpawnContract WITH
  phase <- Phase, released <- Released, record <- ledger, litter <- Litter,
  disowned <- Disowned

\* A spawn runs at most once, only on record and never after its release, and
\* its ACEs and profile come only after its record, go only after its child has
\* ended, and are gone before the record is: in every order of steps, crashes,
\* sweeps and refusals of the host, the launcher and the janitor.
ImplementsContract == Contract!Spec

-----------------------------------------------------------------------------
(* The invariant the safety properties rest on, conjunct by conjunct.      *)

\* Where the launcher is tells where the child is, and that it is in the job.
ChildFollowsLauncher(s) ==
  /\ launcher[s] \in {"none"} \cup Launching => child[s] = "none"
  /\ launcher[s] \in {"created", "jobbed"} => child[s] # "running"
  /\ launcher[s] \in {"jobbed", "waiting"} => s \in inner
  /\ launcher[s] \in {"revoking", "unprofiled"} => child[s] \in {"none", "dead"}
  /\ child[s] = "running" => launcher[s] = "waiting"
  /\ s \in childOuter => s \in outer

\* Where the launcher is tells which ACEs are in force.
AcesFollowLauncher(s) ==
  /\ launcher[s] \in {"none", "start", "parsed"} =>
       ace[s] = {} /\ applied[s] = 0 /\ s \notin profile
  /\ launcher[s] \in {"none", "cleanup"} \cup Launching \cup Holding => revoked[s] = 0
  /\ launcher[s] \in {"granting"} \cup Holding => ace[s] = 1..applied[s]
  /\ launcher[s] \in Holding => applied[s] = NLines
  /\ launcher[s] = "cleanup" => ace[s] \subseteq 1..applied[s]
  /\ launcher[s] = "revoking" =>
       \A i \in ace[s] : i \in dropped[s] \/ (revoked[s] < i /\ i <= applied[s])
  /\ launcher[s] = "unprofiled" =>
       ace[s] \subseteq dropped[s] /\ (s \in profile => s \in undeleted)

\* A live launcher that has read its grants file still has it, and so has
\* whatever is neither removed nor given up.
Recorded(s) ==
  /\ launcher[s] \in Live \ {"start"} => s \in ledger
  /\ s \notin ledger =>
       ace[s] \subseteq dropped[s] /\ (s \in profile => s \in undeleted)

\* What the janitor is at has no live launcher, and the lines it has gone over
\* are revoked or given up.
SweptSoFar(s) ==
  current = s =>
    /\ launcher[s] \notin Live
    /\ \A i \in ace[s] : i \in dropped[s] \/ line < i

\* How far the host has taken a spawn tells whether a launcher can be alive.
StageFollows(s) ==
  /\ stage[s] \in {"idle", "prepared"} => launcher[s] = "none"
  /\ stage[s] \in {"spawned", "attached", "done", "killed", "unledgered"} =>
       launcher[s] # "none"
  /\ stage[s] = "attached" => s \in outer
  /\ s \in outer => stage[s] \in {"attached", "done", "lost"}
  /\ \/ stage[s] \in {"refused", "done", "killed", "unledgered"}
     \/ stage[s] = "lost" /\ s \in outer
     => launcher[s] \notin Live
  /\ stage[s] \in {"killed", "unledgered"} => s \in probes
  /\ stage[s] = "idle" => s \notin ledger
  /\ host # "up" =>
       stage[s] \notin {"prepared", "spawned", "attached", "killed", "unledgered"}

IInv ==
  /\ current # None => host = "sweeping"
  /\ \A s \in Spawns :
       /\ ChildFollowsLauncher(s)
       /\ StageFollows(s)
       /\ s \notin sweptLive => AcesFollowLauncher(s) /\ SweptSoFar(s)
       /\ s \notin Disowned => Recorded(s)

=============================================================================
