# Verification of the Convira sandbox runtime

This directory models `packages/sandbox-runtime` and `packages/sandbox-enforcer`
in TLA+. The models are checked with TLC on small instances; what matters most
is proved with TLAPS for every value of the constants. `PROJECT.json` holds the
machine-readable side: which lines each definition stands for, the runs, the
mutants that show what each property can catch, the findings, the hazards and
the theorems.

To check a run: `tlc -config LinuxSafety.cfg MCLinuxMountPlan`. To check proofs:
`tlapm AppContainerSpawn_proofs.tla`.

## 1. The system

A host (a Node process, often Electron) runs tools in sandboxes. For each tool
it asks an adapter for a wrapped spawn; a runner spawns that, calls a hook after
the spawn, and watches, kills and releases the process. At boot, probes find out
which controls really act on this machine, and the capability report claims only
those. Nothing runs in more than one thread of the host, yet nearly everything
is concurrent: the launcher, bwrap, the sandboxed process, its children, probe
children, other processes of the user, and crashes between any two steps.

| component | state it keeps | operations | what is hard |
|---|---|---|---|
| AppContainer spawn (`win-appcontainer.ts`, `win_appcontainer_launch.cc`, `native-windows.ts`) | ledger files, AppContainer profiles, ACEs on user directories, two nested jobs | filter, materialize, prepare, launch, hook, wait, revoke, sweep at boot | crashes between any two steps; launcher and hook race; the janitor works beside live launchers; the ledger lies in a temporary directory |
| Job registries (`win-job-object.ts`, `win_job_object.cc`) | pid to job id, job id to HANDLE | attach, terminate, release | reused pids, processes that fork before they are assigned, native calls that fail |
| Job limit probes (`win-job-object.ts`, selftest verbs) | children, job, result files, cached verdict | kill-tree, memory, process-count and CPU probes | a child races its own assignment; a failure looks like a limit |
| AppContainer probes (`win-appcontainer.ts`, selftest verbs) | outside file or listener, launcher, result files, cached verdict | filesystem, network, caging | two legs, apart in time, must differ only by the confinement |
| Group and watchdog probes (`probes.ts`, `rss-watchdog.ts`, `disk-watchdog.ts`) | detached group, pid file, cached verdict | descendant kill, RLIMIT_AS, resident set, directory growth | zombies, pid reuse, a kill that is only believed to act |
| Watchdogs (`rss-watchdog.ts`, `disk-watchdog.ts`) | timer, stopped flag | tick, sample, breach, stop | growth between samples, null samples, a directory that changes while it is walked |
| Linux mount plan (`native-linux.ts`, `deny-leaf-kind.ts`) | list of mounts, seal targets | bind, seal, overlay | order of mounts, host changes between plan and mount, denied paths that do not exist yet |
| Seatbelt adapter (`native-macos.ts`) | profile file, sweep flag, tracked directories | generate rules, resolve the command, write, sweep, remove | the last matching rule wins; every path has a second name; crashes leave directories |
| rlimit wrapper (`rlimit.ts`) | cached probe | derive values, wrap in a shell | rounding at boundaries; the script's own forks fall under its limits |
| Detection and report (`detect.ts`, `types.ts`, `passthrough.ts`) | probe caches | choose adapter, report, wrap, refuse | a mode that falls back silently; verdicts reached during a passing fault |
| Landlock (`landlock.ts`, `landlock_binding.c`) | ruleset descriptor, rights of a thread | create, add rules, restrict | ABI versions, a rule that fails half way or is passed over, rules that reach what lies beneath their paths |
| seccomp (`seccomp.ts`, `seccomp_compile.c`) | filter descriptor | compile, hand to bwrap | life of the descriptor across modules and exec |

Interactions: the adapter writes the ledger file and returns a command; the
runner starts it; the launcher reads the file and removes it at its end; the
hook assigns the launcher to the host's job through the registries; the runner
closes that job by pid. The probes start the same launcher binary with a verb
and look at files it publishes; detection, `capabilitiesV2()` and each
`wrapSpawn` read their cached verdicts, and ask those probes that nobody asked
before. The Linux adapter opens the filter of the enforcer and names it in the
arguments of bwrap.

What makes each component correct: a confined child executes only under the
whole of its confinement and nothing of it outlives its release; what crashes
leave behind is found again; closing a job by pid ends that tree and no other; a
probe says yes only if the control acted, recognises a control that works, ends,
and leaves nothing running; a watchdog notices and is bounded in what it misses;
a denied path is not visible, nor can be created, and planning changes nothing
on the host; nothing is reached that was not granted and what was granted can be
used; the limits of a script hold when the command begins; reports and spawns
rest on the same verdicts.

## 2. Modules

| module | stands for | abstract |
|---|---|---|
| `SpawnContract` | what the host is promised of a spawn: it runs once, not after its release, and what it leaves on the machine is on record throughout | |
| `AppContainerSpawn` | one action per step of the host (prepare, start, hook, release, probe cleanup), of the launcher (read, profile, ACE, create, assign, resume, wait, revoke, delete) and of the janitor; host death, launcher kill, power loss, a sweep of the temporary directory. Implements `SpawnContract` | a grants file is two numbers of lines; an ACE is in force or not |
| `PathPolicy` | a `SandboxSpawnConfig`, and what it grants | paths are sequences of names |
| `AppContainerGrants` | the filtered grants, with the directory of the command, the kinds and creation of missing denies, the lines and the ACEs, the DACLs they come to; other processes | inheritance, and deny before allow on each level, as Windows has it; whether a deny outlasts a later grant on the same path is left open |
| `SeatbeltProfile` | the rules of the profile and of the legacy one, last-match evaluation, the resolved command; the profile file, its sweeps, which may fail, exits and crashes | file rules only; a directory's age is a week or less |
| `PathAdapters`, `MCPathAdapters` | both, under one set of properties | |
| `LinuxMountPlan`, `MCLinuxMountPlan` | the filesystem part of `wrapSpawn`, bwrap performing it, other processes, then the sandboxed one | no symbolic links or device nodes |
| `JobRegistry`, `MCJobRegistry` | attach, refusal, terminate/release, forks, exits, pid reuse | terminate and release are one action: both end the members and take the handle |
| `JobLimitProbes` | four probes: legs, polls, finally block; the verbs; the host | durations are ticks: `Dwell < Window` |
| `ConfinementProbes` | three probes, the launcher as they see it, the listener and the verbs | the handshake and the synchronous control leg are one step each |
| `GroupProbes` | descendant kill, resident set, directory, RLIMIT_AS | processes run, are zombies, or gone |
| `Watchdog` | the timer loop of both watchdogs | usage in units of the sampler |
| `DirectorySample`, `MCDirectorySample` | the walk of `sampleDirectoryBytes` beside a writer of files and directories | a directory is its path; to rename one is to move what is in it |
| `RlimitScript` | the derived values, the script with its clamp helper, the probe | operators, no state; infinity is a number |
| `KernelHardening` | `applyKernelHardening`, Landlock call by call, the layers in force on a thread and what they allow, the descriptor table, `getSeccompFd` | rights in families; filters have no content; places are real names |
| `SandboxHost`, `MCSandboxHost` | probes and their caches, detection, report, `wrapSpawn` of all four adapters, spawn; extends the two above | a probe is one step; what it finds is a fact of the host, or of a passing fault |

Proofs are in `AppContainerSpawn_proofs` (with the refinement of `SpawnContract`),
`JobRegistry_proofs`, `JobLimitProbes_proofs`, `ConfinementProbes_proofs`,
`GroupProbes_proofs` (with those about `Watchdog` and `DirectorySample`),
`LinuxMountPlan_proofs`, `PathAdapters_proofs` and `SandboxHost_proofs` (with those
about the script and Landlock).

State of the code and of the models: `ledger` is the directory
`convira-appcontainer-ledger`, `profile` and `ace` what Windows holds, `applied`
the launcher's `appliedPaths`, `inner` and `outer` the two jobs. `byPid` is
`_jobsByPid`, `handles` is `g_jobs`. `emitted` and `seals` are
`emitted` and `sealTargets`, `overlays` is what the last two loops push to `args`,
and `base` what is pushed before the config's paths. `swept` and `tracked` are
`sweptThisProcess` and `createdProfileDirs`. `verdict` is the cache of each probe,
`need` what a call has still to ask before it can answer. Definitions that are
only there for a mutant say so (`As X, had ...`).

Parts that meet in a call are composed: `SandboxHost` has detection, the script
and the enforcer in one process, `PathAdapters` has both path adapters under one
config. Parts that meet only in the operating system keep to themselves, and each
model has as much of it as it needs: the launcher's life is in
`AppContainerSpawn`, its ACEs are in `AppContainerGrants`, and `ConfinementProbes`
has what its probes can see of it. `SandboxHost` takes from the probe modules what
they establish: without a fault a probe finds what acts.

## 3. Runs

Runs that must pass:

| run | instance | shows | states |
|---|---|---|---|
| `appcontainer_safety` | 1 spawn of either kind, 1 deny line, 1 grant line | the contract; confinement before the first instruction, nothing after release, no unrecorded litter, under every crash and temp sweep; orphans are swept though sweeps are cut off | 79 thousand |
| `job_registry` | 3 roots, 2 pids, 2 children, 3 jobs | registries agree, trees end with their job, only their own | 215 thousand |
| `limit_probes` | `Dwell` 1, `Window` 3, 2 faults, all hosts | a yes is earned, nothing is left, probes end | 8 thousand |
| `confinement_probes` | `Window` 2, 2 faults, all 32 hosts | the same for the AppContainer probes | 15 thousand |
| `group_probes` | `Window` 2, 2 faults, all hosts | the same for the other probes; a reused pid is not signalled | 6 thousand |
| `watchdog_safety` | limit 3, rate 2, 3 misses, usage 12 | overshoot bound; a breach once; no silence for ever | 1 thousand |
| `directory_sample` | 2 files, directories down to 2 levels, size 1 | samples are bracketed, walks end | 142 thousand |
| `linux_mounts` | every tree of 5 paths, 2 binds, 2 denies, 4 hosts | denies hold, seals are invisible, nothing is left on the host, every plan mounts; races never widen access | 1.9 million |
| `path_adapters` | configs of 1 read, 1 write and 2 denies over 6 paths; 4 places for a command | denied is hidden, nothing ungranted is reached, granted is usable; profile directories go | 454 thousand |
| `sandbox_host` | 3 platforms, 3 modes, all sets of working controls, 4 hosts, 6 requests, 1 fault, 2 descriptors, 2 places, one beneath the other | spawns match reports, "native" is confined, limits bind, Landlock gives what was asked for, no less and no more | 866 thousand |

The runs that must fail, `confinement_probes_net` and `seccomp_descriptor`, are
findings (section 6).

Deadlock checking is off where the system may stop (spawns, probes and plans come
to an end); `DirectorySample` and `SandboxHost`, which never stop, are checked for it.

The inductive invariants hold on the same instances; the runs list what says more.

### Bounds

- `Spawns`, `DenyLines`, `GrantLines`: one spawn, since the janitor treats entries
  one by one; a deny line and a grant line tell a prefix of the applied lines from
  the whole, and a deny left out from a grant left out. The theorems and the
  refinement hold for any number of each.
- `MaxJobs` 3, one for each root; two roots share a pid, so there is a reuse.
- `MaxMisses` 3 and `MaxUsage` 12: the limit, twice over, and any number of misses
  seen as one, two and three. The theorems have no such bound.
- `MCTrails`: the granted directory, one in it and one in that, so that the writer can
  make a directory while the walk is above it, in it and past it. `MaxSize` 1: a file
  is empty or not. The theorem holds for any tree of paths and any size.
- `Hosts`, `MaxWrites`, `MaxReads` of `LinuxMountPlan`: `MCLinuxMountPlan` looks at
  four hosts. On three nobody else acts; the paths lie in a place of their own, below
  a system directory, or below `/tmp`; there are up to two denies, which can share or
  nest seals, and the sandboxed process takes two steps (remove a file, create another
  in its place). On the fourth another process takes one step between any two looks
  or mounts, with one deny. `TwoBinds`: binds of different depth, in either order
  of flavors.
- `Dwell`, `Window`: a fault can come before, in and after each; the spinner can
  live for less than the dwell, between, or for longer than the window.
- `MaxFaults` 2 in the probes: one fault in each leg, or both in one. 1 in
  `SandboxHost`: a fault that comes and passes spoils any run of probes; a second
  would only spoil more.
- `MCConfigs`: the paths nest (home, a directory, a file in it), stand beside each
  other, lie in a temporary directory and above the data volume; lists overlap, so a
  path may be granted and denied. `MCCommandDirs`: a command in the system, in a
  directory that may be granted or denied, in one that only looks like the system's,
  and in one named by a root link.
  `MaxOthers` 1: another process creates or removes one path, at any moment. `Dirs`
  has one directory; those of different processes do not meet. `MCLarge`: one config
  whose profile goes through a file.
- `MCHosts`: no hard limits; tight ones with more processes of the user than
  `Headroom`; one limit below the default; a shell without `-v`. `MCRequests`: each
  end of each limit, and both networks. `Unlimited` and `MaxSafe` stand for infinity
  and 2^53 - 1 in numbers TLC can hold.
- `Focus` keeps the states of `SandboxHost` apart that do not touch: Landlock is
  looked at in a process without an adapter, and everything else on a kernel without
  Landlock. They share the table of descriptors only. `Fds` has two, so it fills.
  `MCAbove`: one place lies beneath the other, and either may be in each list.

### Fairness

- `AppContainerSpawn`: a launcher that is alive takes its next step, a child may
  not run for ever, and a sweep under way goes on (all weak). Booting and the
  janitor's native calls are strong: a call that fails in one boot and is tried in
  every later one does not fail each time. Nothing is assumed of crashes. The
  property has its own premise: that hosts keep exiting, since sweeping is done at
  boot only.
- `PathAdapters`: a spawn under way goes on, and weeks pass (weak). A sweep is best
  effort (`native-macos.ts:363-371`): a directory that sweep after sweep may remove is
  removed by one of them (strong). `ProfileDirsGo`
  has its own premise: that processes come, wrap and go, since they sweep at their
  first spawn only.
- `Watchdog`: the timer fires; a sampler asked again and again does not answer
  null for ever while the group is over its budget (strong); a signal sent is
  delivered; a close is noticed.
- `DirectorySample`: the walk is synchronous, so it takes its steps (weak). The
  writer may do anything, for ever, and the walk passes over what it cannot read
  (no fairness).
- probes: the probing thread and the clock (weak); a spinner does not outlive its
  lifetime; who waits for the dead goes on to. Children, launchers and listeners
  may stand still: bounded polls are all that ends a probe.

## 4. What is proved

Proofs assume only the named assumptions on constants, so they hold for any number
of spawns, lines, processes and pids, any bound on time, any number of faults, any
tree of paths, and any lists in a config. Each safety property is proved
from an inductive invariant, since none of them is inductive by itself, and each
invariant was checked with TLC before it was proved. The proofs have one step for
each action, and under it one for each conjunct the action can disturb.

Most assumptions say that sets are disjoint or bounds natural numbers. Those that
say more are:

- `PathsAssumption` of `LinuxMountPlan`: finitely many paths, with each its parents
  (`deepestExistingDirBelow` walks up `path.dirname`). `LeavesAssumption`: what
  `resolveDenyLeafKind` says is a file has no paths below it. `HostsAssumption`:
  `/tmp` is one of the paths, or neither above nor below any.
- `SystemAssumption`, `AliasAssumption`, `LinksAssumption` of `SeatbeltProfile`: the
  lists of directories in `native-macos.ts` are not empty; paths of a config, the
  legacy floor and temporary directories are not named by the data volume, nor is that
  one of the latter two or below; a system directory that is listed by a root link is
  listed by its real name too.
- `TrailsAssumption` of `DirectorySample`: paths are prefixes of one another from the
  root on, a name at a time. `AboveAssumption` of `KernelHardening`: each place lies
  beneath itself, and beneath what those above it lie beneath.
- `RlimitAssumption`: what `rlimit.ts` has for constants (the minimum CPU time is below
  the maximum, infinity above all that can be asked for). `HostsAssumption` of
  `SandboxHost`: the user of a host that starts a shell has room for one more
  process, since the clamp helper takes the silence of a failed fork for "no limit"
  (`rlimit.ts:115`).

`AppContainerSpawn_proofs`
: That no child runs without all its ACEs cannot be seen from the child alone.
  `IInv` says, per spawn, what the place of the launcher tells about the child
  and its job (`ChildFollowsLauncher`), about the ACEs as a prefix of the file while
  it grants and a suffix while it revokes (`AcesFollowLauncher`), and about the
  ledger (`Recorded`); what the janitor's cursor tells about the entry it is at
  (`SweptSoFar`); and what the host's stage tells about the launcher
  (`StageFollows`). `TypeCorrect`, `Invariance`, then `Confinement`, `Release` and
  `Recovery` follow in one step each. `Refinement`: `AppContainerSpawn` implements
  `SpawnContract`. `StepIsTurn` shows that each step of host, launcher, janitor, crash
  and temp sweep is, for each spawn, a turn of the contract or none; it needs `IInv`
  before the step and after.

`JobRegistry_proofs`
: `IInv` gives `Agreement`: nothing refers to an id that was not handed out yet, so a
  fresh job has no members and no pid. `TreeInv` adds whose job is whose: members are
  in the job of their root (`InTheJobOfItsRoot`), owners still have their jobs
  (`OwnersHaveTheirJobs`), of two roots with one pid the exit of the earlier was seen
  (`PidsInTurn`), and no two share a job (`OneJobEach`). From it `OutOfReach`,
  `TreeEnds`, and the action property `OwnTree`.

`JobLimitProbes_proofs`
: `Verbs` says which place and answer each probe can have; for each probe a conjunct
  says what its legs have shown so far, or which fault has been spent on a wrong
  answer (`MemoryLegs`, `PidsLegs`, `CpuLegs`, `TreeLegs`); `TreeInJob` says that the
  gate keeps the tree in the job. From it `Proved`, `WorkingProved`, `NobodyLeft`.

`ConfinementProbes_proofs`
: The same plan: `Launches` (who has started), `Caged` (nobody of the job outlives the
  launcher), `FsLeg` and `CageLeg` (which faults a wrong answer costs), `Smooth` (no
  step fails undisturbed). From it `Proved`, `WorkingProved`, `NothingLeft`.

`GroupProbes_proofs`
: `OwnPids` (the leader's pid is its own until the probe is over), `Stages`, `Traces`
  (what a record says of the host), `Unharmed` (an undisturbed group stays as it was).
  From it `Proved`, `WorkingProved`, `NothingLeft`, `OnlyItsOwn`. Of `Watchdog`: an
  account of the growth not sampled yet, at most one interval for each miss and the
  one under way, with `OneMoreMiss` its only arithmetic. `BestEffort`, and `OneBreach`.
  Of `DirectorySample`: `Account` says that what a walk has added up and what it has
  still to come to (`Rest`) lie together between what was there when it began and
  what is there now, so `SampleIsBracketed`. A real total is a fold over the files;
  `SumsAdd`, `SumMonotonic` and `SumGrows` say of such sums, for any finite set,
  what the steps need. They rest on `SubsetsByTaking`: a set of subsets that has
  the empty one, and any other once it has it less its chosen element, has them all.

`ProbeRunsDown` and `ProbeNeverStuck`, in the three modules above
: What `ProbeEnds` rests on, without the fairness. `Left` counts the stages a probe
  may have before it and the ticks of their polls. No child, launcher, listener or
  fault adds to it, each step of the probing process and each tick takes from it, and
  it is never more than 7, 12 or 18 times `Window + 1`. Until the probe is done,
  `MayGoOn`: the guard of a step that is fair holds, which is one of the process or
  its clock but for two that they wait for and that come once in a leg: a zombie is
  waited for, the spinner's lifetime ends. That `MayGoOn` is what `ENABLED`
  says of those steps was checked with TLC on the instances of the runs, not proved.

`LinuxMountPlan_proofs`
: What a list of mounts means is decided by its last entry that contains a path, so
  the first lemmas say what becomes of `Governing` and `View` when lists are joined,
  begun or filtered (`LaterGoverns`, `BeginsConcat`, and for the seals `SealParts`).
  The invariant has two halves. `WideInv` holds whatever other processes do: the
  read-write binds come before the read-only ones (`OrderInv`), only directories
  under a read-write bind are sealed (`SealInv`), nothing in `overlays` is wider than
  in `emitted` (`WidthInv`). From it `NothingIsWidened`. The other half holds while
  nobody else changes the host, and until the process runs the host is as it was
  planned for: every mount fits what is there or can be made (`FitInv`); below a
  directory to be sealed or sealed is what was missing, and sealing goes from the
  shallow to the deep (`MaskInv`); each deny gone over is hidden by its overlay,
  by another deny, by a file in its way, or is nowhere read-write (`SettledInv`,
  `CoverInv`); seals give back nothing that was denied (`ShownInv`) and keep the rest
  as it was (`KeepInv`). `RunInv` carries the result on while the sandboxed process
  creates and removes files: where something is denied it sees a tmpfs or `/dev/null`,
  or nothing, and cannot write. Of the denies, `HeldInv` holds whatever others do
  (`OverlaysHold`): once the plan has an overlay over a denied path, no later mount
  gives the path back, whatever became of it on the host since it was looked at. From
  both `DeniedIsOutOfReach`, `HostIsUntouched`,
  `SealsAreNotSeen` and `EveryPlanMounts`.

`PathAdapters_proofs`
: `LaterDecides` (of two lists of rules the later one decides if it matches) takes a
  profile apart, section by section, into `SeatbeltDecides` and `LegacyDecides`: what
  a profile allows, without an order. `ProfileInv` says that the profile in use is
  the one for this config and command. On Windows `GrantsInv` says that the filtered
  grants are those of the config and the command's directory and leave out no deny
  below either, `AceInv` that each line is still to come or has left its ACE. From them `DeniedStaysHidden`, `NothingIsUngranted` and
  `GrantedStaysUsable`.

`SandboxHost_proofs`
: `VerdictsEarned` and `AdapterEarned` (a yes was found on this host, an adapter stands
  on yeses) give `Confinement`. `RulesAsked` (a ruleset being built has only rules that
  were asked for, and all of those done with but the ones passed over) and
  `LayerLeaves` (what one layer more leaves of the rights of a thread) give the action
  property `HardeningTold`. `Heard` says what a call
  has still to ask, and that reports and spawns go by what was heard; since verdicts
  that are cached stay (`VerdictsStay`), this gives `SpawnsTold`. `LInv` says that the
  wrapper which is used was proved on this host, and what the script set: entry by
  entry it keeps the process budget as it was, until the last one (`LimitsKept`).

Only model-checked: all liveness, since it needs fairness and `ENABLED`; of it,
`OrphansAreSwept`, `OverBudgetIsNoticed`, `WalkEndsEventually` and `ProfileDirsGo`
altogether, and of `ProbeEnds` the last step, from the theorems above by fairness.
Every other property of a passing run is a theorem.

## 5. Properties and what could break them

Every property of a passing run has a mutant of the code in `PROJECT.json` that
violates it: a launcher that goes on without its job, a launcher that removes its
record once it has read it, a sweep that forgets a failed entry, a registry that
keeps an entry, a gate left out of the kill-tree probe, a control leg that looks at
exit codes, a deny scan that seals the parent instead of the deepest existing
directory, a rule written for an empty list, a script that sets the process limit
first, a cache that keeps only a yes, and so on.

What a property excepts is as much part of the result as what it says. The
exceptions are places where the code promises, or its comments say, more than
it does; each was met as a counterexample of the property without it.

- `RunsConfined`, `LitterIsRecorded`, the contract: a spawn in `sweptLive`. The
  janitor asks nothing about the owner of an entry, so the boot of another host, or of
  the same one after a crash that its launchers survived, sweeps the entries of
  launchers that live (`win-appcontainer.ts:402-422`).
- `LitterIsRecorded`, the contract: probe spawns. `cleanupLauncherSpawn` removes the
  grants file and deletes the profile, and revokes none of the ACEs that its launcher
  had applied (`win-appcontainer.ts:540-552`). And spawns in `unrecorded`, whose record
  went with the temporary directory: their own launcher still cleans up, but nobody
  does after a crash (`win-appcontainer.ts:210`).
- `RunsConfined` speaks of children that execute: a launcher killed between
  `CreateProcessW` and `AssignProcessToJobObject` leaves a child behind that is
  suspended for ever (`win_appcontainer_launch.cc:684-731`); so does
  `NothingRunsAfterProbe` of `ConfinementProbes`. The child need not be in the host's
  job: a launcher ahead of the hook creates it before it is assigned itself, so a
  child is in that job only if the hook came first (`native-windows.ts:265` says
  always), and the inner job alone ties it to the release.
- `OvershootBounded`: one interval for each null sample, where the headers of both
  watchdogs speak of one interval in all (`rss-watchdog.ts:8`).
- `SampleBracketed`: no moves or deletions. A file that moves ahead of the walk is
  counted twice, so a sample may exceed the budget though the directory never did. And
  entries that cannot be read count for nothing (`disk-watchdog.ts:71`): then a sample
  is only known not to be too high.
- `WalkEndsEventually` does not say when: a writer that nests directories ahead of the
  walk prolongs it, and with it the synchronous call that the host waits in, up to the
  length of a path (`disk-watchdog.ts:66`).
- `ProvedLimitsAct`: `Untouched` and not `Deceptive`. The legs of a probe are apart
  in time: one refusal or death in the claim leg proves a limit. So does a host that
  can commit 64 MiB and not 256, and one that ends a busy process between the 1.5 s
  of the control leg and the 10 s of the claim.
- `ProvedControlsAct`: of `ConfinementProbes`, the network probe (section 6), and
  a passing fault in the second leg of the others; of `GroupProbes`, subjects
  that end by themselves (the resident-set probe does not look whether its
  descendant is alive before the kill) and hosts where 256 MiB fail anyway.
- `WorkingControlsAreProved` of `GroupProbes`: hosts whose pid 1 does not wait for
  orphans; there a descendant that was killed stays a zombie and counts as a
  survivor.
- `DeniesHold`: below a file, which the sandboxed process may remove and replace by
  a directory (`native-linux.ts:49`); and, where others act, denies that the plan has
  no overlay for: a denied path that is missing below a read-only bind gets none and
  is seen when another process creates it later; nor is there one for a path that was
  removed when the plan looked at it. Where there is one, others can do nothing. The
  config's word is otherwise kept but for one thing: a write
  path below a read path is bound first and buried, so it ends read-only
  (`types.ts:28`, `native-linux.ts:396`).
- `NeverWidened`: denied paths, which the attempt to prove it brought up. A seal
  does not replay the read-only bind of a read path that is denied as well, since its
  overlay is to come (`native-linux.ts:153`); if the path is removed before the last
  loop looks at it, no overlay comes, and if it is made again before bwrap runs it is
  there read-write, through the child of the sealed directory that it lies in. That
  takes two denies and two steps of others, one more of each than the run has.
- `HostUntouched`: a denied path removed between the plan and its mount is created
  again on the host, as a mount point.
- `DeniedIsHidden` on Windows: an explicit grant on or below a denied path goes before
  the deny, and the directory of the command is such a grant, whatever the config
  says (`native-windows.ts:235-243`). So with a command in it, or below it, a denied
  directory is read from the command's on, where the config's doc has it "hidden after
  broader mounts/allows" (`types.ts:30`) and the grants file "deny wins"
  (`win-appcontainer.ts:187`). An ACE goes with its path, too: a denied path that is
  removed and made again is as open as what lies above it. On macOS the paths of a
  config are taken to be real names: they go into the profile as they come, and a deny
  by a root link (`/tmp/x`) would match nothing.
- `DeniedIsHidden` and `NothingUngranted` on macOS: a write grant at or above
  `/System/Volumes/Data`. The closing rule denies `file-read*` below it and no writes
  (`native-macos.ts:269`), and config denies name real paths only, so with such a grant
  every path can be written by its alias.
- `GrantedIsUsable`: commands in `Lookalikes`. Whether a directory is one that every
  profile may read is decided by `startsWith` on strings, so that of a command in
  `/usrlocal` is taken for one and gets no rule (`native-macos.ts:408`). On Windows,
  grants that were missing when they were looked for are dropped.
- `SpawnsAsReported` on POSIX: `fs` and `net` are constants of the report
  (`native-linux.ts:345`, `native-macos.ts:457`), though every field "states a FACT
  proven by that control's own passing probe" (`types.ts:174`). They are true of each
  spawn nevertheless, as no spawn goes without bwrap or sandbox-exec.
- `LimitsBind`: a host's hard limit, where it is lower. The wrapper's probe reads
  back every limit but that of processes.
- `HardensAsAsked` speaks of a place and the places above it, as a rule covers all that
  lies beneath its path (`landlock_binding.c:139-144`): a `readOnly` place beneath a
  `readWrite` one stays writable, though its doc says "can read (but not write)"
  (`landlock.ts:17`). What is asked for is given but by the rules in `passed`: a path
  that cannot be opened, for whatever reason, is skipped in silence
  (`landlock_binding.c:131-137`), so a host out of descriptors, or one whose places
  went meanwhile, is told "applied" and left with less, down to nothing. It speaks of
  the calling thread: `landlock_restrict_self` restricts no
  other thread of the process, while the doc of `applyLandlockRuleset` speaks of the
  process (`landlock.ts:147`). Below ABI 3 `truncate` is not handled, and stays
  allowed everywhere. Places are real names, and come and go only while a ruleset
  is built.

## 6. Findings

The code does otherwise than its comments say, each shown by a run that fails:

- `confinement_probes_net`: the listener of the network probe serves one client
  and closes its socket. The control leg is that client, so the confined child is
  refused on every host; the probe cannot say no to a host that does not confine.
- `seccomp_descriptor`: the descriptor of the filter is a memfd that is closed on
  exec, and a `SpawnSpec` hands on no descriptors. bwrap is told a number that stands
  for nothing, and gives up. Only the fallback of a temporary file reaches it. Nobody
  closes the descriptors either: the table of the host fills with the spawns that have
  a profile, and then the next filter, or ruleset, fails.

## 7. Not modelled

- The network, mach and process rules of Seatbelt: nothing is denied after them, so
  their order cannot matter; and the namespaces bwrap unshares and the capability
  SIDs of an AppContainer, which are the system's.
- Symbolic links and device nodes in the mount plan: each path is its own realpath.
  Links would multiply the trees beyond what can be enumerated.
- What a seccomp filter lets through: libseccomp compiles it from a list of names.
- Dirty corners of the probes: an ACE left behind by a probe that was cut off cannot be
  promised away (section 5); the finally block of the caging probe signals pids it has
  just seen dead, and a reuse within 20 ms is not in the model.
- WSL, which is a Linux host here, and the legacy `capabilities()`, which is the
  report with fewer fields.
- The build scripts, which keep no state at run time.
