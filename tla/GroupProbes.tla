----------------------------- MODULE GroupProbes -----------------------------
(***************************************************************************)
(* The boot probes that end a process they started themselves:             *)
(*                                                                         *)
(*   descKill  a group kill ends a background descendant (probes.ts)       *)
(*   rss       and its resident set can be measured (rss-watchdog.ts)      *)
(*   disk      the growth of a directory is seen and its writer killed     *)
(*             (disk-watchdog.ts; Windows, a single process)               *)
(*                                                                         *)
(* and the memory probe of probes.ts, whose two legs run to their end.     *)
(*                                                                         *)
(* The probes never return to the event loop, so Node does not wait for    *)
(* its child before they are done: the leader stays a zombie, or its       *)
(* handle open, and its pid is not given to another process.               *)
(***************************************************************************)
EXTENDS Naturals

CONSTANTS Window,    \* ticks a poll waits for its outcome
          MaxFaults  \* bounds how many passing faults strike one probe

ASSUME BoundsAssumption == Window \in Nat \ {0} /\ MaxFaults \in Nat

VARIABLES kind,      \* the probe that runs
          host,      \* what is true of this host
          pc,        \* where the probe is
          proc,      \* the detached leader and its descendant
          recorded,  \* the pid file, or the marker, is there
          measured,  \* a sample came out positive, or over the limit
          signalled, \* the group has been signalled
          waited,    \* ticks of the current poll
          faults,    \* passing faults so far
          stranger,  \* somebody else has got the pid of the leader
          hit,       \* history: the stranger was signalled
          verdict    \* the cached answer

vars == <<kind, host, pc, proc, recorded, measured, signalled, waited, faults,
          stranger, hit, verdict>>
fixed == <<kind, host>>
seen == <<recorded, measured>>
pids == <<signalled, stranger, hit>>

Kinds == {"descKill", "rss", "disk", "memory"}
Group == {"leader", "descendant"}

\* runs: the payload runs.  lasts: the descendant stays for longer than the
\* probe.  measures: the sampler sees what is there.  acts: a kill kills, or
\* the address space cap caps.  reaps: pid 1 waits for its orphans.
Hosts == [runs : BOOLEAN, lasts : BOOLEAN, measures : BOOLEAN, acts : BOOLEAN,
          reaps : BOOLEAN, memory : {"large", "small", "none"}]

\* What is true of the host for every probe but those it matters to is fixed.
Fits(k, h) ==
  /\ k \in {"descKill", "rss"} \/ (h.lasts /\ h.reaps)
  /\ k \in {"rss", "disk"} \/ h.measures
  /\ k = "memory" \/ h.memory = "large"

TypeOK ==
  /\ kind \in Kinds /\ host \in Hosts
  /\ pc \in {"spawn", "record", "alive", "breach", "kill", "reap", "tight", "loose",
             "clean", "done"}
  /\ proc \in [Group -> {"none", "running", "zombie", "gone"}]
  /\ recorded \in BOOLEAN /\ measured \in BOOLEAN
  /\ signalled \in BOOLEAN /\ stranger \in BOOLEAN /\ hit \in BOOLEAN
  /\ waited \in 0 .. Window /\ faults \in 0 .. MaxFaults
  /\ verdict \in {"none", "yes", "no", "late"}

Init ==
  /\ kind \in Kinds /\ host \in {h \in Hosts : Fits(kind, h)}
  /\ pc = (IF kind = "memory" THEN "tight" ELSE "spawn")
  /\ proc = [p \in Group |-> "none"]
  /\ recorded = FALSE /\ measured = FALSE
  /\ signalled = FALSE /\ stranger = FALSE /\ hit = FALSE
  /\ waited = 0 /\ faults = 0 /\ verdict = "none"

Running(p) == proc[p] = "running"
Dies(P) == proc' = [p \in Group |-> IF p \in P /\ Running(p) THEN "zombie" ELSE proc[p]]

\* As Subject, had the probe looked at the process it started.
LeaderIsSubject == "leader"

\* What the probe wants to see the end of, and how it looks: kill(pid, 0) finds
\* a zombie, except on Windows, where an exited process is reported dead.
Subject == IF kind = "disk" THEN "leader" ELSE "descendant"
IsAlive == Running(Subject) \/ (proc[Subject] = "zombie" /\ kind # "disk")

Ends(answer) == verdict' = answer /\ pc' = "clean"
Goes(to) == pc' = to /\ waited' = 0 /\ UNCHANGED verdict
Fault == faults < MaxFaults /\ faults' = faults + 1

-----------------------------------------------------------------------------
(* The probing process. *)

SpawnGroup ==
  /\ pc = "spawn"
  /\ \/ /\ proc' = [proc EXCEPT !["leader"] = "running"] /\ Goes("record")
        /\ UNCHANGED faults
     \/ Fault /\ Ends("no") /\ UNCHANGED <<proc, waited>>
  /\ UNCHANGED <<fixed, seen, pids>>

\* As Recorded, had the rss probe not waited for a sample.
RecordedUnmeasured == recorded

\* The rss probe samples in the same loop; the disk probe goes on to sample in
\* a loop of its own.
Recorded == recorded /\ (kind = "rss" => measured)

RecordSeen ==
  /\ pc = "record" /\ Recorded
  /\ Goes(CASE kind = "descKill" -> "alive"
            [] kind = "rss" -> "kill"
            [] kind = "disk" -> "breach")
  /\ UNCHANGED <<fixed, proc, seen, pids, faults>>

\* ps counts a zombie with no resident set.
Sample ==
  /\ host.measures /\ ~measured
  /\ \/ kind = "rss" /\ pc = "record" /\ \E p \in Group : Running(p)
     \/ kind = "disk" /\ pc = "breach" /\ Running("leader")
  /\ measured' = TRUE
  /\ UNCHANGED <<fixed, pc, proc, recorded, pids, waited, faults, verdict>>

LookAlive ==
  /\ pc = "alive"
  /\ IF IsAlive THEN Goes("kill") ELSE Ends("no") /\ UNCHANGED waited
  /\ UNCHANGED <<fixed, proc, seen, pids, faults>>

BreachSeen ==
  /\ pc = "breach" /\ measured
  /\ Goes("kill")
  /\ UNCHANGED <<fixed, proc, seen, pids, faults>>

\* As Signal, had the leader been signalled and not its group.
SignalLeader == IF host.acts THEN Dies({"leader"}) ELSE UNCHANGED proc

\* kill(-pgid), or TerminateProcess: who has the pid now is hit.
Signal == IF host.acts THEN Dies(Group) ELSE UNCHANGED proc
Hits == signalled' = TRUE /\ hit' = (hit \/ stranger) /\ UNCHANGED stranger

\* A group of zombies cannot be signalled everywhere, and an exited process
\* not at all on Windows: the throw ends the probe.
Kill ==
  /\ pc = "kill"
  /\ \/ /\ kind # "disk" \/ Running("leader")
        /\ Signal /\ Hits /\ Goes("reap")
     \/ /\ \A p \in Group : ~Running(p)
        /\ Ends("no") /\ UNCHANGED <<proc, pids, waited>>
  /\ UNCHANGED <<fixed, seen, faults>>

Gone ==
  /\ pc = "reap" /\ ~IsAlive
  /\ Ends("yes")
  /\ UNCHANGED <<fixed, proc, seen, pids, waited, faults>>

\* As PollTimesOut, had the last poll been without a deadline.
PollTimesOutButForReaping ==
  /\ waited = Window
  /\ \/ pc = "record" /\ ~Recorded
     \/ pc = "breach" /\ ~measured
  /\ Ends("late")
  /\ UNCHANGED <<fixed, proc, seen, pids, waited, faults>>

PollTimesOut ==
  /\ waited = Window
  /\ \/ pc = "record" /\ ~Recorded
     \/ pc = "breach" /\ ~measured
     \/ pc = "reap" /\ IsAlive
  /\ Ends("late")
  /\ UNCHANGED <<fixed, proc, seen, pids, waited, faults>>

\* The finally block signals the group once more, whatever came before.
CleanUp ==
  /\ pc = "clean"
  /\ IF proc["leader"] = "none" THEN UNCHANGED <<proc, pids>> ELSE Signal /\ Hits
  /\ pc' = "done"
  /\ UNCHANGED <<fixed, seen, waited, faults, verdict>>

\* 256 MiB under a cap of 64 must fail.  ~runs is a host without a working
\* rlimit wrapper, where runAllocation is an error.
TightLeg ==
  /\ pc = "tight"
  /\ \/ /\ host.runs /\ (host.acts \/ host.memory # "large")
        /\ Goes("loose") /\ UNCHANGED faults
     \/ /\ ~host.runs \/ (~host.acts /\ host.memory = "large")
        /\ Ends("no") /\ UNCHANGED <<waited, faults>>
     \/ host.runs /\ Fault /\ Goes("loose")
     \/ Fault /\ Ends("no") /\ UNCHANGED waited
  /\ UNCHANGED <<fixed, proc, seen, pids>>

\* 64 MiB under a cap of 1024 must not.
LooseLeg ==
  /\ pc = "loose"
  /\ \/ Ends(IF host.runs /\ host.memory # "none" THEN "yes" ELSE "no") /\ UNCHANGED faults
     \/ Fault /\ Ends("no")
  /\ UNCHANGED <<fixed, proc, seen, pids, waited>>

-----------------------------------------------------------------------------
(* The group, and the host around it. *)

\* The leader starts its descendant and writes down its pid; the writer of the
\* disk probe writes its marker before the first chunk.
LeaderActs ==
  /\ Running("leader") /\ host.runs /\ ~recorded
  /\ IF kind = "disk" THEN recorded' = TRUE /\ UNCHANGED proc
     ELSE \/ /\ proc["descendant"] = "none" /\ UNCHANGED recorded
             /\ proc' = [proc EXCEPT !["descendant"] = "running"]
          \/ /\ proc["descendant"] # "none" /\ UNCHANGED proc
             /\ recorded' = TRUE
  /\ UNCHANGED <<fixed, pc, measured, pids, waited, faults, verdict>>

\* A descendant that does not last, and a leader with nothing to wait for.
Exits ==
  /\ \/ ~host.lasts /\ Running("descendant") /\ Dies({"descendant"})
     \/ ~host.runs /\ Running("leader") /\ Dies({"leader"})
     \/ /\ recorded /\ proc["descendant"] = "gone"
        /\ Running("leader") /\ Dies({"leader"})
  /\ UNCHANGED <<fixed, pc, seen, pids, waited, faults, verdict>>

\* A dead descendant is waited for by the leader, or else by pid 1.
Reap ==
  /\ proc["descendant"] = "zombie"
  /\ Running("leader") \/ host.reaps
  /\ proc' = [proc EXCEPT !["descendant"] = "gone"]
  /\ UNCHANGED <<fixed, pc, seen, pids, waited, faults, verdict>>

\* As EventLoop, had the probe not been synchronous.
WaitForLeader ==
  /\ proc["leader"] = "zombie"
  /\ proc' = [proc EXCEPT !["leader"] = "gone"]
  /\ UNCHANGED <<fixed, pc, seen, pids, waited, faults, verdict>>

\* Node waits for its child when it is back in the event loop.
EventLoop == pc = "done" /\ WaitForLeader

PidIsReused ==
  /\ proc["leader"] = "gone" /\ proc["descendant"] \in {"none", "gone"} /\ ~stranger
  /\ stranger' = TRUE
  /\ UNCHANGED <<fixed, pc, proc, seen, signalled, waited, faults, hit, verdict>>

\* Something else ends a process of the probe.
Struck ==
  /\ pc # "done" /\ Fault
  /\ \E p \in Group : Running(p) /\ Dies({p})
  /\ UNCHANGED <<fixed, pc, seen, pids, waited, verdict>>

\* An orphan that pid 1 waits for does not outlast the poll.
Tick ==
  /\ pc \in {"record", "breach", "reap"} /\ waited < Window
  /\ ~(pc = "reap" /\ host.reaps /\ proc["descendant"] = "zombie")
  /\ waited' = waited + 1
  /\ UNCHANGED <<fixed, pc, proc, seen, pids, faults, verdict>>

Probe ==
  \/ SpawnGroup \/ RecordSeen \/ LookAlive \/ BreachSeen \/ Kill \/ Gone
  \/ PollTimesOut \/ CleanUp \/ TightLeg \/ LooseLeg
Next ==
  \/ Probe \/ Sample \/ LeaderActs \/ Exits \/ Reap \/ EventLoop \/ PidIsReused
  \/ Struck \/ Tick

Spec == Init /\ [][Next]_vars

\* The probing thread runs on, time passes, and a process that waits for the
\* dead goes on doing so; nobody else need do anything.
Fairness == WF_vars(Probe) /\ WF_vars(Tick) /\ WF_vars(Reap)
FairSpec == Spec /\ Fairness

-----------------------------------------------------------------------------
(* Properties. *)

\* A control reported as proved acts: the verdict is no on a host that cannot
\* measure, cannot kill or does not cap, unless something else ended the
\* subject while the probe looked or a large allocation fails there anyway
\* (probes.ts:105 and 186, rss-watchdog.ts:170, disk-watchdog.ts:183).
ProvedControlsAct ==
  verdict = "yes" /\ faults = 0 /\ host.lasts /\ host.memory = "large" =>
    host.acts /\ host.measures

\* Where everything works and nothing disturbs it, a probe that came to its
\* kill says yes: it does not take a zombie for a survivor, on a host whose
\* pid 1 waits for orphans (rss-watchdog.ts:131).
WorkingControlsAreProved ==
  /\ pc = "clean" /\ faults = 0 /\ host.memory = "large"
  /\ host.runs /\ host.lasts /\ host.measures /\ host.acts /\ host.reaps
  /\ signalled \/ verdict # "late"
  => verdict = "yes"

\* However the probe ended, and whoever of the group was left, nobody of it
\* runs after the finally block where a kill acts.
NothingRunsAfterProbe ==
  pc = "done" /\ host.acts => \A p \in Group : ~Running(p)

\* The group is signalled twice by a number that is only its own while the
\* leader has not been waited for; no other process is ever hit.
KillsOnlyItsOwn == ~hit

\* Every probe comes to a verdict, whatever the group does.
ProbeEnds == <>(pc = "done")

=============================================================================
