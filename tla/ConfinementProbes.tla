-------------------------- MODULE ConfinementProbes --------------------------
(***************************************************************************)
(* The three boot probes of win-appcontainer.ts.                           *)
(*                                                                         *)
(*   fs     a plain child reads a file that is granted to nobody; then the *)
(*          same child in an AppContainer must be denied it.               *)
(*   net    a plain child reaches a listener on the loopback; then the     *)
(*          same child in an AppContainer must not.                        *)
(*   caging the launcher reports that its child is in its job before the   *)
(*          child runs; then killing the launcher must end the child and   *)
(*          the child's child.                                             *)
(*                                                                         *)
(* The probing process, the launcher, the listener and the children run at *)
(* their own pace.  The host is unknown and fixed, and on top of it at     *)
(* most MaxFaults passing faults strike.                                   *)
(***************************************************************************)
EXTENDS Naturals

CONSTANTS Window,    \* ticks a poll waits for its outcome
          MaxFaults  \* bounds how many passing faults strike one probe

ASSUME BoundsAssumption == Window \in Nat \ {0} /\ MaxFaults \in Nat

VARIABLES kind,     \* the probe that runs
          host,     \* what is true of this host
          pc,       \* where the probing process is
          lpc,      \* where the launcher is
          proc,     \* the processes of the probe
          members,  \* the processes in the launcher's job
          target,   \* the file outside the grants, or the listening socket
          pending,  \* a client waits to be accepted
          report,   \* the probe report says the child is caged
          result,   \* what the verb in the AppContainer published
          waited,   \* ticks of the current poll
          struck,   \* the leg each passing fault struck in
          verdict   \* the cached answer

vars == <<kind, host, pc, lpc, proc, members, target, pending, report, result,
          waited, struck, verdict>>
fixed == <<kind, host>>
tree == <<lpc, proc, members>>
files == <<report, result>>
socket == <<target, pending>>

Procs == {"listener", "launcher", "child", "grandchild"}

\* runs: the payload runs.  plain: an unconfined child can reach the target.
\* denies: a confined one is kept from it.  grants: a confined one can write
\* where it was granted to.  kills: closing a job ends its members.
Hosts == [{"runs", "plain", "denies", "grants", "kills"} -> BOOLEAN]

TypeOK ==
  /\ kind \in {"fs", "net", "caging"} /\ host \in Hosts
  /\ pc \in {"handshake", "place", "port", "control", "launch", "report",
             "result", "look", "kill", "reap", "clean", "done"}
  /\ lpc \in {"none", "start", "created", "jobbed", "reported", "resumed"}
  /\ proc \in [Procs -> {"none", "suspended", "running", "dead"}]
  /\ members \subseteq {"child", "grandchild"}
  /\ target \in {"absent", "up", "gone"} /\ pending \in BOOLEAN
  /\ report \in BOOLEAN
  /\ result \in {"none", "read", "denied", "connected", "timeout", "pid"}
  /\ waited \in 0 .. Window
  /\ struck \in [1 .. MaxFaults -> {"no", "control", "claim"}]
  /\ verdict \in {"none", "yes", "no", "late"}

Init ==
  /\ kind \in {"fs", "net", "caging"} /\ host \in Hosts
  /\ pc = "handshake" /\ lpc = "none"
  /\ proc = [p \in Procs |-> "none"] /\ members = {}
  /\ target = "absent" /\ pending = FALSE
  /\ report = FALSE /\ result = "none" /\ waited = 0
  /\ struck = [i \in 1 .. MaxFaults |-> "no"]
  /\ verdict = "none"

Running(p) == proc[p] = "running"
Alive(p) == proc[p] \in {"suspended", "running"}
Dies(P) == proc' = [p \in Procs |-> IF p \in P /\ Alive(p) THEN "dead" ELSE proc[p]]

\* Who dies with the launcher: its job is kill-on-close.
Held == {"launcher"} \cup (IF host.kills /\ Alive("launcher") THEN members ELSE {})

Leg == IF pc \in {"handshake", "place", "port", "control"} THEN "control" ELSE "claim"
Strike ==
  \E i \in 1 .. MaxFaults : struck[i] = "no" /\ struck' = [struck EXCEPT ![i] = Leg]

Ends(answer) == verdict' = answer /\ pc' = "clean"
Goes(to) == pc' = to /\ waited' = 0 /\ UNCHANGED verdict

-----------------------------------------------------------------------------
(* The probing process. *)

Handshake ==
  /\ pc = "handshake"
  /\ IF host.runs THEN Goes(IF kind = "caging" THEN "launch" ELSE "place")
                  ELSE Ends("no") /\ UNCHANGED waited
  /\ UNCHANGED <<fixed, tree, socket, files, struck>>

\* The file is written, or the listener started.
Place ==
  /\ pc = "place"
  /\ \/ /\ kind = "fs" /\ target' = "up" /\ Goes("control")
        /\ UNCHANGED proc
     \/ /\ kind = "net" /\ proc' = [proc EXCEPT !["listener"] = "running"]
        /\ Goes("port") /\ UNCHANGED target
  /\ UNCHANGED <<fixed, lpc, members, pending, files, struck>>

PortSeen ==
  /\ pc = "port" /\ target # "absent"
  /\ Goes("control")
  /\ UNCHANGED <<fixed, tree, socket, files, struck>>

Reaches == host.plain /\ target = "up"

\* As ControlLeg, had the probe only looked at how the child ended.
ControlLegByExitStatus ==
  /\ pc = "control"
  /\ Goes("launch")
  /\ pending' = (kind = "net" /\ Reaches)
  /\ UNCHANGED <<fixed, tree, target, files, struck>>

\* The plain child, run to its end, must have reached the target.
ControlLeg ==
  /\ pc = "control"
  /\ \/ Reaches /\ Goes("launch") /\ UNCHANGED struck
     \/ ~Reaches /\ Ends("no") /\ UNCHANGED <<waited, struck>>
     \/ Strike /\ Ends("no") /\ UNCHANGED waited
  /\ pending' = (kind = "net" /\ Reaches)
  /\ UNCHANGED <<fixed, tree, target, files>>

\* spawnViaLauncher: the launcher starts, or cannot.
Launch ==
  /\ pc = "launch"
  /\ \/ /\ proc' = [proc EXCEPT !["launcher"] = "running"] /\ lpc' = "start"
        /\ Goes(IF kind = "caging" THEN "report" ELSE "result")
        /\ UNCHANGED struck
     \/ Strike /\ Ends("no") /\ UNCHANGED <<proc, lpc, waited>>
  /\ UNCHANGED <<fixed, members, socket, files>>

ReportSeen ==
  /\ pc = "report" /\ report
  /\ Goes("result")
  /\ UNCHANGED <<fixed, tree, socket, files, struck>>

\* As Proves, had a silently dropped connection not counted.
ProvesExact == (kind = "fs" \/ kind = "net") /\ result = "denied"
\* The readings of the result file that prove the control.
Proves ==
  \/ kind = "fs" /\ result = "denied"
  \/ kind = "net" /\ result \in {"denied", "timeout"}

ResultSeen ==
  /\ pc = "result" /\ result # "none"
  /\ IF kind = "caging" THEN Goes("look")
     ELSE Ends(IF Proves THEN "yes" ELSE "no") /\ UNCHANGED waited
  /\ UNCHANGED <<fixed, tree, socket, files, struck>>

LookAlive ==
  /\ pc = "look"
  /\ IF Alive("child") /\ Alive("grandchild")
       THEN Goes("kill") ELSE Ends("no") /\ UNCHANGED waited
  /\ UNCHANGED <<fixed, tree, socket, files, struck>>

KillLauncher ==
  /\ pc = "kill"
  /\ Dies(Held) /\ Goes("reap")
  /\ UNCHANGED <<fixed, lpc, members, socket, files, struck>>

Reaped ==
  /\ pc = "reap" /\ ~Alive("child") /\ ~Alive("grandchild")
  /\ Ends("yes")
  /\ UNCHANGED <<fixed, tree, socket, files, waited, struck>>

\* As PollTimesOut, had the last poll been without a deadline.
PollTimesOutButForReaping ==
  /\ waited = Window
  /\ \/ pc = "port" /\ target = "absent"
     \/ pc = "report" /\ ~report
     \/ pc = "result" /\ result = "none"
  /\ Ends("late")
  /\ UNCHANGED <<fixed, tree, socket, files, waited, struck>>

PollTimesOut ==
  /\ waited = Window
  /\ \/ pc = "port" /\ target = "absent"
     \/ pc = "report" /\ ~report
     \/ pc = "result" /\ result = "none"
     \/ pc = "reap" /\ (Alive("child") \/ Alive("grandchild"))
  /\ Ends("late")
  /\ UNCHANGED <<fixed, tree, socket, files, waited, struck>>

\* As Known, had the listener been forgotten.
KnownButTheListener ==
  {"launcher"} \cup (IF report THEN {"child"} ELSE {})
               \cup (IF result = "pid" THEN {"grandchild"} ELSE {})

\* The processes the finally blocks know by pid.
Known ==
  {"launcher", "listener"} \cup (IF report THEN {"child"} ELSE {})
                           \cup (IF result = "pid" THEN {"grandchild"} ELSE {})

CleanUp ==
  /\ pc = "clean"
  /\ Dies(Known \cup Held)
  /\ pc' = "done"
  /\ target' = (IF target = "up" THEN "gone" ELSE target)
  /\ UNCHANGED <<fixed, lpc, members, pending, files, waited, struck, verdict>>

-----------------------------------------------------------------------------
(* The launcher: the child is created suspended, put into the job,         *)
(* reported and resumed; the launcher ends after it.                       *)

LauncherAt(from, to) ==
  /\ Running("launcher") /\ lpc = from /\ lpc' = to
  /\ UNCHANGED <<fixed, pc, socket, result, waited, verdict>>

CreateChild ==
  /\ LauncherAt("start", "created")
  /\ proc' = [proc EXCEPT !["child"] = "suspended"]
  /\ UNCHANGED <<members, report, struck>>

AssignChild ==
  /\ LauncherAt("created", "jobbed")
  /\ Alive("child")
  /\ members' = {"child"}
  /\ UNCHANGED <<proc, report, struck>>

WriteProbeReport ==
  /\ kind = "caging"
  /\ LauncherAt("jobbed", "reported")
  /\ report' = TRUE
  /\ UNCHANGED <<proc, members, struck>>

ResumeChild ==
  /\ LauncherAt(IF kind = "caging" THEN "reported" ELSE "jobbed", "resumed")
  /\ proc' = [proc EXCEPT !["child"] = IF @ = "suspended" THEN "running" ELSE @]
  /\ UNCHANGED <<members, report, struck>>

\* The wait is over, or a step failed: the child is terminated, the job closed.
LauncherEnds ==
  /\ \/ \E at \in {"created", "resumed"} :
          LauncherAt(at, at) /\ ~Alive("child") /\ UNCHANGED struck
     \/ \E at \in {"start", "created", "jobbed", "reported"} : LauncherAt(at, at) /\ Strike
  /\ Dies(Held \cup {"child"})
  /\ UNCHANGED <<members, report>>

-----------------------------------------------------------------------------
(* The verbs. *)

\* The listener takes one client and closes its listening socket.
Listen ==
  /\ Running("listener")
  /\ \/ target = "absent" /\ target' = "up" /\ UNCHANGED pending
     \/ target = "up" /\ pending /\ target' = "gone" /\ pending' = FALSE
  /\ UNCHANGED <<fixed, pc, tree, files, waited, struck, verdict>>

\* The result goes into the granted directory; without the grant it is lost.
\* A one-shot verb ends after it.
Publish(answer) ==
  /\ result' = (IF host.grants THEN answer ELSE result)
  /\ Dies({"child"})
  /\ UNCHANGED <<fixed, pc, lpc, members, target, report, waited, struck, verdict>>

Confined == Running("child") /\ result = "none"

FsCheck ==
  /\ kind = "fs" /\ Confined
  /\ Publish(IF Reaches /\ ~host.denies THEN "read" ELSE "denied")
  /\ UNCHANGED pending

Connect ==
  /\ kind = "net" /\ Confined
  /\ IF Reaches /\ ~host.denies
       THEN Publish("connected") /\ pending' = TRUE
       ELSE (\E answer \in {"denied", "timeout"} : Publish(answer)) /\ UNCHANGED pending

SpawnChild ==
  /\ kind = "caging" /\ Confined
  /\ \/ /\ proc["grandchild"] = "none"
        /\ proc' = [proc EXCEPT !["grandchild"] = "running"]
        /\ members' = members \cup {"grandchild"}
        /\ UNCHANGED result
     \/ /\ proc["grandchild"] # "none"
        /\ IF host.grants THEN result' = "pid" /\ UNCHANGED proc
                          ELSE Dies({"child"}) /\ UNCHANGED result
        /\ UNCHANGED members
  /\ UNCHANGED <<fixed, pc, lpc, socket, report, waited, struck, verdict>>

-----------------------------------------------------------------------------
(* Passing faults, and time. *)

\* Something ends a process, or gets in the way of the target.
Struck ==
  /\ pc \notin {"handshake", "clean", "done"} /\ Strike
  /\ \/ \E p \in {"child", "grandchild"} : Alive(p) /\ Dies({p}) /\ UNCHANGED target
     \/ /\ Running("launcher") /\ Dies(Held) /\ UNCHANGED target
     \/ /\ Running("listener") /\ Dies({"listener"}) /\ target' = "gone"
     \/ target = "up" /\ target' = "gone" /\ UNCHANGED proc
  /\ UNCHANGED <<fixed, pc, lpc, members, pending, files, waited, verdict>>

Tick ==
  /\ pc \in {"port", "report", "result", "reap"} /\ waited < Window
  /\ waited' = waited + 1
  /\ UNCHANGED <<fixed, pc, tree, socket, files, struck, verdict>>

Probe ==
  \/ Handshake \/ Place \/ PortSeen \/ ControlLeg \/ Launch \/ ReportSeen \/ ResultSeen
  \/ LookAlive \/ KillLauncher \/ Reaped \/ PollTimesOut \/ CleanUp
Launcher == CreateChild \/ AssignChild \/ WriteProbeReport \/ ResumeChild \/ LauncherEnds
Verbs == Listen \/ FsCheck \/ Connect \/ SpawnChild
Next == Probe \/ Launcher \/ Verbs \/ Struck \/ Tick

Spec == Init /\ [][Next]_vars

\* The probing thread runs on and time passes; nobody else need do anything.
Fairness == WF_vars(Probe) /\ WF_vars(Tick)
FairSpec == Spec /\ Fairness

-----------------------------------------------------------------------------
(* Properties. *)

StrikesIn(l) == {i \in 1 .. MaxFaults : struck[i] = l}

\* Nothing passing touched the leg the claim rests on; the caging probe looks
\* at two processes and bears one.
Untouched ==
  IF kind = "caging" THEN \A i, j \in StrikesIn("claim") : i = j
                     ELSE StrikesIn("claim") = {}

\* A proved filesystem or caging control acts on this host: a child that never
\* ran, a target nobody can reach, a listener or launcher that dies early and
\* a control leg gone wrong all give no (win-appcontainer.ts:604, 622, 806,
\* 822 and 828).
ProvedControlsAct ==
  verdict = "yes" /\ Untouched =>
    /\ kind = "fs" => host.denies
    /\ kind = "caging" => host.kills

\* On a host where everything works, an undisturbed probe that saw its child's
\* answer in time proves the control: the legs do not get in each other's way
\* (win-appcontainer.ts:622, 727 and 828).
WorkingControlsAreProved ==
  /\ pc = "done" /\ verdict # "late"
  /\ \A f \in DOMAIN host : host[f]
  /\ StrikesIn("control") \cup StrikesIn("claim") = {}
  => verdict = "yes"

\* A finished probe leaves nothing running where kill-on-close acts, at
\* whatever moment it gave up: all that can stay is a child the launcher had
\* created and not yet put into its job, and that has never run (the finally
\* blocks of win-appcontainer.ts:625, 730 and 831).
NothingRunsAfterProbe ==
  pc = "done" =>
    /\ ~Alive("launcher") /\ ~Alive("listener")
    /\ host.kills => ~Running("child") /\ ~Running("grandchild")
    /\ host.kills /\ Alive("child") => lpc = "created"

\* Every probe comes to a verdict, whatever the other processes do: all its
\* waits are bounded (win-appcontainer.ts:456, pollUntil).
ProbeEnds == <>(pc = "done")

\* "so the AC leg's denial cannot be blamed on a listener that was never up"
\* (win-appcontainer.ts:706): a denial is the AppContainer's.
DenialIsConfinement == kind = "net" /\ verdict = "yes" => host.denies

=============================================================================
