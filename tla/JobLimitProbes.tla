--------------------------- MODULE JobLimitProbes ---------------------------
(* The destructive probes of win-job-object.ts: does TerminateJobObject    *)
(* reap a tree (killTree), and do the memory, process-count and CPU-time   *)
(* limits of a job really act.  A probe spawns a child that runs one verb  *)
(* of the launcher's selftest table, assigns it to a job just after it     *)
(* started, and polls for what becomes of it.  Three of the probes run the *)
(* verb in a control leg first, with a limit too loose to matter.          *)
(*                                                                         *)
(* The host is unknown and fixed: whether the limit under test acts, what  *)
(* the selftest binary does there, and what fails on it for reasons of its *)
(* own.  On top of that at most MaxFaults passing faults strike.           *)
EXTENDS Naturals

CONSTANTS Dwell,      \* ticks the control leg of the cpu probe watches the spinner
          Window,     \* ticks a claim waits for its outcome
          MaxFaults   \* bounds how many passing faults strike one probe

ASSUME WindowsAssumption ==
  /\ Dwell \in Nat \ {0} /\ Window \in Nat /\ Dwell < Window
  /\ MaxFaults \in Nat

VARIABLES kind,      \* the probe that runs
          host,      \* what is true of this host
          leg, pc,   \* where the probe is
          proc,      \* the probe's child and the child's child
          members,   \* which of the two are in the job
          result,    \* what the file the child publishes holds
          gate,      \* the file that tells the child it has been assigned
          waited,    \* ticks of the current poll
          age,       \* ticks the spinner has been spinning
          struck,    \* the leg each passing fault struck in
          said,      \* what the leg that just ended reported
          verdict    \* the cached answer

vars == <<kind, host, leg, pc, proc, members, result, gate, waited, age,
          struck, said, verdict>>
prober == <<kind, host, leg, verdict>>
tree == <<proc, members, result, gate>>
clock == <<waited, age>>

Kinds == {"killTree", "memory", "pids", "cpu"}
Procs == {"child", "grandchild"}

Hosts == [enforced : BOOLEAN,
          runs : BOOLEAN,
          spawns : BOOLEAN,
          memory : {"large", "small", "none"},
          lifetime : Dwell .. Window + 1]

\* What is true of the host for every probe but the one it matters to is fixed.
Fits(k, h) ==
  /\ k = "memory" \/ h.memory = "large"
  /\ k \in {"pids", "killTree"} \/ h.spawns
  /\ k = "cpu" \/ h.lifetime = Window + 1

TypeOK ==
  /\ kind \in Kinds /\ host \in Hosts
  /\ leg \in {"control", "claim"}
  /\ pc \in {"handshake", "spawn", "assign", "open", "poll", "reread",
             "dwell", "look", "terminate", "reap", "clean", "done"}
  /\ proc \in [Procs -> {"none", "running", "dead"}]
  /\ members \subseteq Procs
  /\ result \in {"none", "ok", "failed", "spawned", "denied", "spinning", "pid"}
  /\ gate \in BOOLEAN
  /\ waited \in 0 .. Window /\ age \in 0 .. Window
  /\ struck \in [1 .. MaxFaults -> {"no", "control", "claim"}]
  /\ said \in {"nothing", "ok", "failed", "spawned", "denied", "started",
               "diedFast", "reaped", "diedEarly", "survived", "timeout", "error"}
  /\ verdict \in {"none", "yes", "no"}

Init ==
  /\ kind \in Kinds
  /\ host \in {h \in Hosts : Fits(kind, h)}
  /\ leg = (IF kind = "killTree" THEN "claim" ELSE "control")
  /\ pc = "handshake"
  /\ proc = [p \in Procs |-> "none"] /\ members = {}
  /\ result = "none" /\ gate = FALSE /\ waited = 0 /\ age = 0
  /\ struck = [i \in 1 .. MaxFaults |-> "no"]
  /\ said = "nothing" /\ verdict = "none"

Running(p) == proc[p] = "running"
Dies(P) == proc' = [p \in Procs |-> IF p \in P /\ Running(p) THEN "dead" ELSE proc[p]]

\* The limit under test acts on the child: the leg sets it, the host honours
\* it, and the child is in the job.
Acts == leg = "claim" /\ host.enforced /\ "child" \in members

Strike ==
  \E i \in 1 .. MaxFaults :
    struck[i] = "no" /\ struck' = [struck EXCEPT ![i] = leg]

Ends(outcome) == said' = outcome /\ pc' = "clean"

-----------------------------------------------------------------------------
(* The probing process. *)

\* The nonce comes back only from a binary that ran the verb table.
Handshake ==
  /\ pc = "handshake"
  /\ IF host.runs
       THEN pc' = "spawn" /\ UNCHANGED verdict
       ELSE pc' = "done" /\ verdict' = "no"
  /\ UNCHANGED <<kind, host, leg, tree, clock, struck, said>>

\* The job is created and the child started; either may fail.
SpawnIntoJob ==
  /\ pc = "spawn"
  /\ \/ /\ proc' = [proc EXCEPT !["child"] = "running"] /\ pc' = "assign"
        /\ UNCHANGED <<struck, said>>
     \/ Strike /\ Ends("error") /\ UNCHANGED proc
  /\ UNCHANGED <<prober, members, result, gate, clock>>

\* The child may have acted, or be gone, before it is assigned; a process
\* that is gone cannot be assigned.
AssignProcess ==
  /\ pc = "assign" /\ Running("child")
  /\ members' = {"child"}
  /\ pc' = (IF kind = "killTree" THEN "open" ELSE "poll")
  /\ waited' = 0
  /\ UNCHANGED <<prober, proc, result, gate, age, struck, said>>

AssignFails ==
  /\ pc = "assign"
  /\ \/ ~Running("child") /\ UNCHANGED struck
     \/ Strike
  /\ Ends("error")
  /\ UNCHANGED <<prober, tree, clock>>

\* The gate is written only once the assignment has returned.
OpenGate ==
  /\ pc = "open"
  /\ gate' = TRUE /\ pc' = "poll"
  /\ UNCHANGED <<prober, proc, members, result, clock, struck, said>>

\* What ends each probe's first poll.
Settled ==
  CASE kind = "memory" -> result # "none" \/ ~Running("child")
    [] kind \in {"pids", "killTree"} -> result # "none"
    [] kind = "cpu" -> IF leg = "control" THEN result = "spinning"
                                          ELSE ~Running("child")

PollEnds ==
  /\ pc = "poll" /\ Settled
  /\ \/ kind = "memory" /\ pc' = "reread" /\ UNCHANGED said
     \/ kind = "pids" /\ Ends(result)
     \/ kind = "killTree" /\ pc' = "look" /\ UNCHANGED said
     \/ kind = "cpu" /\ leg = "control" /\ pc' = "dwell" /\ UNCHANGED said
     \/ kind = "cpu" /\ leg = "claim" /\ Ends("diedFast")
  /\ waited' = 0
  /\ UNCHANGED <<prober, tree, age, struck>>

\* A child that died just after it published is believed.
Reread ==
  /\ pc = "reread"
  /\ Ends(IF result = "ok" THEN "ok" ELSE "failed")
  /\ UNCHANGED <<prober, tree, clock, struck>>

\* The control leg's spinner must outlive the dwell.
DwellEnds ==
  /\ pc = "dwell"
  /\ \/ ~Running("child") /\ Ends("diedFast")
     \/ Running("child") /\ waited = Dwell /\ Ends("started")
  /\ UNCHANGED <<prober, tree, clock, struck>>

LookAlive ==
  /\ pc = "look"
  /\ IF \A p \in Procs : Running(p)
       THEN pc' = "terminate" /\ UNCHANGED said
       ELSE Ends("diedEarly")
  /\ UNCHANGED <<prober, tree, clock, struck>>

\* A host whose termination does not act leaves the tree where it was.
Terminate ==
  /\ pc = "terminate"
  /\ Dies(IF host.enforced THEN members ELSE {})
  /\ pc' = "reap" /\ waited' = 0
  /\ UNCHANGED <<prober, members, result, gate, age, struck, said>>

Reaped ==
  /\ pc = "reap" /\ \A p \in Procs : ~Running(p)
  /\ Ends("reaped")
  /\ UNCHANGED <<prober, tree, clock, struck>>

PollTimesOutBeforeReaping ==
  /\ waited = Window /\ pc = "poll" /\ ~Settled /\ Ends("timeout")
  /\ UNCHANGED <<prober, tree, clock, struck>>
PollTimesOut ==
  /\ waited = Window
  /\ \/ pc = "poll" /\ ~Settled /\ Ends("timeout")
     \/ pc = "reap" /\ (\E p \in Procs : Running(p)) /\ Ends("survived")
  /\ UNCHANGED <<prober, tree, clock, struck>>

\* What a leg has to say for the probe to go on, and for its claim to hold.
Wanted ==
  CASE kind = "memory" -> IF leg = "control" THEN "ok" ELSE "failed"
    [] kind = "pids" -> IF leg = "control" THEN "spawned" ELSE "denied"
    [] kind = "cpu" -> IF leg = "control" THEN "started" ELSE "diedFast"
    [] kind = "killTree" -> "reaped"

\* The grandchild's pid is known once the poll of the kill-tree probe saw it.
Known == IF said \in {"reaped", "diedEarly", "survived"} THEN Procs ELSE {"child"}

\* The finally block: the job is closed, which kills its members, and the
\* processes the probe knows are killed.
FinallyKillsChild == {"child"}
FinallyKills == members \cup Known

GoesOnAnyway == leg = "control"
GoesOn == leg = "control" /\ said = Wanted

\* Then the next leg, or the verdict.
CleanUp ==
  /\ pc = "clean"
  /\ IF GoesOn
       THEN /\ leg' = "claim" /\ pc' = "spawn"
            /\ proc' = [p \in Procs |-> "none"] /\ members' = {}
            /\ result' = "none" /\ gate' = FALSE /\ said' = "nothing"
            /\ waited' = 0 /\ age' = 0
            /\ UNCHANGED verdict
       ELSE /\ pc' = "done"
            /\ Dies(FinallyKills)
            /\ verdict' = (IF said = Wanted THEN "yes" ELSE "no")
            /\ UNCHANGED <<leg, members, result, gate, said, clock>>
  /\ UNCHANGED <<kind, host, struck>>

-----------------------------------------------------------------------------
(* The child: one verb of the selftest table. *)

Acting == Running("child") /\ result = "none"

Fitting == host.memory = "large" \/ (leg = "control" /\ host.memory = "small")

\* The control leg asks for 64 MiB, the claim for 256.
Alloc ==
  /\ kind = "memory" /\ Acting
  /\ IF Fitting /\ ~Acts
       THEN result' = "ok" /\ UNCHANGED proc
       ELSE \/ result' = "failed" /\ UNCHANGED proc
            \/ UNCHANGED result /\ Dies({"child"})
  /\ UNCHANGED <<prober, pc, members, gate, clock, struck, said>>

SpawnsChild ==
  /\ host.spawns /\ proc["grandchild"] = "none"
  /\ proc' = [proc EXCEPT !["grandchild"] = "running"]
  /\ members' = members \cup (IF "child" \in members THEN {"grandchild"} ELSE {})

TrySpawn ==
  /\ kind = "pids" /\ Acting
  /\ \/ SpawnsChild /\ ~Acts /\ UNCHANGED result
     \/ /\ ~host.spawns \/ Acts
        /\ proc["grandchild"] = "none"
        /\ result' = "denied" /\ UNCHANGED <<proc, members>>
     \/ /\ proc["grandchild"] # "none"
        /\ Dies({"grandchild"}) /\ result' = "spawned" /\ UNCHANGED members
  /\ UNCHANGED <<prober, pc, gate, clock, struck, said>>

SpawnChildUngated ==
  /\ kind = "killTree" /\ Acting
  /\ \/ SpawnsChild /\ UNCHANGED result
     \/ /\ proc["grandchild"] # "none"
        /\ result' = "pid" /\ UNCHANGED <<proc, members>>
  /\ UNCHANGED <<prober, pc, gate, clock, struck, said>>

\* The child waits for the gate, and goes on without it when its own wait ends.
SpawnChild ==
  /\ kind = "killTree" /\ Acting
  /\ \/ /\ SpawnsChild /\ UNCHANGED result
        /\ \/ gate /\ UNCHANGED struck
           \/ ~gate /\ Strike
     \/ /\ proc["grandchild"] # "none"
        /\ result' = "pid" /\ UNCHANGED <<proc, members, struck>>
     \/ /\ ~host.spawns /\ gate
        /\ Dies({"child"}) /\ UNCHANGED <<members, result, struck>>
  /\ UNCHANGED <<prober, pc, gate, clock, said>>

BurnCpu ==
  /\ kind = "cpu" /\ Acting
  /\ result' = "spinning"
  /\ UNCHANGED <<prober, pc, proc, members, gate, clock, struck, said>>

\* The job's time limit, or the host's own habit of ending a busy process.
SpinnerDies ==
  /\ kind = "cpu" /\ Running("child")
  /\ Acts \/ age >= host.lifetime
  /\ Dies({"child"})
  /\ UNCHANGED <<prober, pc, members, result, gate, clock, struck, said>>

-----------------------------------------------------------------------------
(* Passing faults: something ends a process of the probe, or refuses its   *)
(* spawn once.                                                             *)

Struck ==
  /\ pc \notin {"handshake", "done"} /\ Strike
  /\ \/ \E p \in Procs : Running(p) /\ Dies({p}) /\ UNCHANGED result
     \/ kind = "pids" /\ Acting /\ proc["grandchild"] = "none"
          /\ result' = "denied" /\ UNCHANGED proc
     \/ kind = "memory" /\ Acting /\ result' = "failed" /\ UNCHANGED proc
  /\ UNCHANGED <<prober, pc, members, gate, clock, said>>

Tick ==
  /\ \/ pc \in {"poll", "reap"} /\ waited < Window
     \/ pc = "dwell" /\ waited < Dwell
  /\ ~(Running("child") /\ age >= host.lifetime)
  /\ waited' = waited + 1
  /\ age' = (IF result = "spinning" /\ age < Window THEN age + 1 ELSE age)
  /\ UNCHANGED <<prober, pc, tree, struck, said>>

-----------------------------------------------------------------------------

Probe ==
  \/ Handshake \/ SpawnIntoJob \/ AssignProcess \/ AssignFails
  \/ OpenGate \/ PollEnds \/ Reread \/ DwellEnds \/ LookAlive \/ Terminate
  \/ Reaped \/ PollTimesOut \/ CleanUp
Payload == Alloc \/ TrySpawn \/ SpawnChild \/ BurnCpu \/ SpinnerDies
Next == Probe \/ Payload \/ Struck \/ Tick

Spec == Init /\ [][Next]_vars

\* The probing thread runs on and time passes; the child need do nothing, but
\* a spinner does not outlive its lifetime.
Fairness == WF_vars(Probe) /\ WF_vars(Tick) /\ WF_vars(SpinnerDies)
FairSpec == Spec /\ Fairness

-----------------------------------------------------------------------------
(* Properties. *)

StrikesIn(l) == {i \in 1 .. MaxFaults : struck[i] = l}

\* Nothing passing touched the leg the claim rests on; the kill-tree probe
\* looks at two processes and bears one.
Untouched ==
  IF kind = "killTree" THEN \A i, j \in StrikesIn("claim") : i = j
                       ELSE StrikesIn("claim") = {}

\* A host on which the control leg passes and the claim fails by itself: it
\* cannot give 256 MiB though it can give 64, or it ends a busy process
\* between the end of the dwell and the end of the claim's window.
Deceptive == host.memory = "small" \/ host.lifetime \in Dwell .. Window

\* A limit reported as proved is one the host enforces: whatever a host
\* refuses in both legs, whatever faults strike the control leg, and however
\* the child races its own assignment, the verdict is no unless the limit
\* acted (the two-leg verdicts of win-job-object.ts:464, 545 and 641, and
\* the reap poll of 350).
ProvedLimitsAct ==
  verdict = "yes" /\ Untouched /\ ~Deceptive => host.enforced

\* The gate keeps the kill-tree probe from reporting a working control as
\* broken: where termination works and no fault strikes, the only other
\* verdict is that the child never reported in time (win-job-object.ts:303).
WorkingKillTreeIsProved ==
  /\ kind = "killTree" /\ pc = "done" /\ host.enforced /\ host.runs /\ host.spawns
  /\ StrikesIn("claim") = {} /\ said # "timeout"
  => verdict = "yes"

\* A finished probe leaves no child, and no grandchild that was in the job:
\* only a grandchild forked before a failed assignment outlives it
\* (the finally blocks of win-job-object.ts:356, 429, 512 and 605).
NoMemberOutlivesProbe ==
  pc = "done" => /\ ~Running("child")
                 /\ Running("grandchild") => "grandchild" \notin members

\* Every probe comes to a verdict, though its child may do nothing at all: all
\* waits are bounded (win-job-object.ts:173, pollUntil).
ProbeEnds == <>(pc = "done")

=============================================================================
