----------------------------- MODULE JobRegistry -----------------------------
(***************************************************************************)
(* The two registries a Windows host keeps of its Job Objects: jobId to    *)
(* HANDLE in the addon (RegisterJob, PeekJob, TakeJob) and pid to jobId in *)
(* win-job-object.ts (attachPidToJob, terminateWinJob, releaseWinJob).     *)
(*                                                                         *)
(* The runner attaches a process it has spawned and later, by pid, has its *)
(* job terminated or released.  The processes run on their own: they start *)
(* children, which join the jobs of their parent at that moment, and they  *)
(* exit.  Once the host has seen an exit the system may give the pid to    *)
(* another process, also to a process the same runner spawns.              *)
(***************************************************************************)
EXTENDS Naturals, FiniteSets

CONSTANTS
  Roots,    \* the processes the runner spawns, by incarnation
  Children, \* the processes these start
  Pids,
  PidOf,    \* the pid of each root
  MaxJobs,  \* bounds the jobs ever created
  None

ASSUME ProcsAssumption == Roots \cap Children = {} /\ None \notin Roots \cup Children
ASSUME PidsAssumption == PidOf \in [Roots -> Pids]
ASSUME JobsAssumption == MaxJobs \in Nat

Procs == Roots \cup Children
Jobs == 1..MaxJobs

VARIABLES
  proc,     \* "new", "alive" or "dead"
  seen,     \* the roots whose exit the host has seen
  asked,    \* the roots the runner has attached, or been refused
  job,      \* the job a process is in: AssignProcessToJobObject, inheritance
  handles,  \* g_jobs: the ids with an open handle
  nextId,   \* g_next_job_id
  byPid,    \* _jobsByPid: the registered job of a pid
  owner,    \* history: the root a job was created for
  family,   \* history: the root a child descends from
  early     \* history: the children started before their root was assigned

osVars == <<proc, seen, job, family, early>>
hostVars == <<asked, handles, nextId, byPid, owner>>
vars == <<osVars, hostVars>>

TypeOK ==
  /\ proc \in [Procs -> {"new", "alive", "dead"}]
  /\ seen \subseteq Roots /\ asked \subseteq Roots
  /\ job \in [Procs -> Jobs \cup {0}]
  /\ handles \subseteq Jobs
  /\ nextId \in 1..(MaxJobs + 1)
  /\ byPid \in [Pids -> Jobs \cup {0}]
  /\ owner \in [Jobs -> Roots \cup {None}]
  /\ family \in [Procs -> Roots \cup {None}]
  /\ early \subseteq Children

Init ==
  /\ proc = [p \in Procs |-> "new"]
  /\ seen = {} /\ asked = {} /\ early = {}
  /\ job = [p \in Procs |-> 0]
  /\ handles = {} /\ nextId = 1
  /\ byPid = [i \in Pids |-> 0]
  /\ owner = [j \in Jobs |-> None]
  /\ family = [p \in Procs |-> IF p \in Roots THEN p ELSE None]

-----------------------------------------------------------------------------
(* The system.                                                             *)

\* The runner spawns; the pid is free once the exit of its last holder is seen.
SpawnRoot(r) ==
  /\ proc[r] = "new"
  /\ \A q \in Roots : PidOf[q] = PidOf[r] /\ proc[q] # "new" => q \in seen
  /\ proc' = [proc EXCEPT ![r] = "alive"]
  /\ UNCHANGED <<seen, job, family, early, hostVars>>

\* A process starts a child, which joins its job.
StartChild(p, c) ==
  /\ proc[p] = "alive" /\ proc[c] = "new"
  /\ proc' = [proc EXCEPT ![c] = "alive"]
  /\ job' = [job EXCEPT ![c] = job[p]]
  /\ family' = [family EXCEPT ![c] = family[p]]
  /\ early' = IF job[p] = 0 THEN early \cup {c} ELSE early
  /\ UNCHANGED <<seen, hostVars>>

Exits(p) ==
  /\ proc[p] = "alive"
  /\ proc' = [proc EXCEPT ![p] = "dead"]
  /\ UNCHANGED <<seen, job, family, early, hostVars>>

\* Node handles the exit of a root and closes its process handle.
SeeExit(r) ==
  /\ proc[r] = "dead" /\ r \notin seen
  /\ seen' = seen \cup {r}
  /\ UNCHANGED <<proc, job, family, early, hostVars>>

\* As KillMembers, had only the root of the job been terminated.
KillOwner(j) ==
  proc' = [p \in Procs |-> IF owner[j] = p /\ proc[p] = "alive" THEN "dead" ELSE proc[p]]

\* Terminating a job, or closing its last handle (kill-on-close), ends its
\* members.
KillMembers(j) ==
  proc' = [p \in Procs |-> IF job[p] = j /\ proc[p] = "alive" THEN "dead" ELSE proc[p]]

-----------------------------------------------------------------------------
(* The host, one synchronous call at a time.                               *)

\* As Attach, had it kept the entry an earlier holder of the pid left behind.
AttachKeepsEntry(r) ==
  /\ proc[r] = "alive" /\ r \notin asked /\ nextId <= MaxJobs
  /\ asked' = asked \cup {r}
  /\ handles' = handles \cup {nextId}
  /\ nextId' = nextId + 1
  /\ job' = [job EXCEPT ![r] = nextId]
  /\ byPid' = [byPid EXCEPT ![PidOf[r]] = IF @ = 0 THEN nextId ELSE @]
  /\ owner' = [owner EXCEPT ![nextId] = r]
  /\ UNCHANGED <<proc, seen, family, early>>

\* attachPidToJob succeeds: createJob registers a handle under a new id, the
\* process joins, the pid is registered, over whatever it was registered for.
Attach(r) ==
  /\ proc[r] = "alive" /\ r \notin asked /\ nextId <= MaxJobs
  /\ asked' = asked \cup {r}
  /\ handles' = handles \cup {nextId}
  /\ nextId' = nextId + 1
  /\ job' = [job EXCEPT ![r] = nextId]
  /\ byPid' = [byPid EXCEPT ![PidOf[r]] = nextId]
  /\ owner' = [owner EXCEPT ![nextId] = r]
  /\ UNCHANGED <<proc, seen, family, early>>

\* As AttachFails, had the job not been closed when the assignment failed.
AttachFailsOpen(r) ==
  /\ proc[r] # "new" /\ r \notin asked /\ nextId <= MaxJobs
  /\ asked' = asked \cup {r}
  /\ handles' = handles \cup {nextId}
  /\ nextId' = nextId + 1
  /\ proc' = [proc EXCEPT ![r] = "dead"]
  /\ UNCHANGED <<seen, job, family, early, byPid, owner>>

\* attachPidToJob throws: out of createJob, or out of assignProcess (the process
\* has exited, or the call fails), and then the job it created is closed again.
\* The caller must not run a process it cannot confine, and kills it.
AttachFails(r) ==
  /\ proc[r] # "new" /\ r \notin asked /\ nextId <= MaxJobs
  /\ asked' = asked \cup {r}
  /\ nextId' \in {nextId, nextId + 1}
  /\ proc' = [proc EXCEPT ![r] = "dead"]
  /\ UNCHANGED <<seen, job, family, early, handles, byPid, owner>>

\* The runner closes the jobs of the roots it attached, not of those refused.
MayClose(r) == r \in asked /\ job[r] # 0 /\ byPid[PidOf[r]] # 0

\* As CloseRegistered, had the entry of the pid stayed in the map.
CloseKeepsEntry(r) ==
  /\ MayClose(r)
  /\ handles' = handles \ {byPid[PidOf[r]]}
  /\ KillMembers(byPid[PidOf[r]])
  /\ UNCHANGED <<seen, job, family, early, asked, nextId, byPid, owner>>

\* terminateWinJob, whose finally closes the handle even when TerminateJobObject
\* fails, and releaseWinJob: either way the entry of the pid leaves the map, its
\* handle leaves g_jobs, and the members of the job end.  The runner calls them
\* when it kills a root or has seen its streams close, which may be long after
\* the exit.
CloseRegistered(r) ==
  /\ MayClose(r)
  /\ byPid' = [byPid EXCEPT ![PidOf[r]] = 0]
  /\ handles' = handles \ {byPid[PidOf[r]]}
  /\ KillMembers(byPid[PidOf[r]])
  /\ UNCHANGED <<seen, job, family, early, asked, nextId, owner>>

Next ==
  \/ \E r \in Roots :
       SpawnRoot(r) \/ SeeExit(r) \/ Attach(r) \/ AttachFails(r) \/ CloseRegistered(r)
  \/ \E p \in Procs : Exits(p) \/ \E c \in Children : StartChild(p, c)

Spec == Init /\ [][Next]_vars

-----------------------------------------------------------------------------

\* The registries agree: a registered job has an open handle, belongs to a root
\* of that pid, and to one pid only.
RegistriesAgree ==
  \A i \in Pids : byPid[i] # 0 =>
    /\ byPid[i] \in handles
    /\ owner[byPid[i]] \in Roots /\ PidOf[owner[byPid[i]]] = i

\* A job without a handle has no living member: nothing that was in a job
\* outlives the host's hold on it.
ClosedJobsAreEmpty ==
  \A p \in Procs : job[p] # 0 /\ job[p] \notin handles => proc[p] # "alive"

\* What the two rest on: no process is in a job, and no pid registered for one,
\* whose id was not handed out yet; and a process that was not started is in none.
IdsHandedOut ==
  /\ \A j \in handles : j < nextId
  /\ \A p \in Procs : job[p] < nextId /\ (proc[p] = "new" => job[p] = 0)
  /\ \A i \in Pids : byPid[i] < nextId

IInv == IdsHandedOut /\ RegistriesAgree /\ ClosedJobsAreEmpty

\* A handle that no pid leads to, which nothing will ever close, is that of a
\* root whose pid was given to a later root.
UnreachableOnlyByReuse ==
  \A j \in handles : (\A i \in Pids : byPid[i] # j) =>
    \E r \in Roots : r # owner[j] /\ owner[j] # None /\ PidOf[r] = PidOf[owner[j]]
                     /\ r \in asked

\* Once the job of a root is closed, what still lives of its tree was started
\* before the root was assigned, or descends from what was.
TreeEndsWithItsJob ==
  \A r \in Roots, p \in Procs :
    family[p] = r /\ proc[p] = "alive" /\ job[r] # 0 /\ job[r] \notin handles
      => p \in early

\* Closing the job of a root ends processes of its own tree only, or of the
\* tree of a root that got its pid later and was attached under it.
ClosesOnlyItsOwn ==
  [][\A r \in Roots : CloseRegistered(r) =>
       \A p \in Procs : proc[p] # proc'[p] =>
         \/ family[p] = r
         \/ /\ PidOf[family[p]] = PidOf[r]
            /\ r \in seen /\ job[family[p]] > job[r]]_vars

=============================================================================
