------------------------- MODULE JobRegistry_proofs -------------------------
(* Proofs about JobRegistry, for any set of processes and any reuse of pids. *)
EXTENDS JobRegistry, TLAPS

USE ProcsAssumption, PidsAssumption, JobsAssumption

\* The types of the variables and the disjointness of the two kinds of process.
THEOREM TypeCorrect == Spec => []TypeOK
<1> USE DEF TypeOK, Procs, Jobs
<1>1. Init => TypeOK
  BY DEF Init
<1>2. TypeOK /\ [Next]_vars => TypeOK'
  <2> SUFFICES ASSUME TypeOK, [Next]_vars PROVE TypeOK'
    OBVIOUS
  <2> USE DEF osVars, hostVars, vars
  <2>1. ASSUME NEW r \in Roots, SpawnRoot(r) PROVE TypeOK'
    BY <2>1 DEF SpawnRoot
  <2>2. ASSUME NEW r \in Roots, SeeExit(r) PROVE TypeOK'
    BY <2>2 DEF SeeExit
  <2>3. ASSUME NEW r \in Roots, Attach(r) PROVE TypeOK'
    BY <2>3 DEF Attach
  <2>4. ASSUME NEW r \in Roots, AttachFails(r) PROVE TypeOK'
    BY <2>4 DEF AttachFails
  <2>5. ASSUME NEW r \in Roots, CloseRegistered(r) PROVE TypeOK'
    BY <2>5 DEF CloseRegistered, MayClose, KillMembers
  <2>6. ASSUME NEW p \in Procs, Exits(p) PROVE TypeOK'
    BY <2>6 DEF Exits
  <2>7. ASSUME NEW p \in Procs, NEW c \in Children, StartChild(p, c) PROVE TypeOK'
    BY <2>7 DEF StartChild
  <2>8. CASE UNCHANGED vars
    BY <2>8
  <2>9. QED
    BY <2>1, <2>2, <2>3, <2>4, <2>5, <2>6, <2>7, <2>8 DEF Next
<1>3. QED
  BY <1>1, <1>2, PTL DEF Spec

\* The ids handed out so far are what makes the two inductive.
THEOREM Invariance == Spec => []IInv
<1> USE DEF TypeOK, Procs, Jobs, IInv, IdsHandedOut, RegistriesAgree, ClosedJobsAreEmpty
<1>1. Init => IInv
  BY DEF Init
<1>2. TypeOK /\ IInv /\ [Next]_vars => IInv'
  <2> SUFFICES ASSUME TypeOK, IInv, [Next]_vars PROVE IInv'
    OBVIOUS
  <2> USE DEF osVars, hostVars, vars
  <2>1. ASSUME NEW r \in Roots, SpawnRoot(r) PROVE IInv'
    BY <2>1 DEF SpawnRoot
  <2>2. ASSUME NEW r \in Roots, SeeExit(r) PROVE IInv'
    BY <2>2 DEF SeeExit
  <2>3. ASSUME NEW r \in Roots, Attach(r) PROVE IInv'
    <3>1. IdsHandedOut'
      BY <2>3 DEF Attach
    <3>2. RegistriesAgree'
      BY <2>3 DEF Attach
    <3>3. ClosedJobsAreEmpty'
      BY <2>3 DEF Attach
    <3>4. QED
      BY <3>1, <3>2, <3>3
  <2>4. ASSUME NEW r \in Roots, AttachFails(r) PROVE IInv'
    <3>1. IdsHandedOut'
      BY <2>4 DEF AttachFails
    <3>2. RegistriesAgree' /\ ClosedJobsAreEmpty'
      BY <2>4 DEF AttachFails
    <3>3. QED
      BY <3>1, <3>2
  <2>5. ASSUME NEW r \in Roots, CloseRegistered(r) PROVE IInv'
    <3> USE DEF CloseRegistered, MayClose, KillMembers
    <3>1. IdsHandedOut'
      BY <2>5
    <3>2. RegistriesAgree'
      BY <2>5
    <3>3. ClosedJobsAreEmpty'
      BY <2>5
    <3>4. QED
      BY <3>1, <3>2, <3>3
  <2>6. ASSUME NEW p \in Procs, Exits(p) PROVE IInv'
    BY <2>6 DEF Exits
  <2>7. ASSUME NEW p \in Procs, NEW c \in Children, StartChild(p, c) PROVE IInv'
    BY <2>7 DEF StartChild
  <2>8. CASE UNCHANGED vars
    BY <2>8
  <2>9. QED
    BY <2>1, <2>2, <2>3, <2>4, <2>5, <2>6, <2>7, <2>8 DEF Next
<1>3. QED
  BY <1>1, <1>2, TypeCorrect, PTL DEF Spec

\* The two registries agree after every call, and a job the host has let go of
\* has no member alive.
THEOREM Agreement == Spec => [](RegistriesAgree /\ ClosedJobsAreEmpty)
BY Invariance, PTL DEF IInv

-----------------------------------------------------------------------------
(* Trees of processes and pids that are given again.                       *)

\* A process is in the job of its root, or was started before the root was.
InTheJobOfItsRoot ==
  /\ \A r \in Roots : family[r] = r
  /\ \A p \in Procs : proc[p] # "new" => family[p] \in Roots
  /\ \A p \in Procs : proc[p] # "new" /\ p \notin early => job[p] = job[family[p]]
  /\ \A c \in Children : proc[c] # "new" /\ c \notin early => job[c] # 0
  /\ \A c \in early : job[c] = 0 /\ proc[c] # "new"

\* A job is that of its owner; who lost the entry of its pid lost it to a later
\* root.
OwnersHaveTheirJobs ==
  /\ \A r \in Roots : job[r] # 0 => r \in asked
  /\ \A j \in handles : owner[j] \in asked /\ job[owner[j]] = j
  /\ \A j \in handles : byPid[PidOf[owner[j]]] = j \/
       \E r \in Roots : r # owner[j] /\ PidOf[r] = PidOf[owner[j]] /\ r \in asked

\* Two roots of one pid: the exit of the earlier was seen, and the entry of the
\* pid is the later one's.
PidsInTurn ==
  /\ \A r \in seen : proc[r] = "dead"
  /\ \A q, r \in Roots : q # r /\ PidOf[q] = PidOf[r] /\ proc[q] # "new" /\ proc[r] # "new"
       => q \in seen \/ r \in seen
  /\ \A q, r \in Roots : PidOf[q] = PidOf[r] /\ job[q] > job[r] /\ job[r] # 0 => r \in seen
  /\ \A r \in Roots : byPid[PidOf[r]] # 0 => job[r] <= byPid[PidOf[r]]

\* No two roots were assigned to one job.
OneJobEach == \A q, r \in Roots : job[q] = job[r] /\ job[q] # 0 => q = r

TreeInv == InTheJobOfItsRoot /\ OwnersHaveTheirJobs /\ PidsInTurn /\ OneJobEach

\* What the registries of win-job-object.ts and win_job_object.cc say of owners, pids and
\* trees is kept by every attach, close, fork, exit and reuse.
THEOREM TreeInvariance == Spec => []TreeInv
<1> USE DEF TypeOK, Procs, Jobs, TreeInv
<1>1. Init => TreeInv
  BY DEF Init, InTheJobOfItsRoot, OwnersHaveTheirJobs, PidsInTurn, OneJobEach
<1>2. TypeOK /\ IInv /\ TreeInv /\ [Next]_vars => TreeInv'
  <2> SUFFICES ASSUME TypeOK, IInv, TreeInv, [Next]_vars PROVE TreeInv'
    OBVIOUS
  <2> USE DEF osVars, hostVars, vars
  <2>1. ASSUME NEW r \in Roots, SpawnRoot(r) PROVE TreeInv'
    <3>1. InTheJobOfItsRoot'
      BY <2>1 DEF SpawnRoot, InTheJobOfItsRoot
    <3>2. OwnersHaveTheirJobs'
      BY <2>1 DEF SpawnRoot, OwnersHaveTheirJobs
    <3>3. PidsInTurn'
      BY <2>1 DEF SpawnRoot, PidsInTurn
    <3>4. OneJobEach'
      BY <2>1 DEF SpawnRoot, OneJobEach
    <3>5. QED
      BY <3>1, <3>2, <3>3, <3>4
  <2>2. ASSUME NEW r \in Roots, SeeExit(r) PROVE TreeInv'
    <3>1. InTheJobOfItsRoot'
      BY <2>2 DEF SeeExit, InTheJobOfItsRoot
    <3>2. OwnersHaveTheirJobs'
      BY <2>2 DEF SeeExit, OwnersHaveTheirJobs
    <3>3. PidsInTurn'
      BY <2>2 DEF SeeExit, PidsInTurn
    <3>4. OneJobEach'
      BY <2>2 DEF SeeExit, OneJobEach
    <3>5. QED
      BY <3>1, <3>2, <3>3, <3>4
  <2>3. ASSUME NEW r \in Roots, Attach(r) PROVE TreeInv'
    <3>1. InTheJobOfItsRoot'
      <4>1. \A c \in Children : proc[c] # "new" /\ c \notin early => family[c] # r
        BY <2>3 DEF Attach, InTheJobOfItsRoot, OwnersHaveTheirJobs
      <4>2. /\ \A p \in Procs : p # r => job'[p] = job[p]
            /\ job'[r] = nextId
            /\ UNCHANGED <<proc, family, early>>
        BY <2>3 DEF Attach
      <4>3. \A p \in Procs : proc[p] # "new" /\ p \notin early => job'[p] = job'[family[p]]
        BY <4>1, <4>2 DEF InTheJobOfItsRoot
      <4>4. r \notin Children /\ early \subseteq Children
        OBVIOUS
      <4>5. QED
        BY <4>2, <4>3, <4>4 DEF InTheJobOfItsRoot
    <3>2. OwnersHaveTheirJobs'
      BY <2>3 DEF Attach, OwnersHaveTheirJobs, IInv, IdsHandedOut, RegistriesAgree
    <3>3. PidsInTurn'
      <4>1. /\ \A p \in Procs : p # r => job'[p] = job[p]
            /\ job'[r] = nextId /\ nextId \in Nat /\ job[r] = 0
            /\ byPid' = [byPid EXCEPT ![PidOf[r]] = nextId]
            /\ UNCHANGED <<proc, seen>>
            /\ \A q \in Roots : job[q] \in Nat /\ job[q] < nextId
        BY <2>3 DEF Attach, IInv, IdsHandedOut, OwnersHaveTheirJobs
      <4>2. r \notin seen /\ proc[r] # "new"
        BY <2>3 DEF Attach, PidsInTurn
      <4>3. \A q \in Roots : job[q] # 0 => proc[q] # "new"
        BY DEF IInv, IdsHandedOut
      <4>4. ASSUME NEW p \in Roots, NEW q \in Roots, PidOf[p] = PidOf[q],
                   job'[p] > job'[q], job'[q] # 0
            PROVE  q \in seen
        <5>1. q # r
          BY <4>1, <4>4
        <5>2. CASE p = r
          BY <4>1, <4>2, <4>3, <4>4, <5>1, <5>2 DEF PidsInTurn
        <5>3. CASE p # r
          BY <4>1, <4>4, <5>1, <5>3 DEF PidsInTurn
        <5>4. QED
          BY <5>2, <5>3
      <4>5. ASSUME NEW q \in Roots, byPid'[PidOf[q]] # 0
            PROVE  job'[q] <= byPid'[PidOf[q]]
        <5>1. CASE PidOf[q] = PidOf[r]
          <6>1. PidOf[q] \in Pids
            OBVIOUS
          <6>2. byPid'[PidOf[q]] = nextId
            BY <4>1, <5>1, <6>1
          <6>3. job'[q] <= nextId
            BY <4>1
          <6>4. QED
            BY <6>2, <6>3
        <5>2. CASE PidOf[q] # PidOf[r]
          <6>1. q # r /\ PidOf[q] \in Pids /\ PidOf[r] \in Pids
            BY <5>2
          <6>2. byPid'[PidOf[q]] = byPid[PidOf[q]] /\ job'[q] = job[q]
            BY <4>1, <5>2, <6>1
          <6>3. QED
            BY <4>5, <6>2 DEF PidsInTurn
        <5>3. QED
          BY <5>1, <5>2
      <4>6. QED
        BY <4>1, <4>4, <4>5 DEF PidsInTurn
    <3>4. OneJobEach'
      BY <2>3 DEF Attach, OneJobEach, IInv, IdsHandedOut, RegistriesAgree
    <3>5. QED
      BY <3>1, <3>2, <3>3, <3>4
  <2>4. ASSUME NEW r \in Roots, AttachFails(r) PROVE TreeInv'
    <3>1. InTheJobOfItsRoot'
      BY <2>4 DEF AttachFails, InTheJobOfItsRoot
    <3>2. OwnersHaveTheirJobs'
      BY <2>4 DEF AttachFails, OwnersHaveTheirJobs
    <3>3. PidsInTurn'
      BY <2>4 DEF AttachFails, PidsInTurn
    <3>4. OneJobEach'
      BY <2>4 DEF AttachFails, OneJobEach
    <3>5. QED
      BY <3>1, <3>2, <3>3, <3>4
  <2>5. ASSUME NEW r \in Roots, CloseRegistered(r) PROVE TreeInv'
    <3>1. InTheJobOfItsRoot'
      BY <2>5 DEF CloseRegistered, MayClose, KillMembers, InTheJobOfItsRoot, IInv, IdsHandedOut, RegistriesAgree
    <3>2. OwnersHaveTheirJobs'
      BY <2>5 DEF CloseRegistered, MayClose, KillMembers, OwnersHaveTheirJobs, IInv, IdsHandedOut, RegistriesAgree
    <3>3. PidsInTurn'
      BY <2>5 DEF CloseRegistered, MayClose, KillMembers, PidsInTurn, IInv, IdsHandedOut, RegistriesAgree
    <3>4. OneJobEach'
      BY <2>5 DEF CloseRegistered, MayClose, KillMembers, OneJobEach, IInv, IdsHandedOut, RegistriesAgree
    <3>5. QED
      BY <3>1, <3>2, <3>3, <3>4
  <2>6. ASSUME NEW p \in Procs, Exits(p) PROVE TreeInv'
    <3>1. InTheJobOfItsRoot'
      BY <2>6 DEF Exits, InTheJobOfItsRoot
    <3>2. OwnersHaveTheirJobs'
      BY <2>6 DEF Exits, OwnersHaveTheirJobs
    <3>3. PidsInTurn'
      BY <2>6 DEF Exits, PidsInTurn
    <3>4. OneJobEach'
      BY <2>6 DEF Exits, OneJobEach
    <3>5. QED
      BY <3>1, <3>2, <3>3, <3>4
  <2>7. ASSUME NEW p \in Procs, NEW c \in Children, StartChild(p, c) PROVE TreeInv'
    <3>1. InTheJobOfItsRoot'
      BY <2>7 DEF StartChild, InTheJobOfItsRoot
    <3>2. OwnersHaveTheirJobs'
      BY <2>7 DEF StartChild, OwnersHaveTheirJobs
    <3>3. PidsInTurn'
      BY <2>7 DEF StartChild, PidsInTurn
    <3>4. OneJobEach'
      BY <2>7 DEF StartChild, OneJobEach
    <3>5. QED
      BY <3>1, <3>2, <3>3, <3>4
  <2>8. CASE UNCHANGED vars
    BY <2>8 DEF InTheJobOfItsRoot, OwnersHaveTheirJobs, PidsInTurn, OneJobEach
  <2>9. QED
    BY <2>1, <2>2, <2>3, <2>4, <2>5, <2>6, <2>7, <2>8 DEF Next
<1>3. QED
  BY <1>1, <1>2, TypeCorrect, Invariance, PTL DEF Spec

\* A handle is out of reach only when the pid of its root was given to another
\* root that was attached, for any set of roots and any reuse of pids.
THEOREM OutOfReach == Spec => []UnreachableOnlyByReuse
<1>1. TypeOK /\ IInv /\ TreeInv => UnreachableOnlyByReuse
  <2> SUFFICES ASSUME TypeOK, IInv, TreeInv, NEW j \in handles, \A i \in Pids : byPid[i] # j
               PROVE  \E r \in Roots : r # owner[j] /\ owner[j] # None
                                       /\ PidOf[r] = PidOf[owner[j]] /\ r \in asked
    BY DEF UnreachableOnlyByReuse
  <2>1. owner[j] \in Roots /\ owner[j] # None
    BY DEF TreeInv, OwnersHaveTheirJobs, TypeOK, Procs
  <2>2. byPid[PidOf[owner[j]]] # j
    BY <2>1
  <2>3. QED
    BY <2>1, <2>2 DEF TreeInv, OwnersHaveTheirJobs
<1>2. QED
  BY <1>1, TypeCorrect, Invariance, TreeInvariance, PTL

\* What outlives the job of a root was started before the root was assigned.
THEOREM TreeEnds == Spec => []TreeEndsWithItsJob
<1>1. TypeOK /\ IInv /\ TreeInv => TreeEndsWithItsJob
  BY DEF IInv, ClosedJobsAreEmpty, TreeInv, InTheJobOfItsRoot, TreeEndsWithItsJob, Procs
<1>2. QED
  BY <1>1, TypeCorrect, Invariance, TreeInvariance, PTL

\* No call of the host ends a process of a tree it was not asked to end, but
\* where its pid was given again.
THEOREM OwnTree == Spec => ClosesOnlyItsOwn
<1> DEFINE Own ==
      \A r \in Roots : CloseRegistered(r) =>
        \A p \in Procs : proc[p] # proc'[p] =>
          \/ family[p] = r
          \/ /\ PidOf[family[p]] = PidOf[r]
             /\ r \in seen /\ job[family[p]] > job[r]
<1>1. TypeOK /\ IInv /\ TreeInv => Own
  <2> SUFFICES ASSUME TypeOK, IInv, TreeInv, NEW r \in Roots, CloseRegistered(r),
                      NEW p \in Procs, proc[p] # proc'[p], family[p] # r
               PROVE  /\ PidOf[family[p]] = PidOf[r]
                      /\ r \in seen /\ job[family[p]] > job[r]
    OBVIOUS
  <2> DEFINE j == byPid[PidOf[r]]
             q == owner[j]
  <2>1. job[p] = j /\ proc[p] = "alive" /\ j # 0 /\ job[r] # 0
    BY DEF CloseRegistered, MayClose, KillMembers, TypeOK
  <2>2. j \in handles /\ q \in Roots /\ PidOf[q] = PidOf[r] /\ job[q] = j
    BY <2>1 DEF IInv, RegistriesAgree, TreeInv, OwnersHaveTheirJobs
  <2>3. family[p] \in Roots /\ job[p] = job[family[p]]
    BY <2>1 DEF TreeInv, InTheJobOfItsRoot
  <2>4. family[p] = q
    BY <2>1, <2>2, <2>3 DEF TreeInv, OneJobEach
  <2>5. job[r] <= job[q] /\ job[r] # job[q]
    BY <2>1, <2>2, <2>4 DEF TreeInv, PidsInTurn, OneJobEach
  <2>6. job[q] > job[r]
    BY <2>2, <2>5 DEF TypeOK, Procs, Jobs
  <2>7. QED
    BY <2>1, <2>2, <2>4, <2>6 DEF TreeInv, PidsInTurn
<1>2. QED
  BY <1>1, TypeCorrect, Invariance, TreeInvariance, PTL DEF Spec, ClosesOnlyItsOwn

=============================================================================
