---------------------------- MODULE LinuxMountPlan ----------------------------
(***************************************************************************)
(* How the Linux adapter turns the filesystem part of a spawn config into  *)
(* a list of bwrap mounts, and what the sandboxed process then sees.       *)
(*                                                                         *)
(* wrapSpawn looks at the host's files path by path and emits mounts: the  *)
(* system directories and an empty /tmp, one bind per write path and per   *)
(* read path, a seal (an empty tmpfs with the existing children bound back *)
(* on it) where a denied path could be created, and an overlay per denied  *)
(* path.  bwrap, a process of its own, then performs them in that order,   *)
(* creating the mount points that are missing.  Meanwhile other processes  *)
(* create and remove files, and so does the sandboxed process afterwards.  *)
(*                                                                         *)
(* Left out: device nodes and symbolic links (so a deny is its realpath).  *)
(***************************************************************************)
EXTENDS Naturals, Sequences, FiniteSets, SequencesExt, FiniteSetsExt

CONSTANTS
  Paths,      \* the paths of interest, sequences of names, closed under parents
  FileLeaves, \* those resolveDenyLeafKind says are files
  Hosts,      \* where SYSTEM_READ_PATHS (a sequence) and /tmp may lie, and the bounds
              \* denies, others and child: on the denied paths, the steps of
              \* other processes and those of the sandboxed one
  MaxWrites, MaxReads \* bound the lists of the config

Above(p) == {q \in Paths : IsStrictPrefix(q, p)}

IsPath(p) == p \in Seq(ToSet(p))

ASSUME PathsAssumption ==
  /\ IsFiniteSet(Paths)
  /\ \A p \in Paths : IsPath(p) /\ p # <<>> /\ \A n \in 1..Len(p) : SubSeq(p, 1, n) \in Paths
ASSUME LeavesAssumption ==
  FileLeaves \subseteq Paths /\ \A p \in Paths : Above(p) \cap FileLeaves = {}
\* /tmp is one of the paths or elsewhere.
ASSUME HostsAssumption ==
  \A h \in Hosts :
    /\ h.system \in Seq(Paths) /\ IsPath(h.tmp)
    /\ h.tmp \in Paths \/ \A p \in Paths : ~ IsPrefix(p, h.tmp) /\ ~ IsPrefix(h.tmp, p)
    /\ {h.denies, h.others, h.child} \subseteq Nat
ASSUME BoundsAssumption == MaxWrites \in Nat /\ MaxReads \in Nat

Kinds == {"absent", "file", "dir"}
Ops == {"bind", "ro-bind", "tmpfs", "null"}
Mounts == [op : Ops, at : Paths \cup {h.tmp : h \in Hosts}]
Mount(op, p) == [op |-> op, at |-> p]

VARIABLES
  host,     \* the one of Hosts this is
  kind,     \* what is at each path of the host
  writes,   \* config.filesystem.writePaths, those not handled yet
  reads,    \* config.filesystem.readPaths, likewise
  denies,   \* denyPaths
  phase,    \* the loop wrapSpawn is in, then bwrap's fate
  cursor,   \* how many denies the loop has gone over
  base,     \* the mounts of system paths and /tmp
  emitted,  \* the mounts of the config's paths
  maskable, \* missing denies below a sealed directory
  seals,    \* sealTargets not emitted yet
  sealed,   \* those emitted
  overlays, \* the mounts of seals and denies
  done,     \* how many mounts bwrap has performed
  made,     \* history: host paths bwrap created as mount points
  blocked,  \* history: missing denies with a file above them
  others,   \* steps other processes have taken
  steps     \* steps the sandboxed process has taken

configVars == <<host, writes, reads, denies>>
planVars == <<phase, cursor, base, emitted, maskable, seals, sealed, overlays, blocked>>
bwrapVars == <<done, made>>
countVars == <<others, steps>>
vars == <<kind, configVars, planVars, bwrapVars, countVars>>

Phases == {"start", "writes", "reads", "scan", "seal", "overlay", "mount",
           "running", "refused", "aborted"}

\* Lists of distinct paths: an entry that comes twice is skipped the second
\* time, by `seen` and by denyPaths.includes.
Lists(n) == {l \in BoundedSeq(Paths, n) : IsInjective(l)}

Init ==
  /\ host \in Hosts
  /\ kind \in [Paths -> Kinds]
  /\ \A p \in Paths : kind[p] # "absent" => \A q \in Above(p) : kind[q] = "dir"
  /\ host.tmp \in Paths => kind[host.tmp] = "dir"
  /\ writes \in Lists(MaxWrites) /\ reads \in Lists(MaxReads)
  /\ denies \in Lists(host.denies)
  /\ phase = "start" /\ cursor = 0
  /\ base = <<>> /\ emitted = <<>> /\ overlays = <<>>
  /\ maskable = {} /\ seals = {} /\ sealed = {} /\ blocked = {}
  /\ done = 0 /\ made = {}
  /\ others = 0 /\ steps = 0

-----------------------------------------------------------------------------
(* Lists.                                                                  *)

\* A set of indices, in increasing order.
InOrder(I) ==
  CHOOSE f \in [1..Cardinality(I) -> I] : \A i, j \in DOMAIN f : i < j => f[i] < f[j]

\* The entries of a list at some of its indices, in their order.
Picked(list, I) == LET f == InOrder(I) IN [i \in DOMAIN f |-> list[f[i]]]

-----------------------------------------------------------------------------
(* What a list of mounts means.                                            *)

\* As Governing, had it looked for the first mount that contains the path.
FirstContaining(ms, p) ==
  IF \E i \in DOMAIN ms : IsPrefix(ms[i].at, p)
  THEN Min({i \in DOMAIN ms : IsPrefix(ms[i].at, p)}) ELSE 0

\* governingMount: the last mount whose dest is the path or above it; 0 if none.
Governing(ms, p) == Max({0} \cup {i \in DOMAIN ms : IsPrefix(ms[i].at, p)})

\* The flavor that governs a path; without a mount it is bwrap's own root.
View(ms, p) == LET g == Governing(ms, p) IN IF g = 0 THEN "root" ELSE ms[g].op

\* What is at a path once the mounts are performed.  On a tmpfs, and on the
\* root, there are only the mount points and the directories above them.
KindIn(ms, p) ==
  LET g == Governing(ms, p) IN
  CASE View(ms, p) \in {"bind", "ro-bind"} -> kind[p]
    [] View(ms, p) = "null" -> IF ms[g].at = p THEN "file" ELSE "absent"
    [] OTHER ->
         IF \/ g # 0 /\ ms[g].at = p
            \/ \E i \in DOMAIN ms : i > g /\ IsStrictPrefix(p, ms[i].at)
         THEN "dir" ELSE "absent"

-----------------------------------------------------------------------------
(* wrapSpawn.  Its loops are synchronous, but the host's files are not its *)
(* own: each path is looked at in a step.                                  *)

Existing(list) == Picked(list, {i \in DOMAIN list : kind[list[i]] # "absent"})

Start ==
  /\ phase = "start"
  /\ base' = [i \in DOMAIN Existing(host.system) |-> Mount("ro-bind", Existing(host.system)[i])]
               \o <<Mount("tmpfs", host.tmp)>>
  /\ phase' = "writes"
  /\ UNCHANGED <<kind, configVars, cursor, emitted, maskable, seals, sealed, overlays,
                 blocked, bwrapVars, countVars>>

Seen(p) == \E i \in DOMAIN emitted : emitted[i].at = p

\* As BindWrite, had existsSync not been asked.
BindWriteUnchecked ==
  /\ phase = "writes" /\ writes # <<>>
  /\ writes' = Tail(writes)
  /\ emitted' = Append(emitted, Mount("bind", Head(writes)))
  /\ UNCHANGED <<host, kind, reads, denies, phase, cursor, base, maskable, seals, sealed,
                 overlays, blocked, bwrapVars, countVars>>

\* The next write path: bound read-write if it exists.
BindWrite ==
  /\ phase = "writes" /\ writes # <<>>
  /\ writes' = Tail(writes)
  /\ emitted' = IF kind[Head(writes)] # "absent" /\ ~Seen(Head(writes))
                THEN Append(emitted, Mount("bind", Head(writes))) ELSE emitted
  /\ UNCHANGED <<host, kind, reads, denies, phase, cursor, base, maskable, seals, sealed,
                 overlays, blocked, bwrapVars, countVars>>

\* The next read path: bound read-only if it exists and is not a write path too.
BindRead ==
  /\ phase = "reads" /\ reads # <<>>
  /\ reads' = Tail(reads)
  /\ emitted' = IF kind[Head(reads)] # "absent" /\ ~Seen(Head(reads))
                THEN Append(emitted, Mount("ro-bind", Head(reads))) ELSE emitted
  /\ UNCHANGED <<host, kind, writes, denies, phase, cursor, base, maskable, seals, sealed,
                 overlays, blocked, bwrapVars, countVars>>

\* As DeepestExistingDir, looking at the parent only.
ParentDir(mount, p) ==
  {q \in Above(p) : kind[q] = "dir" /\ IsPrefix(mount, q) /\ q = Front(p)}

\* deepestExistingDirBelow, between the governing mount and the denied path;
\* none if the deepest that exists is a file.
DeepestExistingDir(mount, p) ==
  {q \in Above(p) : /\ kind[q] = "dir" /\ IsPrefix(mount, q)
                    /\ \A r \in Above(p) : Len(r) > Len(q) => kind[r] = "absent"}

Denied(p) == \E i \in DOMAIN denies : IsPrefix(denies[i], p)

\* As Anchor, had every mount that contains the path counted as writable.
AnchorAnywhere(p) ==
  LET g == FirstContaining(emitted, p) IN
  IF g # 0 /\ emitted[g].op = "bind"
  THEN {q \in DeepestExistingDir(emitted[g].at, p) : ~Denied(q)} ELSE {}

\* The directory to seal for a missing deny: only under a mount that is
\* read-write, and unless an overlay will cover that directory anyway.
Anchor(p) ==
  LET g == Governing(emitted, p) IN
  IF g # 0 /\ emitted[g].op = "bind"
  THEN {q \in DeepestExistingDir(emitted[g].at, p) : ~Denied(q)} ELSE {}

\* The first loop over denyPaths: what is missing is masked by a seal.
ScanDeny ==
  /\ phase = "scan" /\ cursor < Len(denies)
  /\ cursor' = cursor + 1
  /\ LET p == denies[cursor + 1]
         anchor == IF kind[p] = "absent" THEN Anchor(p) ELSE {}
     IN /\ maskable' = IF anchor # {} THEN maskable \cup {p} ELSE maskable
        /\ seals' = seals \cup anchor
        /\ blocked' = IF \E q \in Above(p) : kind[q] = "file"
                      THEN blocked \cup {p} ELSE blocked
  /\ UNCHANGED <<kind, configVars, phase, base, emitted, sealed, overlays, bwrapVars,
                 countVars>>

\* As SealOf, handing the buried mounts back like everything else.
SealWidened(dir) ==
  LET back == {p \in Paths : /\ kind[p] # "absent" /\ Above(p) # {} /\ Front(p) = dir
                             /\ p \notin ToSet(denies)}
      binds == SetToSeq({Mount("bind", p) : p \in back})
  IN <<Mount("tmpfs", dir)>> \o binds

\* sealDirectory: an empty tmpfs, the children that exist bound back on it, and
\* the mounts it buries replayed as they were; nothing that is denied.
SealOf(dir) ==
  LET buried == Picked(emitted, {i \in DOMAIN emitted : /\ IsStrictPrefix(dir, emitted[i].at)
                                                        /\ emitted[i].at \notin ToSet(denies)})
      back == {p \in Paths : /\ kind[p] # "absent" /\ Above(p) # {} /\ Front(p) = dir
                             /\ p \notin ToSet(denies)
                             /\ \A i \in DOMAIN buried : buried[i].at # p}
      binds == SetToSeq({Mount("bind", p) : p \in back})
  IN <<Mount("tmpfs", dir)>> \o binds \o buried

\* As Seal, without the sort.
SealDeepestFirst(dir) ==
  /\ phase = "seal" /\ dir \in seals
  /\ \A d \in seals : Len(dir) >= Len(d)
  /\ seals' = seals \ {dir}
  /\ sealed' = sealed \cup {dir}
  /\ overlays' = overlays \o SealOf(dir)
  /\ UNCHANGED <<kind, configVars, phase, cursor, base, emitted, maskable, blocked,
                 bwrapVars, countVars>>

\* The seal targets, shallowest first.
Seal(dir) ==
  /\ phase = "seal" /\ dir \in seals
  /\ \A d \in seals : Len(dir) <= Len(d)
  /\ seals' = seals \ {dir}
  /\ sealed' = sealed \cup {dir}
  /\ overlays' = overlays \o SealOf(dir)
  /\ UNCHANGED <<kind, configVars, phase, cursor, base, emitted, maskable, blocked,
                 bwrapVars, countVars>>

\* A directory that cannot be enumerated refuses the spawn.
RefuseSeal(dir) ==
  /\ phase = "seal" /\ dir \in seals
  /\ \A d \in seals : Len(dir) <= Len(d)
  /\ phase' = "refused"
  /\ UNCHANGED <<kind, configVars, cursor, base, emitted, maskable, seals, sealed,
                 overlays, blocked, bwrapVars, countVars>>

\* The overlay of a deny: an empty tmpfs or /dev/null, by what is there; for a
\* missing one by its leaf kind, and only below a seal.
OverlayOf(p) ==
  CASE kind[p] = "dir" -> <<Mount("tmpfs", p)>>
    [] kind[p] = "file" -> <<Mount("null", p)>>
    [] kind[p] = "absent" /\ p \in maskable ->
         <<Mount(IF p \in FileLeaves THEN "null" ELSE "tmpfs", p)>>
    [] OTHER -> <<>>

\* The second loop over denyPaths.
OverlayDeny ==
  /\ phase = "overlay" /\ cursor < Len(denies)
  /\ cursor' = cursor + 1
  /\ overlays' = overlays \o OverlayOf(denies[cursor + 1])
  /\ UNCHANGED <<kind, configVars, phase, base, emitted, maskable, seals, sealed, blocked,
                 bwrapVars, countVars>>

\* On to the next loop.
NextLoop ==
  /\ \/ phase = "writes" /\ writes = <<>> /\ phase' = "reads"
     \/ phase = "reads" /\ reads = <<>> /\ phase' = "scan"
     \/ phase = "scan" /\ cursor = Len(denies) /\ phase' = "seal"
     \/ phase = "seal" /\ seals = {} /\ phase' = "overlay"
     \/ phase = "overlay" /\ cursor = Len(denies) /\ phase' = "mount"
  /\ cursor' = 0
  /\ UNCHANGED <<kind, configVars, base, emitted, maskable, seals, sealed, overlays,
                 blocked, bwrapVars, countVars>>

-----------------------------------------------------------------------------
(* bwrap.                                                                  *)

Args == base \o emitted \o overlays
Performed == SubSeq(Args, 1, done)

\* The path of a mount that is not modelled as a host path: /tmp.
OnHost(p) == p \in Paths

\* What a mount needs at its mount point.
PointKind(m) ==
  CASE m.op = "tmpfs" -> "dir"
    [] m.op = "null" -> "file"
    [] OTHER -> kind[m.at]

\* Mount point p is missing, and what is nearest above it is a directory that
\* can be written: a tmpfs, bwrap's root, or a read-write bind.
CanMake(p) ==
  /\ View(Performed, p) \in {"root", "tmpfs", "bind"}
  /\ \A q \in Above(p) : KindIn(Performed, q) # "file"

\* The next mount.  A missing mount point is created, on the host if that is
\* what shows through there.
PerformMount ==
  /\ phase = "mount" /\ done < Len(Args)
  /\ LET m == Args[done + 1]
         here == IF OnHost(m.at) THEN KindIn(Performed, m.at) ELSE "dir"
         missing == {q \in Above(m.at) \cup {m.at} : kind[q] = "absent"}
     IN /\ PointKind(m) # "absent"
        /\ \/ here = PointKind(m) /\ UNCHANGED <<kind, made>>
           \/ /\ here = "absent" /\ CanMake(m.at)
              /\ IF View(Performed, m.at) = "bind"
                 THEN /\ kind' = [q \in Paths |->
                           CASE q = m.at -> PointKind(m)
                             [] q \in missing \ {m.at} -> "dir"
                             [] OTHER -> kind[q]]
                      /\ made' = made \cup missing
                 ELSE UNCHANGED <<kind, made>>
  /\ done' = done + 1
  /\ UNCHANGED <<configVars, planVars, countVars>>

\* A mount bwrap cannot perform ends the spawn: the source is gone, or what is
\* at the mount point does not fit, or it cannot be created.
Abort ==
  /\ phase = "mount" /\ done < Len(Args)
  /\ LET m == Args[done + 1]
         here == IF OnHost(m.at) THEN KindIn(Performed, m.at) ELSE "dir"
     IN \/ PointKind(m) = "absent"
        \/ here # PointKind(m) /\ ~(here = "absent" /\ CanMake(m.at))
  /\ phase' = "aborted"
  /\ UNCHANGED <<kind, configVars, cursor, base, emitted, maskable, seals, sealed,
                 overlays, blocked, bwrapVars, countVars>>

Run ==
  /\ phase = "mount" /\ done = Len(Args)
  /\ phase' = "running"
  /\ UNCHANGED <<kind, configVars, cursor, base, emitted, maskable, seals, sealed,
                 overlays, blocked, bwrapVars, countVars>>

-----------------------------------------------------------------------------
(* Everybody else.                                                         *)

ParentIsDir(p) == \A q \in Above(p) : kind[q] = "dir"
IsEmpty(p) == \A q \in Paths : p \in Above(q) => kind[q] = "absent"

\* A process outside of the sandbox creates or removes something.
OtherCreates(p, k) ==
  /\ others < host.others /\ others' = others + 1
  /\ kind[p] = "absent" /\ ParentIsDir(p)
  /\ kind' = [kind EXCEPT ![p] = k]
  /\ UNCHANGED <<configVars, planVars, bwrapVars, steps>>

OtherRemoves(p) ==
  /\ others < host.others /\ others' = others + 1
  /\ kind[p] # "absent" /\ IsEmpty(p)
  /\ kind' = [kind EXCEPT ![p] = "absent"]
  /\ UNCHANGED <<configVars, planVars, bwrapVars, steps>>

\* The sandboxed process does, where the host shows through read-write.  What
\* it does on a tmpfs is of no consequence, and a mount point is busy.
ChildCreates(p, k) ==
  /\ phase = "running" /\ steps < host.child /\ steps' = steps + 1
  /\ View(Args, p) = "bind" /\ kind[p] = "absent" /\ ParentIsDir(p)
  /\ \A i \in DOMAIN Args : Args[i].at # p
  /\ kind' = [kind EXCEPT ![p] = k]
  /\ UNCHANGED <<configVars, planVars, bwrapVars, others>>

ChildRemoves(p) ==
  /\ phase = "running" /\ steps < host.child /\ steps' = steps + 1
  /\ View(Args, p) = "bind" /\ kind[p] # "absent" /\ IsEmpty(p)
  /\ \A i \in DOMAIN Args : Args[i].at # p
  /\ kind' = [kind EXCEPT ![p] = "absent"]
  /\ UNCHANGED <<configVars, planVars, bwrapVars, others>>

Next ==
  \/ Start \/ BindWrite \/ BindRead \/ ScanDeny \/ OverlayDeny \/ NextLoop
  \/ \E d \in Paths : Seal(d) \/ RefuseSeal(d)
  \/ PerformMount \/ Abort \/ Run
  \/ \E p \in Paths, k \in {"file", "dir"} : OtherCreates(p, k) \/ ChildCreates(p, k)
  \/ \E p \in Paths : OtherRemoves(p) \/ ChildRemoves(p)

Spec == Init /\ [][Next]_vars

-----------------------------------------------------------------------------
(* Properties.                                                             *)

\* What the process sees of the host at a path.
ShowsHost(p) == View(Args, p) \in {"bind", "ro-bind"} /\ kind[p] # "absent"

\* The plan has an overlay for a denied path that this is, or lies below.
Overlaid(p) ==
  \E i \in DOMAIN overlays :
    /\ overlays[i].op \in {"tmpfs", "null"} /\ Denied(overlays[i].at)
    /\ IsPrefix(overlays[i].at, p)

\* Nothing at or below a denied path of the host is there for the sandboxed
\* process, neither what was there before it started nor what it goes on to
\* create; except below a regular file that stood in the way at planning time,
\* and where the plan has no overlay and somebody else changes the host.
DeniesHold ==
  phase = "running" =>
    \A p \in Paths : Denied(p) /\ ShowsHost(p) =>
      \/ \E d \in blocked : IsPrefix(d, p)
      \/ others > 0 /\ ~Overlaid(p)

\* Planning and mounting leave nothing behind on the host: no mount point is
\* ever created through a read-write bind, unless somebody else removed what
\* the plan had seen there.
HostUntouched == others = 0 => made = {}

\* A seal is not seen from inside: whatever exists on the host and is neither
\* denied nor a sealed directory itself is where it was, at the access level
\* the config's mounts alone would give it.
SealsKeepContents ==
  phase = "running" /\ others = 0 =>
    \A p \in Paths : kind[p] # "absent" /\ ~Denied(p) /\ p \notin sealed =>
      View(Args, p) = View(base \o emitted, p)

\* As far as the host keeps still, bwrap can perform every plan.
PlansCanBeMounted == others = 0 => phase # "aborted"

\* Whatever others do meanwhile, seals and overlays never widen access: a path
\* that is not denied is read-write inside only if the mount that the config put
\* there is.
NeverWidened ==
  phase = "running" =>
    \A p \in Paths :
      View(Args, p) = "bind" /\ ~Denied(p) => View(base \o emitted, p) = "bind"

=============================================================================
