-------------------------- MODULE AppContainerGrants --------------------------
(***************************************************************************)
(* The Windows adapter: which paths of a config get into the grants file,  *)
(* what is created for those that are missing, which ACEs the launcher     *)
(* then puts on them, and what the DACLs come to.  Other processes create  *)
(* and remove paths meanwhile.                                             *)
(***************************************************************************)
EXTENDS PathPolicy, FiniteSets

CONSTANT MaxOthers  \* how often other processes create or remove a path

VARIABLES
  exists,    \* the paths that exist
  grants,    \* the config as filtered: read, write, deny
  missing,   \* the deny leaves to be materialized
  todo,      \* the lines not applied yet: [kind, path]
  ace,       \* path |-> the explicit ACEs of the spawn's SID: what they allow, and "deny"
  replaced,  \* history: denied paths removed after their ACE was applied
  others     \* how often others have acted

winVars == <<exists, grants, missing, todo, ace, replaced, others>>

NoGrants == [read |-> {}, write |-> {}, deny |-> {}]

\* The directories above a path, and itself.
UpTo(p) == {SubSeq(p, 1, n) : n \in 1..Len(p)}
Trees == {t \in SUBSET Paths : \A p \in t : UpTo(p) \cap Paths \subseteq t}

WinInit ==
  /\ exists = {} /\ grants = NoGrants /\ missing = {} /\ todo = {}
  /\ ace = [p \in Paths |-> {}] /\ replaced = {} /\ others = 0

-----------------------------------------------------------------------------
(* prepareAppContainerSpawn.                                               *)

\* The directories commands lie in, those apart from the paths of interest aside.
Images == CommandDirs \cap Paths

\* The grants that exist when they are looked for: those of the config, and the
\* directory of an absolute command, for it to load its own image.
Filter(c, d, t) ==
  /\ adapter = "windows" /\ phase = "idle"
  /\ config' = c /\ command' = d /\ exists' = t
  /\ grants' = [read |-> (c.read \cup {d}) \cap t, write |-> c.write \cap t, deny |-> {}]
  /\ phase' = "filter"
  /\ UNCHANGED <<adapter, missing, todo, ace, replaced, others>>

\* As KeptDenies, had missing denies been dropped like missing grants.
DeniesThatExist == config.deny \cap exists

\* The denies that exist, and the missing ones that would inherit a grant.
KeptDenies ==
  {d \in config.deny : d \in exists \/ Covered(grants.read \cup grants.write, d)}

KindsKnown ==
  /\ phase = "filter"
  /\ grants' = [grants EXCEPT !.deny = KeptDenies]
  /\ missing' = KeptDenies \ exists
  /\ phase' = "materialize"
  /\ UNCHANGED <<adapter, config, command, exists, todo, ace, replaced, others>>

\* Nobody says whether a missing deny is a file or a directory: an exception.
KindUnknown ==
  /\ phase = "filter" /\ KeptDenies \ exists # {}
  /\ phase' = "over"
  /\ UNCHANGED <<adapter, config, command, winVars>>

\* The leaf is created with the directories above it, unless it exists by now.
Materialize(d) ==
  /\ phase = "materialize" /\ d \in missing
  /\ missing' = missing \ {d}
  /\ exists' = exists \cup (UpTo(d) \cap Paths)
  /\ UNCHANGED <<adapter, config, command, phase, grants, todo, ace, replaced, others>>

MaterializeFails ==
  /\ phase = "materialize" /\ missing # {}
  /\ phase' = "over"
  /\ UNCHANGED <<adapter, config, command, winVars>>

\* formatAppContainerGrants.
WriteGrants ==
  /\ phase = "materialize" /\ missing = {}
  /\ todo' = UNION {[kind : {k}, path : grants[k]] : k \in DOMAIN grants}
  /\ phase' = "apply"
  /\ UNCHANGED <<adapter, config, command, exists, grants, missing, ace, replaced, others>>

-----------------------------------------------------------------------------
(* The launcher.                                                           *)

\* What the ACE of a line says.
Aces(kind) ==
  CASE kind = "deny" -> {"deny"} [] kind = "read" -> {"read"} [] kind = "write" -> Ops

\* ApplySidAceOnPath, the deny lines first; a path that is gone is fatal.  What
\* SetEntriesInAcl makes of a grant where the SID is denied is Windows'.
ApplyLine(l) ==
  /\ phase = "apply" /\ l \in todo
  /\ l.kind # "deny" => \A m \in todo : m.kind # "deny"
  /\ todo' = todo \ {l}
  /\ \E kept \in {ace[l.path], ace[l.path] \ {"deny"}} :
       ace' = IF l.path \notin exists THEN ace
              ELSE [ace EXCEPT ![l.path] = kept \cup Aces(l.kind)]
  /\ phase' = IF l.path \in exists THEN phase ELSE "over"
  /\ UNCHANGED <<adapter, config, command, exists, grants, missing, replaced, others>>

Resume ==
  /\ phase = "apply" /\ todo = {}
  /\ phase' = "running"
  /\ UNCHANGED <<adapter, config, command, winVars>>

-----------------------------------------------------------------------------
(* Other processes.  What is created has no ACE of its own.                *)

OtherCreates(p) ==
  /\ adapter = "windows" /\ phase # "idle" /\ others < MaxOthers
  /\ p \notin exists /\ UpTo(p) \cap Paths \subseteq exists \cup {p}
  /\ exists' = exists \cup {p} /\ others' = others + 1
  /\ UNCHANGED <<adapter, config, command, phase, grants, missing, todo, ace, replaced>>

OtherRemoves(p) ==
  /\ adapter = "windows" /\ phase # "idle" /\ others < MaxOthers
  /\ p \in exists /\ \A q \in exists : IsPrefix(p, q) => q = p
  /\ exists' = exists \ {p} /\ others' = others + 1
  /\ ace' = [ace EXCEPT ![p] = {}]
  /\ replaced' = IF "deny" \in ace[p] THEN replaced \cup {p} ELSE replaced
  /\ UNCHANGED <<adapter, config, command, phase, grants, missing, todo>>

-----------------------------------------------------------------------------

\* What a DACL comes to: ACEs are inherited, the nearer before the farther, on
\* each level the deny first, and what none allows is denied.
DaclAllows(op, p) ==
  \E q \in UpTo(p) \cap Paths :
    /\ op \in ace[q]
    /\ \A r \in UpTo(p) \cap Paths : IsPrefix(q, r) => "deny" \notin ace[r]

WinNext ==
  \/ /\ phase = "idle"
     /\ \E c \in Configs, d \in Images \cup {<<>>}, t \in Trees : Filter(c, d, t)
  \/ KindsKnown \/ KindUnknown \/ MaterializeFails \/ WriteGrants \/ Resume
  \/ \E p \in Paths : Materialize(p) \/ OtherCreates(p) \/ OtherRemoves(p)
  \/ \E l \in todo : ApplyLine(l)

=============================================================================
