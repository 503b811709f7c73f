----------------------------- MODULE PathAdapters -----------------------------
(***************************************************************************)
(* What the macOS and the Windows adapter make of the paths of a config,   *)
(* each by its own means: an ordered list of rules, and ACEs on the paths  *)
(* themselves.  The two are held to the same promises.                     *)
(***************************************************************************)
EXTENDS SeatbeltProfile, AppContainerGrants

vars == <<adapter, config, command, phase, macVars, winVars>>

Init ==
  /\ adapter \in {"macos", "legacy", "windows"}
  /\ config = NoGrants /\ command = <<>> /\ phase = "idle"
  /\ MacInit /\ WinInit

Next ==
  \/ MacNext /\ UNCHANGED winVars
  \/ WinNext /\ UNCHANGED macVars

\* A spawn whose sweep removes the directory.
Removes(x) ==
  /\ dir[x] = "old"
  /\ \E c \in Configs, d \in CommandDirs \cup {<<>>}, gone \in SUBSET Dirs :
       x \in gone /\ WrapSpawn(c, d, gone)

\* A spawn that is under way gets on, weeks go by, and a directory that sweep
\* after sweep tries to remove is not kept from it for ever.
Fairness ==
  /\ WF_vars((WriteProfile \/ WriteFails \/ SandboxExec) /\ UNCHANGED winVars)
  /\ \A d \in Dirs : /\ WF_vars(WeekPasses(d) /\ UNCHANGED winVars)
                     /\ SF_vars(Removes(d) /\ UNCHANGED winVars)

Spec == Init /\ [][Next]_vars
FairSpec == Spec /\ Fairness

-----------------------------------------------------------------------------

\* The confined process can do op on p, by whatever name it gives it.
Accessible(op, p) ==
  IF adapter = "windows" THEN p \in exists /\ DaclAllows(op, p)
  ELSE \E n \in Names(p) : Allows(profile, op, n)

\* The directories a process reads whatever its config says: on Windows that of
\* an absolute command, on macOS that of one outside the system, and the system.
AlsoRead ==
  IF adapter = "windows" THEN {command} \ {<<>>} ELSE SystemDirs \cup CommandReads(command)

\* p is denied in a way the adapter can act on.  On macOS a grant above the data
\* volume reaches everything by its alias, for writing.  On Windows an explicit
\* grant, and that of the command's directory is one, goes before an inherited
\* deny, and an ACE goes with its path.
Hidden(p) ==
  CASE adapter = "legacy" -> Covered(Sensitive, p) /\ ~ Covered(Floor, p)
    [] adapter = "macos" -> Covered(config.deny, p) /\ ~ Covered(config.write, DataVolume)
    [] adapter = "windows" ->
         \E d \in config.deny :
           /\ IsPrefix(d, p) /\ d \notin replaced
           /\ ~ \E g \in config.read \cup config.write \cup AlsoRead :
                  IsPrefix(d, g) /\ IsPrefix(g, p)

\* denyPaths are hidden: while the process runs, no name of a denied path lets
\* it read or write there, whichever order the lists came in, and however other
\* processes made and unmade the path while its ACE was on the way.
DeniedIsHidden ==
  phase = "running" =>
    \A p \in Paths, op \in Ops : Hidden(p) => ~ Accessible(op, p)

\* Deny by default: what the process can read or write is in the config, or in
\* the directories every macOS profile has, or beside the command; and what is
\* only granted for reading is not written, but for the alias of the root below
\* a granted directory.
NothingUngranted ==
  phase = "running" /\ adapter # "legacy" =>
    \A p \in Paths, op \in Ops :
      Accessible(op, p) =>
        \/ Granted(config, op, p)
        \/ op = "read" /\ Covered(AlsoRead, p)
        \/ adapter = "macos" /\ Covered(TempDirs, p)
        \/ adapter = "macos" /\ op = "write" /\ Covered(config.write, DataVolume)

\* The process can use what it was given: neither the closing rule for the data
\* volume nor a deny elsewhere takes away a granted path, and the command can be
\* read unless its directory only looks like one of the system.  On Windows this
\* is about the grants that were there when they were looked for.
GrantedIsUsable ==
  phase = "running" =>
    \A p \in Paths, op \in Ops :
      /\ adapter = "legacy" /\ ~ Hidden(p) => Allows(profile, op, p)
      /\ /\ adapter = "macos" /\ ~ Covered(config.deny, p)
         /\ \/ Granted(config, op, p)
            \/ op = "read" /\ command # <<>> /\ command \notin Lookalikes
                           /\ IsPrefix(Resolved(command), p)
         => Allows(profile, op, p)
      /\ /\ adapter = "windows" /\ ~ Covered(config.deny, p)
         /\ p \in exists /\ others = 0 /\ Granted(grants, op, p)
         => DaclAllows(op, p)

\* The profile directories of processes that crashed do not pile up: as long as
\* processes come, wrap a spawn and go, every directory is removed some day.
ProfileDirsGo ==
  ([]<>swept /\ []<> ~ swept) =>
    \A d \in Dirs : dir[d] # "free" ~> dir[d] = "free"

=============================================================================
