------------------------------ MODULE PathPolicy ------------------------------
(***************************************************************************)
(* What a SandboxSpawnConfig says about paths, whichever adapter has to    *)
(* make it true.                                                           *)
(***************************************************************************)
EXTENDS Naturals, Sequences, SequencesExt

CONSTANTS
  Paths,    \* the user's paths of interest, under their real names
  Configs,  \* records of sets of paths: read, write, deny
  CommandDirs  \* directories commands lie in

\* A path is a sequence of names.
IsPath(p) == p \in Seq(ToSet(p))

ASSUME PathsAssumption == \A p \in Paths : IsPath(p) /\ p # <<>>
ASSUME ConfigsAssumption ==
  Configs \subseteq [read : SUBSET Paths, write : SUBSET Paths, deny : SUBSET Paths]

VARIABLES
  adapter,  \* which adapter wraps the spawn
  config,   \* the config it was given
  command,  \* the directory of the command, <<>> if the adapter knows none
  phase     \* how far the spawn is

\* The path is one of dirs, or below one.
Covered(dirs, p) == \E d \in dirs : IsPrefix(d, p)

Ops == {"read", "write"}

\* readPaths are readable, writePaths both.
Granted(c, op, p) ==
  Covered(IF op = "read" THEN c.read \cup c.write ELSE c.write, p)

=============================================================================
