--------------------------- MODULE SeatbeltProfile ---------------------------
(***************************************************************************)
(* The macOS adapter: the Seatbelt profile it generates, its legacy        *)
(* profile, how sandbox-exec reads them (the last rule that matches        *)
(* decides), and the file a profile too large for argv is passed in.       *)
(* The network and mach rules, in which nothing is denied again, are left  *)
(* out.                                                                    *)
(***************************************************************************)
EXTENDS PathPolicy, FiniteSets

CONSTANTS
  SystemDirs,   \* the directories every profile may read
  TempDirs,     \* the directories every profile may read and write
  RootLinks,    \* /tmp, /var and /etc, links to the directories in Private
  Private,      \* /private
  DataVolume,   \* /System/Volumes/Data, an alias of the root
  Sensitive,    \* the home directories the legacy profile denies
  Floor,        \* what it allows again below them
  Lookalikes,   \* those whose name only begins like that of a system directory
  LargeConfigs, \* the configs whose profile exceeds INLINE_PROFILE_MAX_BYTES
  Dirs          \* private profile directories

ASSUME SystemAssumption ==
  /\ TempDirs # {} /\ SystemDirs # {} /\ Floor # {}
  /\ \A d \in SystemDirs \cup TempDirs \cup Floor \cup CommandDirs \cup {Private, DataVolume} :
       IsPath(d)

\* Real names and the floor are not names on the data volume, nor is that a
\* temporary directory.
ASSUME AliasAssumption ==
  /\ \A p \in Paths \cup Floor \cup TempDirs : ~ IsPrefix(DataVolume, p)
  /\ \A d \in Floor \cup TempDirs : ~ IsPrefix(d, DataVolume)

VARIABLES
  profile,  \* the rules, in order
  process,  \* of the host: "up" or "down"
  swept,    \* sweptThisProcess
  tracked,  \* createdProfileDirs
  dir,      \* a directory is "free", "made", "written" or, a week later, "old"
  mine      \* the directory of this spawn, "none" for an inline profile

fileVars == <<process, swept, tracked, dir>>
macVars == <<profile, fileVars, mine>>

-----------------------------------------------------------------------------
(* Profiles.                                                               *)

Rule(allow, ops, dirs) == [allow |-> allow, ops |-> ops, dirs |-> dirs]
Read == {"metadata", "read"}
ReadWrite == Read \cup {"write"}

\* A rule without a filter matches every path.
Matches(r, op, p) == op \in r.ops /\ (r.dirs = {} \/ Covered(r.dirs, p))

\* Denied by default, decided by the last rule that matches.
Allows(rules, op, p) ==
  \E i \in DOMAIN rules :
    /\ rules[i].allow /\ Matches(rules[i], op, p)
    /\ \A j \in (i + 1)..Len(rules) : ~ Matches(rules[j], op, p)

\* As Section, had an empty list been written as a rule without a filter.
SectionAlways(allow, ops, dirs) == <<Rule(allow, ops, dirs)>>

\* The rule of a list of paths, left out if there is none.
Section(allow, ops, dirs) ==
  IF dirs = {} THEN <<>> ELSE <<Rule(allow, ops, dirs)>>

\* A directory below a root link has its real name in Private.
Resolved(d) == IF d # <<>> /\ <<d[1]>> \in RootLinks THEN Private \o d ELSE d

\* A system directory that is named by a link is also there by its real name.
ASSUME LinksAssumption ==
  <<>> \notin SystemDirs /\ \A d \in SystemDirs : Covered(SystemDirs, Resolved(d))

\* commandReadPaths: the directory of the command under both names, unless it
\* seems to lie in one that every profile may read.
CommandReads(d) ==
  IF d = <<>> \/ Covered(SystemDirs, d) \/ d \in Lookalikes THEN {}
  ELSE {d, Resolved(d)}

\* generateSeatbeltProfile.  The literals of the root links concern the links.
SeatbeltRules(c, d) ==
  <<Rule(TRUE, Read, SystemDirs), Rule(TRUE, {"metadata"}, {})>>
  \o Section(TRUE, Read, c.read \cup CommandReads(d))
  \o Section(TRUE, ReadWrite, c.write)
  \o <<Rule(TRUE, ReadWrite, TempDirs),
       Rule(FALSE, Read, {DataVolume})>>
  \o Section(FALSE, ReadWrite, c.deny)

\* As LegacyRules, had the floor come before what it is an exception to.
LegacyFloorFirst ==
  <<Rule(TRUE, ReadWrite, {}),
    Rule(TRUE, ReadWrite, Floor),
    Rule(FALSE, ReadWrite, Sensitive \cup {DataVolume})>>

\* legacyMacosProfile: everything, but for the sensitive directories, but for
\* the floor.
LegacyRules ==
  <<Rule(TRUE, ReadWrite, {}),
    Rule(FALSE, ReadWrite, Sensitive \cup {DataVolume}),
    Rule(TRUE, ReadWrite, Floor)>>

\* A path is asked for by its name once links are resolved, or by its alias on
\* the data volume.
Names(p) == {p, DataVolume \o p}

-----------------------------------------------------------------------------
(* wrapSpawn and the profile file.                                         *)

MacInit ==
  /\ profile = <<>>
  /\ process = "up" /\ swept = FALSE
  /\ tracked = {} /\ dir = [d \in Dirs |-> "free"] /\ mine = "none"

\* What rmSync leaves of the profile directories, if it can remove gone.
Without(gone) == [d \in Dirs |-> IF d \in gone THEN "free" ELSE dir[d]]

\* sweepStaleProfiles, once per process, removes what is a week old, as far as
\* that can be listed and removed.
Sweep(gone) ==
  /\ gone \subseteq {d \in Dirs : ~ swept /\ dir[d] = "old"}
  /\ dir' = Without(gone)

\* As WrapSpawn, had each process left the sweep to the one before it.
WrapUnswept(c, d, gone) ==
  /\ adapter = "macos" /\ phase = "idle" /\ process = "up"
  /\ config' = c /\ command' = d
  /\ profile' = SeatbeltRules(c, d)
  /\ phase' = IF c \in LargeConfigs THEN "large" ELSE "ready"
  /\ swept' = TRUE
  /\ UNCHANGED <<adapter, process, tracked, dir, mine>>

\* The sweep, the command, the profile; an inline profile is ready at once.
WrapSpawn(c, d, gone) ==
  /\ adapter = "macos" /\ phase = "idle" /\ process = "up"
  /\ config' = c /\ command' = d
  /\ profile' = SeatbeltRules(c, d)
  /\ phase' = IF c \in LargeConfigs THEN "large" ELSE "ready"
  /\ swept' = TRUE /\ Sweep(gone)
  /\ UNCHANGED <<adapter, process, tracked, mine>>

\* The desktop runs a command under the legacy profile, inline.
LegacySpawn(c) ==
  /\ adapter = "legacy" /\ phase = "idle"
  /\ config' = c /\ profile' = LegacyRules
  /\ phase' = "ready"
  /\ UNCHANGED <<adapter, command, fileVars, mine>>

\* mkdtemp makes a new directory.
MakeDir(d) ==
  /\ phase = "large" /\ process = "up" /\ dir[d] = "free"
  /\ dir' = [dir EXCEPT ![d] = "made"]
  /\ mine' = d /\ phase' = "dir"
  /\ UNCHANGED <<adapter, config, command, profile, process, swept, tracked>>

\* The file is created, written and closed; only then is the directory tracked.
WriteProfile ==
  /\ phase = "dir" /\ process = "up"
  /\ dir' = [dir EXCEPT ![mine] = "written"]
  /\ tracked' = tracked \cup {mine}
  /\ phase' = "ready"
  /\ UNCHANGED <<adapter, config, command, profile, process, swept, mine>>

\* An exception on the way: wrapSpawn throws, and the directory, if it was
\* made, is tracked by nobody.
WriteFails ==
  /\ phase \in {"large", "dir"} /\ process = "up"
  /\ phase' = "over"
  /\ UNCHANGED <<adapter, config, command, macVars>>

\* sandbox-exec reads the profile and applies it, or refuses to run.
SandboxExec ==
  /\ phase = "ready"
  /\ phase' = IF mine = "none" \/ dir[mine] = "written"
              THEN "running" ELSE "over"
  /\ UNCHANGED <<adapter, config, command, macVars>>

\* The process exits in order, and removes what it can of what it tracked, or
\* crashes.
Exit ==
  /\ process = "up" /\ process' = "down"
  /\ \E gone \in SUBSET tracked : dir' = Without(gone)
  /\ tracked' = {} /\ swept' = FALSE
  /\ phase' = IF phase \in {"large", "dir"} THEN "over" ELSE phase
  /\ UNCHANGED <<adapter, config, command, profile, mine>>

Restart ==
  /\ process = "down" /\ process' = "up"
  /\ UNCHANGED <<adapter, config, command, phase, profile, swept, tracked, dir, mine>>

\* A week goes by for a directory no spawn is about to write or read.
WeekPasses(d) ==
  /\ dir[d] \in {"made", "written"} /\ ~ (d = mine /\ phase \in {"dir", "ready"})
  /\ dir' = [dir EXCEPT ![d] = "old"]
  /\ UNCHANGED <<adapter, config, command, phase, profile, process, swept, tracked, mine>>

\* The spawn is over, and another can be wrapped.
NextSpawn ==
  /\ phase \in {"running", "over"} /\ adapter = "macos"
  /\ phase' = "idle" /\ mine' = "none" /\ profile' = <<>> /\ command' = <<>>
  /\ config' = [read |-> {}, write |-> {}, deny |-> {}]
  /\ UNCHANGED <<adapter, fileVars>>

MacNext ==
  \/ /\ phase = "idle"
     /\ \E c \in Configs :
          \/ LegacySpawn(c)
          \/ \E d \in CommandDirs \cup {<<>>}, gone \in SUBSET Dirs : WrapSpawn(c, d, gone)
  \/ \E d \in Dirs : MakeDir(d) \/ WeekPasses(d)
  \/ WriteProfile \/ WriteFails \/ SandboxExec \/ Exit \/ Restart \/ NextSpawn

=============================================================================
