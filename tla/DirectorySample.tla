-------------------------- MODULE DirectorySample --------------------------
(***************************************************************************)
(* sampleDirectoryBytes, the sampler of the disk watchdog: a synchronous   *)
(* recursive walk of the granted directory that adds up the sizes of the   *)
(* files it meets.  It blocks the event loop of the host and not the       *)
(* sandboxed writer, which goes on while the walk is under way.            *)
(*                                                                         *)
(* A directory is the path that leads to it, and so are the entries the    *)
(* walk keeps: what is at a path may not be what was there when it was     *)
(* listed.                                                                 *)
(***************************************************************************)
EXTENDS Naturals, FiniteSets, FiniteSetsExt

CONSTANTS
  Files,   \* names the writer uses
  Trails,  \* the paths of directories the system lets a writer make, the root's
  Root,    \*   among them
  UpTo,    \* trail |-> the trails above it, and itself
  MaxSize, \* bounds the size of a file
  Nowhere  \* the place of a file that does not exist

ASSUME PlacesAssumption == IsFiniteSet(Files) /\ Nowhere \notin Trails /\ MaxSize \in Nat

\* Trails are prefixes of one another as paths are, from the root on and a name
\* at a time.
ASSUME TrailsAssumption ==
  /\ Root \in Trails /\ UpTo \in [Trails -> SUBSET Trails]
  /\ \A t \in Trails :
       /\ {Root, t} \subseteq UpTo[t]
       /\ \A u \in UpTo[t] :
            /\ UpTo[u] \subseteq UpTo[t]
            /\ t \in UpTo[u] => u = t
            /\ u # t => \E c \in UpTo[t] : c # u /\ UpTo[c] = UpTo[u] \cup {c}
            /\ \A v \in UpTo[t] : u \in UpTo[v] \/ v \in UpTo[u]

VARIABLES
  tree,    \* the directories that exist
  place,   \* the directory of each file
  size,    \* its size
  walk,    \* "idle", "walking", "done" or "null"
  dirs,    \* directories that were listed, to be walked yet
  listing, \* files that were listed, with their directories, to be looked at yet
  total,   \* what the walk has added up
  first,   \* history: the real total when the walk began
  rewrote, \* history: a file was moved or deleted since
  skipped  \* history: an entry could not be read

treeVars == <<tree, place, size>>
walkVars == <<walk, dirs, listing, total>>
historyVars == <<first, rewrote, skipped>>
sampleVars == <<treeVars, walkVars, historyVars>>

RealTotal == MapThenSumSet(LAMBDA f : size[f], Files)

\* What a listing of d shows.
Children(d) == {c \in tree : c # d /\ UpTo[c] = UpTo[d] \cup {c}}
FilesIn(d) == {e \in Files \X {d} : place[e[1]] = d}

SampleInit ==
  /\ tree \in SUBSET Trails /\ Root \in tree /\ \A t \in tree : UpTo[t] \subseteq tree
  /\ place \in [Files -> tree \cup {Nowhere}]
  /\ size \in [Files -> 0..MaxSize]
  /\ \A f \in Files : place[f] = Nowhere => size[f] = 0
  /\ walk = "idle" /\ dirs = {} /\ listing = {}
  /\ total = 0 /\ first = 0 /\ rewrote = FALSE /\ skipped = FALSE

-----------------------------------------------------------------------------
(* The writer.  To rename a directory is to move what is in it.            *)

AppendTo(f) ==
  /\ place[f] # Nowhere /\ size[f] < MaxSize
  /\ size' = [size EXCEPT ![f] = @ + 1]
  /\ UNCHANGED <<tree, place, walkVars, historyVars>>

Create(f, d) ==
  /\ place[f] = Nowhere /\ d \in tree
  /\ place' = [place EXCEPT ![f] = d]
  /\ UNCHANGED <<tree, size, walkVars, historyVars>>

Move(f, d) ==
  /\ place[f] \notin {Nowhere, d} /\ d \in tree
  /\ place' = [place EXCEPT ![f] = d]
  /\ rewrote' = TRUE
  /\ UNCHANGED <<tree, size, walkVars, first, skipped>>

Delete(f) ==
  /\ place[f] # Nowhere
  /\ place' = [place EXCEPT ![f] = Nowhere]
  /\ size' = [size EXCEPT ![f] = 0]
  /\ rewrote' = TRUE
  /\ UNCHANGED <<tree, walkVars, first, skipped>>

MakeDir(d) ==
  /\ d \notin tree /\ UpTo[d] \ {d} \subseteq tree
  /\ tree' = tree \cup {d}
  /\ UNCHANGED <<place, size, walkVars, historyVars>>

RemoveDir(d) ==
  /\ d \in tree \ {Root} /\ \A f \in Files : place[f] # d
  /\ \A c \in tree : d \in UpTo[c] => c = d
  /\ tree' = tree \ {d}
  /\ UNCHANGED <<place, size, walkVars, historyVars>>

-----------------------------------------------------------------------------
(* The walk, which comes to what it has listed in any order: the code's is  *)
(* depth first.                                                            *)

\* readdirSync of the root answers, or throws and the sample is null.
ListRoot ==
  /\ walk = "idle"
  /\ \/ walk' = "walking" /\ dirs' = Children(Root) /\ listing' = FilesIn(Root)
     \/ walk' = "null" /\ dirs' = {} /\ listing' = {}
  /\ total' = 0
  /\ first' = RealTotal /\ rewrote' = FALSE /\ skipped' = FALSE
  /\ UNCHANGED treeVars

\* As ListDir, had the walk gone no further down.
ListDirFlat(d) ==
  /\ walk = "walking" /\ d \in dirs
  /\ dirs' = dirs \ {d}
  /\ listing' = listing \cup FilesIn(d)
  /\ UNCHANGED <<treeVars, walk, total, historyVars>>

\* Descend into a directory and list what is there by now; one that is not there
\* any more counts as empty.
ListDir(d) ==
  /\ walk = "walking" /\ d \in dirs
  /\ dirs' = (dirs \ {d}) \cup Children(d)
  /\ listing' = listing \cup FilesIn(d)
  /\ UNCHANGED <<treeVars, walk, total, historyVars>>

\* As StatFile, had a file that vanished been tried again.
StatFileRetries(e) ==
  /\ walk = "walking" /\ e \in listing
  /\ listing' = IF place[e[1]] = e[2] THEN listing \ {e} ELSE listing
  /\ total' = IF place[e[1]] = e[2] THEN total + size[e[1]] ELSE total
  /\ UNCHANGED <<treeVars, walk, dirs, historyVars>>

\* statSync of a file; one that vanished is skipped.
StatFile(e) ==
  /\ walk = "walking" /\ e \in listing
  /\ listing' = listing \ {e}
  /\ total' = IF place[e[1]] = e[2] THEN total + size[e[1]] ELSE total
  /\ UNCHANGED <<treeVars, walk, dirs, historyVars>>

\* An entry that is there and cannot be read is skipped as well.
Skip ==
  /\ walk = "walking" /\ skipped' = TRUE
  /\ \/ \E d \in dirs : dirs' = dirs \ {d} /\ UNCHANGED listing
     \/ \E e \in listing : listing' = listing \ {e} /\ UNCHANGED dirs
  /\ UNCHANGED <<treeVars, walk, total, first, rewrote>>

WalkEnds ==
  /\ walk = "walking" /\ listing = {} /\ dirs = {}
  /\ walk' = "done"
  /\ UNCHANGED <<treeVars, dirs, listing, total, historyVars>>

\* The watchdog has compared the sample; the next tick walks again.
NextTick ==
  /\ walk \in {"done", "null"}
  /\ walk' = "idle"
  /\ total' = 0 /\ first' = 0 /\ rewrote' = FALSE /\ skipped' = FALSE
  /\ UNCHANGED <<treeVars, dirs, listing>>

WalkStep ==
  \/ ListRoot \/ WalkEnds \/ NextTick
  \/ \E d \in dirs : ListDir(d)
  \/ \E e \in listing : StatFile(e)

SampleNext ==
  \/ \E f \in Files : AppendTo(f) \/ Delete(f)
  \/ \E f \in Files, d \in Trails : Create(f, d) \/ Move(f, d)
  \/ \E d \in Trails : MakeDir(d) \/ RemoveDir(d)
  \/ WalkStep \/ Skip

SampleSpec == SampleInit /\ [][SampleNext]_sampleVars

FairSampleSpec == SampleSpec /\ WF_sampleVars(WalkStep)

-----------------------------------------------------------------------------

\* Over a writer that creates and appends, in whatever directories it makes, and
\* neither moves nor deletes, a sample is at most what is there when the walk
\* ends and, if all of it could be read, at least what was there when it began:
\* no file is counted twice, or missed although it was there all along.
SampleBracketed ==
  walk = "done" /\ ~rewrote =>
    total <= RealTotal /\ (~skipped => first <= total)

\* A writer that nests directories ahead of the walk, or takes them away and
\* makes them again, can prolong it but not keep it going: the walk comes to a
\* path at most once, and the system makes paths only so long.
WalkEndsEventually == walk = "walking" ~> walk = "done"

=============================================================================
