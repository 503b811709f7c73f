---------------------------- MODULE SpawnContract ----------------------------
(***************************************************************************)
(* What the host is promised of a sandboxed spawn, whoever crashes: it     *)
(* runs at most once and not after its release, and what it leaves on the  *)
(* machine is on record from before it comes into being until it is gone.  *)
(* One step of the system is a turn of every spawn, mostly an idle one.    *)
(***************************************************************************)

CONSTANT Spawns

VARIABLES
  phase,     \* "idle" before its program runs, "running", "over" after
  released,  \* the spawns the host has let go of
  record,    \* the spawns that are on record
  litter,    \* the spawns that have left something on the machine
  disowned   \* the spawns whose record nobody vouches for

contract == <<phase, released, record, litter, disowned>>

Init ==
  /\ phase = [s \in Spawns |-> "idle"]
  /\ released = {} /\ record = {} /\ litter = {}
  /\ disowned \in SUBSET Spawns

\* It starts once, on record and not released, and does not start again.
RunsOnce(s) ==
  \/ phase'[s] = phase[s]
  \/ /\ phase[s] = "idle" /\ phase'[s] = "running"
     /\ s \notin released
     /\ s \in record \cup disowned
  \/ phase'[s] = "over"

\* A release is for good, and ends it.
StaysReleased(s) ==
  /\ s \in released => s \in released'
  /\ s \in released' => phase'[s] = "over"

\* It litters only before it runs and on record; both are undone only after it
\* has run, the litter first.
LittersOnRecord(s) ==
  /\ s \in litter' /\ s \notin litter => phase[s] = "idle" /\ s \in record
  /\ s \in litter /\ s \notin litter' => phase[s] = "over"
  /\ s \in record' /\ s \notin record => phase[s] = "idle" /\ s \notin litter
  /\ s \in record /\ s \notin record' => phase[s] = "over" /\ s \notin litter'

Turn(s) ==
  /\ RunsOnce(s)
  /\ StaysReleased(s)
  /\ s \in disowned => s \in disowned'
  /\ s \in disowned' \/ LittersOnRecord(s)

Next == \A s \in Spawns : Turn(s)

Spec == Init /\ [][Next]_contract

=============================================================================
