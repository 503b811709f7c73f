---------------------------- MODULE KernelHardening ----------------------------
(***************************************************************************)
(* The enforcer: Landlock on the calling thread of the host, and seccomp   *)
(* filters, compiled into a descriptor that bwrap is to read.  What a      *)
(* filter lets through is libseccomp's.                                    *)
(***************************************************************************)
EXTENDS Naturals, FiniteSets

CONSTANTS
  Fds,       \* how many descriptors the host may have open, by number
  Places,    \* paths a Landlock ruleset may name
  Above,     \* place |-> the places it lies beneath, and itself
  Rulesets   \* records of sets of places: readOnly, readWrite

ASSUME AboveAssumption ==
  /\ Above \in [Places -> SUBSET Places]
  /\ \A p \in Places : /\ p \in Above[p]
                      /\ \A q \in Above[p] : Above[q] \subseteq Above[p]
ASSUME RulesetsAssumption == Rulesets \subseteq [readOnly : SUBSET Places, readWrite : SUBSET Places]

VARIABLES
  op,        \* what the host is at; "idle" between two calls
  abi,       \* of Landlock; 0 on a kernel without
  binding,   \* whether the seccomp binding loads
  kind,      \* what each place is: "dir", "file" or "missing"
  table,     \* descriptors: "free", "ruleset", "memfd" or "temp"
  rules,     \* of the ruleset being built: place |-> rights
  passed,    \* the places whose rule was passed over or went with them
  ruleset,   \* the one being applied
  left,      \* what is left of it to be added
  layers,    \* the rules of the rulesets in force on the thread
  applied    \* the result of the last call: "none", "applied" or "error"

hardVars == <<abi, binding, kind, table, rules, passed, ruleset, left, layers, applied>>

Rights == {"execute", "read", "write", "refer", "truncate"}
NoRules == [p \in Places |-> {}]
NoRuleset == [readOnly |-> {}, readWrite |-> {}]
Free == {f \in Fds : table[f] = "free"}
Lowest(S) == CHOOSE f \in S : \A g \in S : f <= g
Beneath(p) == {q \in Places : p \in Above[q]}
InDirs(p) == \A q \in Above[p] \ {p} : kind[q] = "dir"

HardInit ==
  /\ op = "idle" /\ abi \in 0..3 /\ binding \in BOOLEAN
  /\ kind \in [Places -> {"dir", "file", "missing"}]
  /\ \A p \in Places : kind[p] # "missing" => InDirs(p)
  /\ table = [f \in Fds |-> "free"]
  /\ rules = NoRules /\ passed = {} /\ ruleset = NoRuleset /\ left = NoRuleset
  /\ layers = {} /\ applied = "none"

-----------------------------------------------------------------------------
(* Landlock.                                                               *)

\* buildHandledAccessFlags; "read" and "write" stand for their families.
Handled ==
  {"execute", "read", "write"} \cup {r \in {"refer"} : abi >= 2}
                               \cup {r \in {"truncate"} : abi >= 3}

ReadAccess == {"execute", "read"}

\* As WriteAccess, had it not followed the ABI.
WriteAccessAll == Rights

WriteAccess ==
  ReadAccess \cup {"write"} \cup {r \in {"refer"} : abi >= 2}
                            \cup {r \in {"truncate"} : abi >= 3}

\* What the thread may still do: every layer has to give a right, by a rule on
\* the place or on one it lies beneath.  A right no ruleset of this ABI handles
\* stays; moving a file to another directory is denied before it can be handled.
Allowed ==
  [p \in Places |-> {r \in Rights : \A layer \in layers :
     r \in {"truncate"} \ Handled \/ \E q \in Above[p] : r \in layer[q]}]

\* applyKernelHardening asks whether Landlock is supported, and creates the
\* ruleset; a kernel out of descriptors is an error like every later one.
Harden(rs) ==
  /\ op = "idle" /\ abi >= 1
  /\ ruleset' = rs /\ left' = rs /\ rules' = NoRules /\ passed' = {}
  /\ IF Free = {} THEN /\ applied' = "error" /\ UNCHANGED <<op, table>>
     ELSE /\ table' = [table EXCEPT ![Lowest(Free)] = "ruleset"]
          /\ op' = "harden" /\ applied' = "none"
  /\ UNCHANGED <<abi, binding, kind, layers>>

Unsupported ==
  /\ op = "idle" /\ abi < 1
  /\ applied' = "none"
  /\ UNCHANGED <<op, abi, binding, kind, table, rules, passed, ruleset, left, layers>>

\* One rule, the read-only ones first.  A place that cannot be opened is passed
\* over, be it missing, out of reach or for want of a descriptor; the kernel
\* refuses directory rights on a file and rights it does not handle, and the
\* exception leaves the descriptor of the ruleset open.
AddRule(p, access, rest) ==
  /\ op = "harden"
  /\ left' = rest
  /\ \/ /\ passed' = passed \cup {p}
        /\ UNCHANGED <<op, rules, applied>>
     \/ /\ Free # {} /\ kind[p] = "dir" /\ access \subseteq Handled
        /\ rules' = [rules EXCEPT ![p] = @ \cup access]
        /\ UNCHANGED <<op, passed, applied>>
     \/ /\ Free # {} /\ kind[p] # "missing"
        /\ kind[p] = "file" \/ ~ access \subseteq Handled
        /\ op' = "idle" /\ applied' = "error"
        /\ UNCHANGED <<rules, passed>>
  /\ UNCHANGED <<abi, binding, kind, table, ruleset, layers>>

AddRead(p) ==
  /\ p \in left.readOnly
  /\ AddRule(p, ReadAccess, [left EXCEPT !.readOnly = @ \ {p}])

AddWrite(p) ==
  /\ p \in left.readWrite /\ left.readOnly = {}
  /\ AddRule(p, WriteAccess, [left EXCEPT !.readWrite = @ \ {p}])

Closed == [table EXCEPT ![CHOOSE f \in Fds : table[f] = "ruleset"] = "free"]

\* landlockRestrictSelf: the new rules hold on top of those in force; or the
\* kernel refuses; or new privileges cannot be given up, and then the
\* descriptor stays open.
RestrictSelf ==
  /\ op = "harden" /\ left = NoRuleset
  /\ op' = "idle"
  /\ \/ layers' = layers \cup {rules} /\ applied' = "applied" /\ table' = Closed
     \/ layers' = layers /\ applied' = "error" /\ table' \in {Closed, table}
  /\ UNCHANGED <<abi, binding, kind, rules, passed, ruleset, left>>

\* Another process makes a place while the ruleset is built, or takes it away
\* with all that lies beneath, and the rules on what was there with it.
PlaceMade(p) ==
  /\ op = "harden" /\ kind[p] = "missing" /\ InDirs(p)
  /\ \E k \in {"dir", "file"} : kind' = [kind EXCEPT ![p] = k]
  /\ UNCHANGED <<op, abi, binding, table, rules, passed, ruleset, left, layers, applied>>

PlaceGone(p) ==
  LET Left(on) == [q \in Places |-> IF q \in Beneath(p) THEN {} ELSE on[q]]
  IN /\ op = "harden" /\ kind[p] # "missing"
     /\ kind' = [q \in Places |-> IF q \in Beneath(p) THEN "missing" ELSE kind[q]]
     /\ rules' = Left(rules) /\ layers' = {Left(layer) : layer \in layers}
     /\ passed' = passed \cup Beneath(p)
     /\ UNCHANGED <<op, abi, binding, table, ruleset, left, applied>>

-----------------------------------------------------------------------------
(* seccomp.                                                                *)

\* What getSeccompFd can put into the table: a memfd, which is closed on exec,
\* or the file it falls back to, which is not.  0 stands for an exception.
Compiled ==
  IF ~ binding \/ Free = {} THEN {<<0, table>>}
  ELSE {<<Lowest(Free), [table EXCEPT ![Lowest(Free)] = k]>> : k \in {"memfd", "temp"}}
       \cup {<<0, table>>}

HardNext ==
  \/ \E rs \in Rulesets : Harden(rs)
  \/ Unsupported \/ RestrictSelf
  \/ \E p \in Places : AddRead(p) \/ AddWrite(p) \/ PlaceMade(p) \/ PlaceGone(p)

=============================================================================
