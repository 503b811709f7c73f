-------------------------- MODULE SandboxHost_proofs --------------------------
(* Proofs about SandboxHost: for any requests, hosts, faults, places and    *)
(* rulesets.                                                                *)
EXTENDS SandboxHost, TLAPS

-----------------------------------------------------------------------------
(* Confinement in mode "native".                                           *)

\* A yes comes from a control that works, and stays; an adapter of its own has
\* proved what it needs.
VerdictsEarned ==
  /\ verdict \in [Controls -> {"none", "yes", "no"}]
  /\ \A c \in Controls \ {"rlimit"} : verdict[c] = "yes" => c \in works

AdapterEarned ==
  /\ platform \in {"linux", "macos", "windows"}
  /\ adapter \in {"none", "refused", "passthrough", platform}
  /\ mode = "native" => adapter # "passthrough"
  /\ adapter = "windows" => {"addon", "handshake", "killTree"} \subseteq works

NInv == VerdictsEarned /\ AdapterEarned /\ NativeIsConfined

\* Asking keeps every verdict there is, and adds none that is not earned.
LEMMA AskEarns ==
  ASSUME VerdictsEarned, Ask, works' = works
  PROVE  /\ VerdictsEarned'
         /\ \A c \in Controls : verdict[c] # "none" => verdict'[c] = verdict[c]
<1> DEFINE c == Head(need)
           v == IF verdict[c] # "none" THEN verdict[c] ELSE IF Acts(c) THEN "yes" ELSE "no"
<1>1. verdict' = [verdict EXCEPT ![c] = v]
  BY DEF Ask
<1>2. CASE c \in Controls
  <2>1. v \in {"none", "yes", "no"}
    BY <1>2 DEF VerdictsEarned
  <2>2. c # "rlimit" /\ v = "yes" => c \in works
    BY <1>2 DEF VerdictsEarned, Acts
  <2>3. QED
    BY <1>1, <1>2, <2>1, <2>2 DEF VerdictsEarned
<1>3. CASE c \notin Controls
  BY <1>1, <1>3 DEF VerdictsEarned
<1>4. QED
  BY <1>2, <1>3

\* On Windows what detection needs is proved control by control.
LEMMA WindowsNeeds ==
  ASSUME VerdictsEarned, platform = "windows", Proved(Needed)
  PROVE  {"addon", "handshake", "killTree"} \subseteq works
<1>1. Needed = <<"addon", "handshake", "killTree">>
  BY DEF Needed, Posix
<1>2. verdict["addon"] = "yes" /\ verdict["handshake"] = "yes" /\ verdict["killTree"] = "yes"
  BY <1>1 DEF Proved
<1>3. QED
  BY <1>2 DEF VerdictsEarned, Controls

\* And the two a spawn asks for itself.
LEMMA WindowsSpawnNeeds ==
  ASSUME VerdictsEarned, platform = "windows", Proved(SpawnNeeds(request))
  PROVE  "fs" \in works /\ (request.network \/ "net" \in works)
<1>1. CASE request.network
  <2>1. SpawnNeeds(request) = <<"fs">> \o <<>>
    BY <1>1 DEF SpawnNeeds, Posix
  <2>2. verdict["fs"] = "yes"
    BY <2>1 DEF Proved
  <2>3. QED
    BY <1>1, <2>2 DEF VerdictsEarned, Controls
<1>2. CASE ~ request.network
  <2>1. SpawnNeeds(request) = <<"fs">> \o <<"net">>
    BY <1>2 DEF SpawnNeeds, Posix
  <2>2. verdict["fs"] = "yes" /\ verdict["net"] = "yes"
    BY <2>1 DEF Proved
  <2>3. QED
    BY <2>2 DEF VerdictsEarned, Controls
<1>3. QED
  BY <1>1, <1>2

\* The steps that are neither a question, a selection nor a spawn.
LEMMA OthersKeep ==
  ASSUME NInv, UNCHANGED <<platform, mode, works, verdict, adapter, request, spec>>
  PROVE  NInv'
BY DEF NInv, VerdictsEarned, AdapterEarned, NativeIsConfined, Posix

\* Verdicts are earned, and the adapter stands on them, after every probe, detection,
\* report and wrap of a process.
THEOREM NativeInvariance == Spec => []NInv
<1>1. Init => NInv
  BY DEF Init, NInv, VerdictsEarned, AdapterEarned, NativeIsConfined, Controls, NoSpec
<1>2. NInv /\ [Next]_vars => NInv'
  <2> SUFFICES ASSUME NInv, [Next]_vars PROVE NInv'
    OBVIOUS
  <2> USE DEF Lasting, Weather, hardVars
  <2>1. CASE Ask /\ UNCHANGED <<Lasting, Weather, hardVars>>
    <3>1. VerdictsEarned'
      BY <2>1, AskEarns DEF NInv
    <3>2. QED
      BY <2>1, <3>1 DEF NInv, AdapterEarned, NativeIsConfined, Ask, Posix
  <2>2. CASE Detect /\ UNCHANGED <<Lasting, Weather, hardVars>>
    BY <2>2, OthersKeep DEF Detect
  <2>3. CASE Detected /\ UNCHANGED <<Lasting, Weather, hardVars>>
    <3>1. VerdictsEarned' /\ NativeIsConfined'
      BY <2>3 DEF Detected, NInv, VerdictsEarned, NativeIsConfined, Posix
    <3>2. AdapterEarned'
      BY <2>3, WindowsNeeds DEF Detected, NInv, AdapterEarned
    <3>3. QED
      BY <3>1, <3>2 DEF NInv
  <2>4. CASE Capabilities /\ UNCHANGED <<Lasting, Weather, hardVars>>
    BY <2>4, OthersKeep DEF Capabilities
  <2>5. CASE ReportDone /\ UNCHANGED <<Lasting, Weather, hardVars>>
    BY <2>5, OthersKeep DEF ReportDone
  <2>6. CASE Spawn /\ UNCHANGED <<Lasting, Weather, hardVars>>
    <3>1. VerdictsEarned' /\ AdapterEarned'
      BY <2>6 DEF Spawn, NInv, VerdictsEarned, AdapterEarned
    <3>2. spec'.confined = spec.confined
      BY <2>6 DEF Spawn
    <3>3. QED
      BY <2>6, <3>1, <3>2 DEF Spawn, NInv, NativeIsConfined, Posix
  <2>7. CASE (\E r \in Requests : Wrap(r)) /\ UNCHANGED <<Lasting, Weather, hardVars>>
    BY <2>7 DEF Wrap, NoSpec, NInv, VerdictsEarned, AdapterEarned, NativeIsConfined
  <2>8. CASE WrapPassthrough /\ UNCHANGED <<Lasting, Weather>>
    BY <2>8 DEF WrapPassthrough, NInv, VerdictsEarned, AdapterEarned, NativeIsConfined
  <2>9. CASE WrapPosix /\ UNCHANGED <<Lasting, Weather>>
    <3>1. VerdictsEarned' /\ AdapterEarned' /\ Posix'
      BY <2>9 DEF WrapPosix, NInv, VerdictsEarned, AdapterEarned, Posix
    <3>2. spec'.state \in {"none", "refused"} \/ spec'.confined
      <4>1. PICK c : spec' = IF verdict["rlimit"] = "yes" /\ ~ Valid(Wanted(request, adapter = "linux"))
                             THEN [state |-> "refused"]
                             ELSE [Plain EXCEPT !.wrapped = verdict["rlimit"] = "yes", !.fd = c[1]]
        BY <2>9 DEF WrapPosix
      <4>2. Plain.confined = (adapter # "passthrough") /\ adapter # "passthrough"
        BY <2>9 DEF WrapPosix, Plain
      <4>3. [Plain EXCEPT !.wrapped = verdict["rlimit"] = "yes", !.fd = c[1]].confined = Plain.confined
        BY DEF Plain
      <4>4. QED
        BY <4>1, <4>2, <4>3
    <3>3. QED
      BY <3>1, <3>2 DEF NInv, NativeIsConfined
  <2>10. CASE WrapWindows /\ UNCHANGED <<Lasting, Weather>>
    <3>1. VerdictsEarned' /\ AdapterEarned'
      BY <2>10 DEF WrapWindows, NInv, VerdictsEarned, AdapterEarned
    <3>2. CASE Proved(SpawnNeeds(request)) /\ (request.network \/ ~ request.loopback)
      <4>1. platform = "windows" /\ {"addon", "handshake", "killTree"} \subseteq works
        BY <2>10 DEF WrapWindows, NInv, AdapterEarned
      <4>2. "fs" \in works /\ (request.network \/ "net" \in works)
        BY <4>1, <3>2, WindowsSpawnNeeds DEF NInv
      <4>3. spec'.confined
        BY <2>10, <3>2 DEF WrapWindows, Plain
      <4>4. QED
        BY <2>10, <3>1, <3>2, <4>1, <4>2, <4>3 DEF WrapWindows, NInv, NativeIsConfined
    <3>3. CASE ~ (Proved(SpawnNeeds(request)) /\ (request.network \/ ~ request.loopback))
      <4>1. spec'.state = "refused"
        BY <2>10, <3>3 DEF WrapWindows
      <4>2. QED
        BY <3>1, <4>1 DEF NInv, NativeIsConfined
    <3>4. QED
      BY <3>2, <3>3
  <2>11. CASE HardNext /\ UNCHANGED <<Lasting, Weather, verdict, need, adapter, report, request, spec>>
    BY <2>11, OthersKeep
  <2>12. CASE (Fault \/ FaultPasses) /\ UNCHANGED <<Lasting, hardVars>>
    BY <2>12, OthersKeep DEF Fault, FaultPasses, hostVars
  <2>13. CASE UNCHANGED vars
    BY <2>13, OthersKeep DEF vars
  <2>14. QED
    BY <2>1, <2>2, <2>3, <2>4, <2>5, <2>6, <2>7, <2>8, <2>9, <2>10, <2>11, <2>12, <2>13
    DEF Next
<1>3. QED
  BY <1>1, <1>2, PTL DEF Spec

\* A host in mode "native" gets no unconfined spawn, and on Windows none whose
\* isolation was not proved, whatever faults come and whenever it detects.
THEOREM Confinement == Spec => []NativeIsConfined
BY NativeInvariance, PTL DEF NInv

-----------------------------------------------------------------------------
(* Kernel hardening.                                                       *)

\* While a ruleset is built, its rules come from the ruleset asked for, and every
\* place done with has its own, unless that was passed over or went with it.
RulesAsked ==
  /\ rules \in [Places -> SUBSET Rights]
  /\ left \in [readOnly : SUBSET Places, readWrite : SUBSET Places]
  /\ left.readOnly \subseteq ruleset.readOnly /\ left.readWrite \subseteq ruleset.readWrite
  /\ \A p \in Places :
       /\ "write" \in rules[p] => p \in ruleset.readWrite
       /\ "read" \in rules[p] => p \in ruleset.readOnly \cup ruleset.readWrite
  /\ op = "harden" => \A p \in Places \ passed :
       /\ p \in ruleset.readOnly \ left.readOnly => ReadAccess \subseteq rules[p]
       /\ p \in ruleset.readWrite \ left.readWrite => WriteAccess \subseteq rules[p]

\* The rights of either kind of rule are among those the ruleset handles.
LEMMA AccessHandled ==
  /\ ReadAccess \subseteq Handled /\ WriteAccess \subseteq Handled /\ Handled \subseteq Rights
  /\ "write" \notin ReadAccess
BY DEF ReadAccess, WriteAccess, Handled, Rights

\* The rights depend on the ABI alone.
LEMMA SameAccess ==
  ASSUME abi' = abi
  PROVE  Handled' = Handled /\ WriteAccess' = WriteAccess /\ ReadAccess' = ReadAccess
BY DEF ReadAccess, WriteAccess, Handled

\* A read-only rule (landlock.ts) asks for nothing but reading.
LEMMA AddReadKeeps ==
  ASSUME RulesAsked, NEW p \in Places, AddRead(p)
  PROVE  RulesAsked'
<1>1. /\ left' = [left EXCEPT !.readOnly = @ \ {p}] /\ ruleset' = ruleset /\ abi' = abi
      /\ op = "harden"
  BY DEF AddRead, AddRule
<1>2. \/ rules' = rules /\ passed' = passed \cup {p}
      \/ rules' = [rules EXCEPT ![p] = @ \cup ReadAccess] /\ passed' = passed
      \/ rules' = rules /\ op' = "idle"
  BY DEF AddRead, AddRule
<1>3. p \in ruleset.readOnly
  BY DEF AddRead, RulesAsked
<1>4. QED
  BY <1>1, <1>2, <1>3, AccessHandled, SameAccess DEF RulesAsked

\* A read-write rule is added for a place that was asked for.
LEMMA AddWriteKeeps ==
  ASSUME RulesAsked, NEW p \in Places, AddWrite(p)
  PROVE  RulesAsked'
<1>1. /\ left' = [left EXCEPT !.readWrite = @ \ {p}] /\ ruleset' = ruleset /\ abi' = abi
      /\ op = "harden"
  BY DEF AddWrite, AddRule
<1>2. \/ rules' = rules /\ passed' = passed \cup {p}
      \/ rules' = [rules EXCEPT ![p] = @ \cup WriteAccess] /\ passed' = passed
      \/ rules' = rules /\ op' = "idle"
  BY DEF AddWrite, AddRule
<1>3. p \in ruleset.readWrite
  BY DEF AddWrite, RulesAsked
<1>4. QED
  BY <1>1, <1>2, <1>3, AccessHandled, SameAccess DEF RulesAsked

\* What goes takes its rules along, and is passed over from then on.
LEMMA GoneKeeps ==
  ASSUME RulesAsked, NEW p \in Places, PlaceGone(p)
  PROVE  RulesAsked'
<1>1. /\ rules' = [q \in Places |-> IF q \in Beneath(p) THEN {} ELSE rules[q]]
      /\ passed' = passed \cup Beneath(p)
      /\ UNCHANGED <<op, abi, left, ruleset>>
  BY DEF PlaceGone
<1>2. QED
  BY <1>1, SameAccess DEF RulesAsked

\* Nothing else touches the rules, and none of it starts to build a ruleset.
LEMMA OthersBuild ==
  ASSUME RulesAsked, UNCHANGED <<abi, rules, passed, ruleset, left>>,
         op' = "harden" => op = "harden"
  PROVE  RulesAsked'
BY SameAccess DEF RulesAsked

\* The rules of a Landlock ruleset never exceed the config they are made from,
\* nor fall short of it but for the places passed over.
THEOREM RulesInvariance == Spec => []RulesAsked
<1>1. Init => RulesAsked
  BY DEF Init, HardInit, RulesAsked, NoRules, NoRuleset, Rights
<1>2. RulesAsked /\ [Next]_vars => RulesAsked'
  <2> SUFFICES ASSUME RulesAsked, [Next]_vars PROVE RulesAsked'
    OBVIOUS
  <2>1. ASSUME NEW rs \in Rulesets, Harden(rs) PROVE RulesAsked'
    BY <2>1, RulesetsAssumption DEF Harden, RulesAsked, NoRules, Rights
  <2>2. ASSUME NEW p \in Places, AddRead(p) PROVE RulesAsked'
    BY <2>2, AddReadKeeps
  <2>3. ASSUME NEW p \in Places, AddWrite(p) PROVE RulesAsked'
    BY <2>3, AddWriteKeeps
  <2>4. ASSUME NEW p \in Places, PlaceGone(p) PROVE RulesAsked'
    BY <2>4, GoneKeeps
  <2>5. CASE Unsupported \/ RestrictSelf \/ \E p \in Places : PlaceMade(p)
    BY <2>5, OthersBuild DEF Unsupported, RestrictSelf, PlaceMade
  <2>6. CASE WrapPassthrough \/ WrapPosix \/ WrapWindows
    BY <2>6, OthersBuild DEF WrapPassthrough, WrapPosix, WrapWindows, hardVars
  <2>7. CASE /\ UNCHANGED hardVars
             /\ \/ Ask \/ Detect \/ Detected \/ Capabilities \/ ReportDone \/ Spawn
                \/ \E r \in Requests : Wrap(r)
    <3>1. op' = "harden" => op = "harden"
      BY <2>7 DEF Ask, Detect, Detected, Capabilities, ReportDone, Spawn, Wrap
    <3>2. QED
      BY <2>7, <3>1, OthersBuild DEF hardVars
  <2>8. CASE (Fault \/ FaultPasses) /\ UNCHANGED hardVars
    BY <2>8, OthersBuild DEF Fault, FaultPasses, hostVars, hardVars
  <2>9. CASE UNCHANGED vars
    BY <2>9, OthersBuild DEF vars, hardVars
  <2>10. QED
    BY <2>1, <2>2, <2>3, <2>4, <2>5, <2>6, <2>7, <2>8, <2>9 DEF Next, HardNext
<1>3. QED
  BY <1>1, <1>2, PTL DEF Spec

\* What another layer leaves of a thread's rights: those its rules give at a
\* place or above it, and those it has no say in.
LEMMA LayerLeaves ==
  ASSUME RestrictSelf, layers' = layers \cup {rules}, NEW p \in Places
  PROVE  Allowed'[p] = {r \in Allowed[p] : \/ r \in {"truncate"} \ Handled
                                         \/ \E q \in Above[p] : r \in rules[q]}
<1>1. Handled' = Handled
  BY SameAccess DEF RestrictSelf
<1>2. QED
  BY <1>1 DEF Allowed

\* Whatever places come and go while a ruleset is built, whatever cannot be
\* opened and whichever call fails, applyKernelHardening does what it says, for
\* any ruleset and any nesting of its places.
THEOREM HardeningTold == Spec => HardensAsAsked
<1> DEFINE Told ==
      op = "harden" /\ op' = "idle" =>
       /\ IF applied' = "applied"
          THEN \A p \in Places :
                 LET asks(paths) == Above[p] \cap paths # {}
                     sure(paths) == (Above[p] \cap paths) \ passed # {}
                 IN /\ Allowed'[p] \subseteq Allowed[p]
                    /\ "write" \in Allowed'[p] => asks(ruleset.readWrite)
                    /\ "read" \in Allowed'[p] => asks(ruleset.readOnly \cup ruleset.readWrite)
                    /\ sure(ruleset.readOnly) => Allowed[p] \cap {"read", "execute"} \subseteq Allowed'[p]
                    /\ sure(ruleset.readWrite) => Allowed[p] \ {"refer"} \subseteq Allowed'[p]
          ELSE Allowed' = Allowed
       /\ applied' = "error" /\ left # NoRuleset => \E p \in Places : kind[p] = "file"
<1>1. RulesAsked /\ [Next]_vars => [Told]_vars
  <2> SUFFICES ASSUME RulesAsked, [Next]_vars, op = "harden", op' = "idle" PROVE Told
    OBVIOUS
  <2> HIDE DEF Told
  <2>1. RestrictSelf \/ \E p \in Places : AddRead(p) \/ AddWrite(p)
    BY DEF Next, HardNext, Ask, Detect, Detected, Capabilities, ReportDone, Spawn, Wrap,
           WrapPassthrough, WrapPosix, WrapWindows, Fault, FaultPasses, hostVars, vars,
           Harden, Unsupported, PlaceMade, PlaceGone
  <2>2. ASSUME abi' = abi, layers' = layers PROVE Allowed' = Allowed
    BY <2>2, SameAccess DEF Allowed
  <2>3. CASE RestrictSelf
    <3>1. left = NoRuleset /\ abi' = abi
      BY <2>3 DEF RestrictSelf
    <3>2. CASE layers' = layers /\ applied' = "error"
      BY <2>2, <3>1, <3>2 DEF Told
    <3>3. CASE layers' = layers \cup {rules} /\ applied' = "applied"
      <4>1. ASSUME NEW p \in Places
            PROVE  /\ Allowed'[p] \subseteq Allowed[p]
                   /\ "write" \in Allowed'[p] => Above[p] \cap ruleset.readWrite # {}
                   /\ "read" \in Allowed'[p] =>
                        Above[p] \cap (ruleset.readOnly \cup ruleset.readWrite) # {}
                   /\ (Above[p] \cap ruleset.readOnly) \ passed # {} =>
                        Allowed[p] \cap {"read", "execute"} \subseteq Allowed'[p]
                   /\ (Above[p] \cap ruleset.readWrite) \ passed # {} =>
                        Allowed[p] \ {"refer"} \subseteq Allowed'[p]
        <5>1. Allowed'[p] = {r \in Allowed[p] : \/ r \in {"truncate"} \ Handled
                                              \/ \E q \in Above[p] : r \in rules[q]}
          BY <2>3, <3>3, LayerLeaves
        <5>2. Above[p] \subseteq Places /\ Allowed[p] \subseteq Rights
          BY AboveAssumption DEF Allowed
        <5>3. \A q \in Above[p] :
                /\ "write" \in rules[q] => q \in ruleset.readWrite
                /\ "read" \in rules[q] => q \in ruleset.readOnly \cup ruleset.readWrite
          BY <5>2 DEF RulesAsked
        <5>4. \A q \in Above[p] \ passed :
                /\ q \in ruleset.readOnly => ReadAccess \subseteq rules[q]
                /\ q \in ruleset.readWrite => WriteAccess \subseteq rules[q]
          BY <3>1, <5>2 DEF RulesAsked, NoRuleset
        <5>5. Rights \ {"refer"} \subseteq WriteAccess \cup ({"truncate"} \ Handled)
          BY DEF Rights, WriteAccess, ReadAccess, Handled
        <5>6. ASSUME (Above[p] \cap ruleset.readOnly) \ passed # {}
              PROVE  Allowed[p] \cap {"read", "execute"} \subseteq Allowed'[p]
          BY <5>1, <5>4, <5>6 DEF ReadAccess
        <5>7. ASSUME (Above[p] \cap ruleset.readWrite) \ passed # {}
              PROVE  Allowed[p] \ {"refer"} \subseteq Allowed'[p]
          BY <5>1, <5>2, <5>4, <5>5, <5>7
        <5>8. QED
          BY <5>1, <5>3, <5>6, <5>7
      <4>2. QED
        BY <3>1, <3>3, <4>1 DEF Told
    <3>4. QED
      BY <2>3, <3>2, <3>3 DEF RestrictSelf
  <2>4. ASSUME NEW p \in Places, AddRead(p) \/ AddWrite(p) PROVE Told
    <3>1. applied' = "error" /\ abi' = abi /\ layers' = layers /\ kind[p] = "file"
      BY <2>4, AccessHandled DEF AddRead, AddWrite, AddRule
    <3>2. QED
      BY <2>2, <3>1 DEF Told
  <2>5. QED
    BY <2>1, <2>3, <2>4 DEF Told
<1>2. QED
  BY <1>1, RulesInvariance, PTL DEF Spec, HardensAsAsked

-----------------------------------------------------------------------------
(* Reports and spawns.                                                     *)

InNeed(c) == \E j \in 1..Len(need) : need[j] = c
Refuted(c) == verdict[c] = "no"
Refusal == \E i \in DOMAIN Needed : Refuted(Needed[i])

\* What the call under way still has to ask, and what it has heard so far.
QuestionsKept ==
  /\ need \in Seq(Controls)
  /\ op = "detect" =>
       IF mode = "off" THEN need = <<>>
       ELSE /\ \A c \in Controls : InNeed(c) => \E i \in DOMAIN Needed : Needed[i] = c
            /\ Refusal \/ \A i \in DOMAIN Needed :
                            verdict[Needed[i]] = "yes" \/ InNeed(Needed[i])
  /\ op = "report" /\ adapter # "passthrough" =>
       \A c \in Controls : (\E i \in DOMAIN Reported : Reported[i] = c)
         => verdict[c] # "none" \/ InNeed(c)
  /\ op = "wrap" => spec = NoSpec
  /\ op = "wrap" /\ adapter # "passthrough" /\ Posix =>
       /\ verdict["rlimit"] # "none" \/ InNeed("rlimit")
       /\ \A c \in Controls : InNeed(c) => c = "rlimit"

\* An adapter is selected once: what decided it are verdicts that stay.
AdapterDecided ==
  /\ adapter = platform => mode # "off" /\ Proved(Needed)
  /\ adapter \in {"refused", "passthrough"} => mode = "off" \/ Refusal
  /\ adapter = "refused" => mode = "native"
  /\ op \in {"report", "wrap"} => Selected

ReportHeard ==
  report # NoReport =>
    /\ Selected
    /\ adapter = "passthrough" =>
         report = [by |-> "passthrough", rlimits |-> FALSE, killTree |-> FALSE,
                   memory |-> FALSE, fs |-> FALSE, net |-> FALSE]
    /\ adapter # "passthrough" =>
         IF Posix THEN /\ verdict["rlimit"] # "none"
                       /\ report.rlimits = (verdict["rlimit"] = "yes")
                       /\ report.fs /\ report.net
         ELSE /\ verdict["fs"] # "none" /\ verdict["net"] # "none"
              /\ verdict["fs"] = "yes" => report.fs
              /\ verdict["net"] = "yes" => report.net

SpawnHeard ==
  spec.state \notin {"none", "refused"} =>
    /\ Selected
    /\ adapter = "passthrough" => spec.confined = FALSE /\ spec.wrapped = FALSE
    /\ adapter # "passthrough" =>
         /\ spec.confined = TRUE
         /\ IF Posix THEN /\ verdict["rlimit"] # "none"
                          /\ spec.wrapped = (verdict["rlimit"] = "yes")
            ELSE verdict["fs"] = "yes" /\ (request.network \/ verdict["net"] = "yes")

Heard == QuestionsKept /\ AdapterDecided /\ ReportHeard /\ SpawnHeard

\* The controls the sequences name.
LEMMA Names ==
  /\ \A i \in DOMAIN Needed : Needed[i] \in Controls
  /\ \A i \in DOMAIN Reported : Reported[i] \in Controls
  /\ Needed \in Seq(Controls) /\ Reported \in Seq(Controls)
  /\ Posix => \E i \in DOMAIN Reported : Reported[i] = "rlimit"
  /\ ~ Posix => /\ \E i \in DOMAIN Reported : Reported[i] = "fs"
                /\ \E i \in DOMAIN Reported : Reported[i] = "net"
<1>1. CASE Posix
  <2>1. Needed = <<"tool">> /\ Reported = <<"rlimit", "killTree", "memory">>
    BY <1>1 DEF Needed, Reported
  <2>2. QED
    BY <1>1, <2>1 DEF Controls
<1>2. CASE ~ Posix
  <2>1. Needed = <<"addon", "handshake", "killTree">>
        /\ Reported = <<"killTree", "memory", "fs", "net">>
    BY <1>2 DEF Needed, Reported
  <2>2. Reported[3] = "fs" /\ Reported[4] = "net" /\ DOMAIN Reported = 1..4
    BY <2>1
  <2>3. QED
    BY <1>2, <2>1, <2>2 DEF Controls
<1>3. QED
  BY <1>1, <1>2

\* A question goes only with its answer; but for a report, the rest with a no.
LEMMA AskHears ==
  ASSUME VerdictsEarned, need \in Seq(Controls), Ask, works' = works
  PROVE  /\ need' \in Seq(Controls)
         /\ \A c \in Controls : verdict[c] # "none" => verdict'[c] = verdict[c]
         /\ \A c \in Controls : InNeed(c)' => InNeed(c)
         /\ \A c \in Controls : InNeed(c) =>
              \/ InNeed(c)' \/ verdict'[c] = "yes"
              \/ op = "report" /\ verdict'[c] = "no"
              \/ \E d \in Controls : InNeed(d) /\ verdict'[d] = "no" /\ op # "report"
<1> DEFINE h == Head(need)
           v == IF verdict[h] # "none" THEN verdict[h] ELSE IF Acts(h) THEN "yes" ELSE "no"
<1>1. verdict' = [verdict EXCEPT ![h] = v]
      /\ need' = IF v = "no" /\ op # "report" THEN <<>> ELSE Tail(need)
  BY DEF Ask
<1>2. need # <<>> /\ h \in Controls /\ h = need[1] /\ Len(need) \in Nat /\ 1 \in 1..Len(need)
  BY DEF Ask
<1>3. v \in {"yes", "no"} /\ verdict'[h] = v
  BY <1>1, <1>2 DEF VerdictsEarned
<1>4. InNeed(h)
  BY <1>2 DEF InNeed
<1> HIDE DEF h, v
<1>5. CASE v = "no" /\ op # "report"
  <2>1. need' = <<>>
    BY <1>1, <1>5
  <2>2. need' \in Seq(Controls) /\ \A c \in Controls : ~ InNeed(c)'
    BY <2>1 DEF InNeed
  <2>3. QED
    BY <1>2, <1>3, <1>4, <1>5, <2>2, AskEarns
<1>6. CASE ~ (v = "no" /\ op # "report")
  <2>1. need' = Tail(need)
    BY <1>1, <1>6
  <2>2. /\ need' \in Seq(Controls) /\ Len(need') = Len(need) - 1
        /\ \A j \in 1..Len(need') : need'[j] = need[j + 1]
    BY <1>2, <2>1
  <2>3. \A c \in Controls : InNeed(c)' => InNeed(c)
    BY <1>2, <2>2 DEF InNeed
  <2>4. ASSUME NEW c \in Controls, InNeed(c), c # h
        PROVE  InNeed(c)'
    <3>1. PICK j \in 1..Len(need) : need[j] = c
      BY <2>4 DEF InNeed
    <3>2. j # 1 /\ j - 1 \in 1..Len(need') /\ need'[j - 1] = need[(j - 1) + 1]
      BY <1>2, <2>2, <2>4, <3>1
    <3>3. need'[j - 1] = c
      BY <3>1, <3>2
    <3>4. QED
      BY <3>2, <3>3 DEF InNeed
  <2>5. QED
    BY <1>2, <1>3, <1>6, <2>2, <2>3, <2>4, AskEarns
<1>7. QED
  BY <1>5, <1>6

\* Verdicts that stay keep what was decided and heard.
LEMMA VerdictsStay ==
  ASSUME AdapterDecided, ReportHeard, SpawnHeard, AdapterEarned,
         UNCHANGED <<platform, mode, adapter, report, request, spec, op>>,
         \A c \in Controls : verdict[c] # "none" => verdict'[c] = verdict[c]
  PROVE  AdapterDecided' /\ ReportHeard' /\ SpawnHeard'
<1>1. Posix' = Posix /\ Needed' = Needed /\ Selected' = Selected
  BY DEF Posix, Needed, Selected
<1>2. Proved(Needed) => Proved(Needed)'
  BY <1>1, Names DEF Proved
<1>3. Refusal => Refusal'
  BY <1>1, Names DEF Refusal, Refuted
<1>4. AdapterDecided'
  BY <1>1, <1>2, <1>3 DEF AdapterDecided
<1>5. verdict["rlimit"] # "none" => verdict'["rlimit"] = verdict["rlimit"]
  BY DEF Controls
<1>6. /\ verdict["fs"] # "none" => verdict'["fs"] = verdict["fs"]
      /\ verdict["net"] # "none" => verdict'["net"] = verdict["net"]
  BY DEF Controls
<1>7. SpawnHeard'
  BY <1>1, <1>5, <1>6 DEF SpawnHeard
<1>8. ReportHeard'
  BY <1>1, <1>5, <1>6 DEF ReportHeard
<1>9. QED
  BY <1>4, <1>7, <1>8

\* Detection selects by verdicts that stay; the adapter it finds is the one it
\* found before.
LEMMA DetectedHears ==
  ASSUME Heard, AdapterEarned, VerdictsEarned, Detected,
         UNCHANGED <<platform, mode, works>>
  PROVE  Heard'
<1>1. Posix' = Posix /\ Needed' = Needed /\ verdict' = verdict
  BY DEF Posix, Needed, Detected
<1>2. \A c : ~ InNeed(c)
  BY DEF Detected, InNeed
<1>3. mode = "off" \/ Refusal \/ Proved(Needed)
  BY <1>2 DEF Heard, QuestionsKept, Detected, Proved
<1>4. ~ (Refusal /\ Proved(Needed))
  BY DEF Refusal, Refuted, Proved
<1>5. AdapterDecided'
  BY <1>1, <1>3, <1>4 DEF Detected, AdapterDecided, Selected, Refusal, Refuted, Proved,
                          AdapterEarned
<1>6. adapter \in {"none", adapter'}
  <2>1. CASE adapter = platform
    BY <1>4, <2>1 DEF Detected, Heard, AdapterDecided
  <2>2. CASE adapter \in {"refused", "passthrough"}
    BY <1>4, <2>2 DEF Detected, Heard, AdapterDecided, AdapterEarned
  <2>3. QED
    BY <2>1, <2>2 DEF AdapterEarned
<1>7. ReportHeard' /\ SpawnHeard'
  BY <1>1, <1>6 DEF Detected, Heard, ReportHeard, SpawnHeard, Selected
<1>8. QuestionsKept'
  BY <1>1 DEF Detected, Heard, QuestionsKept
<1>9. QED
  BY <1>5, <1>7, <1>8 DEF Heard

\* A report says what was heard.
LEMMA ReportHears ==
  ASSUME Heard, AdapterEarned, ReportDone, UNCHANGED <<platform, mode, works>>
  PROVE  Heard'
<1>1. Posix' = Posix /\ Needed' = Needed /\ verdict' = verdict /\ adapter' = adapter
  BY DEF Posix, Needed, ReportDone
<1>2. \A c : ~ InNeed(c)
  BY DEF ReportDone, InNeed
<1>3. Selected
  BY DEF Heard, AdapterDecided, ReportDone
<1>4. CASE adapter = "passthrough"
  <2>1. report' = [by |-> "passthrough", rlimits |-> FALSE, killTree |-> FALSE,
                   memory |-> FALSE, fs |-> FALSE, net |-> FALSE]
    BY <1>4 DEF ReportDone
  <2>2. QED
    BY <1>1, <1>3, <1>4, <2>1 DEF ReportHeard, ReportDone, Heard, SpawnHeard, AdapterDecided,
                                 Selected, QuestionsKept, Refusal, Refuted, Proved
<1>5. CASE adapter # "passthrough"
  <2>1. \A i \in DOMAIN Reported : verdict[Reported[i]] # "none"
    BY <1>2, <1>5, Names DEF Heard, QuestionsKept, ReportDone
  <2>2. /\ Posix => verdict["rlimit"] # "none"
        /\ ~ Posix => verdict["fs"] # "none" /\ verdict["net"] # "none"
    BY <2>1, Names
  <2>3. /\ report'.rlimits = (verdict["rlimit"] = "yes")
        /\ Posix => report'.fs = TRUE /\ report'.net = TRUE
        /\ ~ Posix => /\ report'.fs = (verdict["fs"] = "yes")
                      /\ report'.net = (verdict["net"] = "yes")
    BY <1>5 DEF ReportDone
  <2>4. ReportHeard'
    BY <1>1, <1>3, <1>5, <2>2, <2>3 DEF ReportHeard, Selected
  <2>5. QED
    BY <1>1, <2>4 DEF ReportDone, Heard, SpawnHeard, AdapterDecided, Selected, QuestionsKept,
                      Refusal, Refuted, Proved
<1>6. QED
  BY <1>4, <1>5

\* A spawn goes by what was heard.
LEMMA PosixHears ==
  ASSUME Heard, AdapterEarned, WrapPosix, UNCHANGED <<platform, mode, works>>
  PROVE  Heard'
<1>1. Posix' = Posix /\ Needed' = Needed /\ verdict' = verdict /\ adapter' = adapter
  BY DEF Posix, Needed, WrapPosix
<1>2. Posix /\ Selected /\ adapter # "passthrough"
  BY DEF WrapPosix, AdapterEarned, Posix, Selected
<1>3. verdict["rlimit"] # "none"
  BY <1>2 DEF Heard, QuestionsKept, WrapPosix, InNeed
<1>4. PICK c : spec' = IF verdict["rlimit"] = "yes" /\ ~ Valid(Wanted(request, adapter = "linux"))
                       THEN [state |-> "refused"]
                       ELSE [Plain EXCEPT !.wrapped = verdict["rlimit"] = "yes", !.fd = c[1]]
  BY DEF WrapPosix
<1>5. ASSUME spec' = [state |-> "refused"] PROVE SpawnHeard'
  <2>1. spec'.state = "refused"
    BY <1>5
  <2>2. QED
    BY <2>1 DEF SpawnHeard
<1>6. ASSUME spec' = [Plain EXCEPT !.wrapped = verdict["rlimit"] = "yes", !.fd = c[1]]
      PROVE  SpawnHeard'
  <2>1. Plain.confined = TRUE
    BY <1>2 DEF Plain
  <2>2. spec'.confined = Plain.confined
    BY <1>6 DEF Plain
  <2>3. spec'.wrapped = (verdict["rlimit"] = "yes")
    BY <1>6 DEF Plain
  <2>4. QED
    BY <1>1, <1>2, <1>3, <2>1, <2>2, <2>3 DEF SpawnHeard, Selected
<1>7. SpawnHeard'
  BY <1>4, <1>5, <1>6, Zenon
<1>8. QED
  BY <1>1, <1>7 DEF WrapPosix, Heard, ReportHeard, AdapterDecided, Selected, QuestionsKept,
                    Refusal, Refuted, Proved

\* A wrap on Windows starts only what the verdicts allow.
LEMMA WindowsHears ==
  ASSUME Heard, AdapterEarned, WrapWindows, UNCHANGED <<platform, mode, works>>
  PROVE  Heard'
<1>1. Posix' = Posix /\ Needed' = Needed /\ verdict' = verdict /\ adapter' = adapter
  BY DEF Posix, Needed, WrapWindows
<1>2. ~ Posix /\ Selected /\ adapter # "passthrough"
  BY DEF WrapWindows, AdapterEarned, Posix, Selected
<1>3. CASE Proved(SpawnNeeds(request))
  <2>1. verdict["fs"] = "yes" /\ (request.network \/ verdict["net"] = "yes")
    <3>1. CASE request.network
      <4>1. SpawnNeeds(request) = <<"fs">> \o <<>>
        BY <1>2, <3>1 DEF SpawnNeeds
      <4>2. verdict["fs"] = "yes"
        BY <1>3, <4>1 DEF Proved
      <4>3. QED
        BY <3>1, <4>2
    <3>2. CASE ~ request.network
      <4>1. SpawnNeeds(request) = <<"fs">> \o <<"net">>
        BY <1>2, <3>2 DEF SpawnNeeds
      <4>2. /\ DOMAIN SpawnNeeds(request) = 1..2
            /\ SpawnNeeds(request)[1] = "fs" /\ SpawnNeeds(request)[2] = "net"
        BY <4>1
      <4>3. verdict["fs"] = "yes" /\ verdict["net"] = "yes"
        BY <1>3, <4>2 DEF Proved
      <4>4. QED
        BY <4>3
    <3>3. QED
      BY <3>1, <3>2
  <2>2. spec' = Plain \/ spec'.state = "refused"
    BY DEF WrapWindows
  <2>3. Plain.confined = TRUE
    BY <1>2 DEF Plain
  <2>4. SpawnHeard'
    BY <1>1, <1>2, <2>1, <2>2, <2>3 DEF SpawnHeard, Selected, WrapWindows
  <2>5. QED
    BY <1>1, <2>4 DEF WrapWindows, Heard, ReportHeard, AdapterDecided, Selected, QuestionsKept,
                      Refusal, Refuted, Proved
<1>4. CASE ~ Proved(SpawnNeeds(request))
  <2>1. spec'.state = "refused"
    BY <1>4 DEF WrapWindows
  <2>2. SpawnHeard'
    BY <2>1 DEF SpawnHeard
  <2>3. QED
    BY <1>1, <2>2 DEF WrapWindows, Heard, ReportHeard, AdapterDecided, Selected, QuestionsKept,
                      Refusal, Refuted, Proved
<1>5. QED
  BY <1>3, <1>4

\* The passthrough adapter wraps without confinement and says so.
LEMMA PassthroughHears ==
  ASSUME Heard, AdapterEarned, WrapPassthrough, UNCHANGED <<platform, mode, works>>
  PROVE  Heard'
<1>1. Posix' = Posix /\ Needed' = Needed /\ verdict' = verdict /\ adapter' = adapter
  BY DEF Posix, Needed, WrapPassthrough
<1>2. Selected /\ adapter = "passthrough"
  BY DEF WrapPassthrough, Selected
<1>3. spec'.confined = FALSE /\ spec'.wrapped = FALSE
  BY <1>2 DEF WrapPassthrough, Plain
<1>4. SpawnHeard'
  BY <1>1, <1>2, <1>3 DEF SpawnHeard, Selected
<1>5. QED
  BY <1>1, <1>4 DEF WrapPassthrough, Heard, ReportHeard, AdapterDecided, Selected, QuestionsKept,
                    Refusal, Refuted, Proved

\* A spawn takes its command as wrapped.
LEMMA SpawnHears ==
  ASSUME Heard, AdapterEarned, Spawn, UNCHANGED <<platform, mode, works>>
  PROVE  Heard'
<1>1. Posix' = Posix /\ Needed' = Needed /\ verdict' = verdict /\ adapter' = adapter
  BY DEF Posix, Needed, Spawn
<1>2. spec'.confined = spec.confined
  BY DEF Spawn
<1>3. spec'.wrapped = spec.wrapped
  BY DEF Spawn
<1>4. SpawnHeard'
  BY <1>1, <1>2, <1>3 DEF Heard, SpawnHeard, Selected, Spawn
<1>5. QED
  BY <1>1, <1>4 DEF Spawn, Heard, ReportHeard, AdapterDecided, Selected, QuestionsKept,
                    Refusal, Refuted, Proved

\* What a question under way is about, and what it is answered.
LEMMA AskKeepsHeard ==
  ASSUME Heard, AdapterEarned, VerdictsEarned, Ask, UNCHANGED <<platform, mode, works>>
  PROVE  Heard'
<1>1. /\ Posix' = Posix /\ Needed' = Needed /\ Reported' = Reported
      /\ UNCHANGED <<op, adapter, report, request, spec>>
  BY DEF Posix, Needed, Reported, Ask
<1>2. need \in Seq(Controls)
  BY DEF Heard, QuestionsKept
<1>3. /\ need' \in Seq(Controls)
      /\ \A c \in Controls : verdict[c] # "none" => verdict'[c] = verdict[c]
      /\ \A c \in Controls : InNeed(c)' => InNeed(c)
      /\ \A c \in Controls : InNeed(c) =>
           \/ InNeed(c)' \/ verdict'[c] = "yes"
           \/ op = "report" /\ verdict'[c] = "no"
           \/ \E d \in Controls : InNeed(d) /\ verdict'[d] = "no" /\ op # "report"
  BY <1>2, AskHears
<1>4. AdapterDecided' /\ ReportHeard' /\ SpawnHeard'
  BY <1>1, <1>3, VerdictsStay DEF Heard
<1>5. op = "detect" => mode # "off"
  BY DEF Ask, Heard, QuestionsKept
<1>6. ASSUME op = "detect"
      PROVE  /\ \A c \in Controls : InNeed(c)' => \E i \in DOMAIN Needed : Needed[i] = c
             /\ Refusal' \/ \A i \in DOMAIN Needed :
                              verdict'[Needed[i]] = "yes" \/ InNeed(Needed[i])'
  <2>1. \A c \in Controls : InNeed(c) => \E i \in DOMAIN Needed : Needed[i] = c
    BY <1>5, <1>6 DEF Heard, QuestionsKept
  <2>2. CASE Refusal
    BY <1>1, <1>3, <2>1, <2>2, Names DEF Refusal, Refuted
  <2>3. CASE \E d \in Controls : InNeed(d) /\ verdict'[d] = "no"
    BY <1>1, <1>3, <2>1, <2>3 DEF Refusal, Refuted
  <2>4. CASE ~ Refusal /\ ~ \E d \in Controls : InNeed(d) /\ verdict'[d] = "no"
    <3>1. ASSUME NEW i \in DOMAIN Needed
          PROVE  verdict'[Needed[i]] = "yes" \/ InNeed(Needed[i])'
      <4>1. Needed[i] \in Controls
        BY Names
      <4>2. verdict[Needed[i]] = "yes" \/ InNeed(Needed[i])
        BY <1>5, <1>6, <2>4 DEF Heard, QuestionsKept
      <4>3. ASSUME NEW c \in Controls, verdict[c] = "yes" \/ InNeed(c)
            PROVE  verdict'[c] = "yes" \/ InNeed(c)'
        BY <1>3, <1>6, <2>4, <4>3
      <4>4. QED
        BY <1>1, <4>1, <4>2, <4>3 DEF InNeed
    <3>2. QED
      BY <1>3, <2>1, <3>1
  <2>5. QED
    BY <2>2, <2>3, <2>4
<1>7. ASSUME op = "report", adapter # "passthrough", NEW c \in Controls,
             \E i \in DOMAIN Reported : Reported[i] = c
      PROVE  verdict'[c] # "none" \/ InNeed(c)'
  <2>1. verdict[c] # "none" \/ InNeed(c)
    BY <1>7 DEF Heard, QuestionsKept
  <2>2. QED
    BY <1>3, <1>7, <2>1
<1>8. ASSUME op = "wrap", adapter # "passthrough", Posix
      PROVE  /\ verdict'["rlimit"] # "none" \/ InNeed("rlimit")'
             /\ \A c \in Controls : InNeed(c)' => c = "rlimit"
  <2>1. /\ verdict["rlimit"] # "none" \/ InNeed("rlimit")
        /\ \A c \in Controls : InNeed(c) => c = "rlimit"
    BY <1>8 DEF Heard, QuestionsKept
  <2>2. "rlimit" \in Controls
    BY DEF Controls
  <2>3. InNeed("rlimit") => InNeed("rlimit")' \/ verdict'["rlimit"] \in {"yes", "no"}
    BY <1>3, <1>8, <2>1, <2>2
  <2>4. QED
    BY <1>3, <2>1, <2>2, <2>3
<1>9. op = "wrap" => spec' = NoSpec
  BY <1>1 DEF Heard, QuestionsKept
<1>10. QuestionsKept'
  BY <1>1, <1>3, <1>5, <1>6, <1>7, <1>8, <1>9 DEF QuestionsKept
<1>11. QED
  BY <1>4, <1>10 DEF Heard

\* What no question, answer or spawn touches is kept.
LEMMA OthersHear ==
  ASSUME Heard, UNCHANGED <<platform, mode, verdict, adapter, report, request, spec, need>>,
         op' = op \/ op' \notin {"detect", "report", "wrap"}
  PROVE  Heard'
BY DEF Heard, QuestionsKept, AdapterDecided, ReportHeard, SpawnHeard, Posix, Needed, Reported,
       Refusal, Refuted, Proved, Selected, InNeed

\* Reports, adapters and spawns go by the verdicts cached at the time, and these stay.
THEOREM HeardInvariance == Spec => [](NInv /\ Heard)
<1>1. Init => Heard
  BY DEF Init, HardInit, Heard, QuestionsKept, AdapterDecided, ReportHeard, SpawnHeard, NoReport,
         NoSpec
<1>2. NInv /\ Heard /\ [Next]_vars => Heard'
  <2> SUFFICES ASSUME NInv, Heard, [Next]_vars PROVE Heard'
    OBVIOUS
  <2>0. AdapterEarned /\ VerdictsEarned
    BY DEF NInv
  <2> USE DEF Lasting
  <2>1. CASE Ask /\ UNCHANGED <<Lasting, Weather, hardVars>>
    BY <2>0, <2>1, AskKeepsHeard
  <2>2. CASE Detect /\ UNCHANGED <<Lasting, Weather, hardVars>>
    <3>1. Posix' = Posix /\ Needed' = Needed
      BY <2>2 DEF Posix, Needed
    <3>2. CASE mode = "off"
      BY <2>2, <3>1, <3>2 DEF Detect, Heard, QuestionsKept, AdapterDecided, ReportHeard,
                              SpawnHeard, Refusal, Refuted, Proved, Selected
    <3>3. CASE mode # "off"
      <4>1. need' = Needed /\ DOMAIN Needed = 1..Len(Needed)
        BY <2>2, <3>3, Names DEF Detect
      <4>2. QuestionsKept'
        BY <2>2, <3>1, <3>3, <4>1, Names DEF Detect, QuestionsKept, InNeed
      <4>3. QED
        BY <2>2, <3>1, <4>2 DEF Detect, Heard, AdapterDecided, ReportHeard, SpawnHeard,
                                Refusal, Refuted, Proved, Selected
    <3>4. QED
      BY <3>2, <3>3
  <2>3. CASE Detected /\ UNCHANGED <<Lasting, Weather, hardVars>>
    BY <2>0, <2>3, DetectedHears
  <2>4. CASE Capabilities /\ UNCHANGED <<Lasting, Weather, hardVars>>
    <3>1. Posix' = Posix /\ Needed' = Needed /\ Reported' = Reported
      BY <2>4 DEF Posix, Needed, Reported
    <3>2. CASE adapter = "passthrough"
      BY <2>4, <3>1, <3>2 DEF Capabilities, Heard, QuestionsKept, AdapterDecided, ReportHeard,
                              SpawnHeard, Refusal, Refuted, Proved, Selected
    <3>3. CASE adapter # "passthrough"
      <4>1. need' = Reported /\ DOMAIN Reported = 1..Len(Reported)
        BY <2>4, <3>3, Names DEF Capabilities
      <4>2. QuestionsKept'
        BY <2>4, <3>1, <3>3, <4>1, Names DEF Capabilities, QuestionsKept, InNeed
      <4>3. QED
        BY <2>4, <3>1, <4>2 DEF Capabilities, Heard, AdapterDecided, ReportHeard, SpawnHeard,
                                Refusal, Refuted, Proved, Selected
    <3>4. QED
      BY <3>2, <3>3
  <2>5. CASE ReportDone /\ UNCHANGED <<Lasting, Weather, hardVars>>
    BY <2>0, <2>5, ReportHears
  <2>6. CASE Spawn /\ UNCHANGED <<Lasting, Weather, hardVars>>
    BY <2>0, <2>6, SpawnHears
  <2>7. ASSUME NEW r \in Requests, Wrap(r), UNCHANGED <<Lasting, Weather, hardVars>>
        PROVE  Heard'
    <3>1. Posix' = Posix /\ Needed' = Needed /\ Selected' = Selected /\ Selected
      BY <2>7 DEF Posix, Needed, Wrap, Selected
    <3>2. AdapterDecided' /\ ReportHeard' /\ SpawnHeard'
      BY <2>7, <3>1 DEF Wrap, Heard, AdapterDecided, ReportHeard, SpawnHeard, Refusal, Refuted,
                        Proved, NoSpec
    <3>3. CASE adapter = "passthrough"
      BY <2>7, <3>1, <3>2, <3>3 DEF Wrap, Heard, QuestionsKept
    <3>4. CASE adapter # "passthrough" /\ Posix
      <4>1. need' = <<"rlimit">> /\ spec' = NoSpec /\ op' = "wrap" /\ adapter' = adapter
        BY <2>7, <3>4 DEF Wrap, SpawnNeeds
      <4>2. need' \in Seq(Controls)
        BY <4>1 DEF Controls
      <4>3. Len(need') = 1 /\ need'[1] = "rlimit"
        BY <4>1
      <4>4. QuestionsKept'
        BY <4>1, <4>2, <4>3 DEF QuestionsKept, InNeed
      <4>5. QED
        BY <3>2, <4>4 DEF Heard
    <3>5. CASE adapter # "passthrough" /\ ~ Posix
      <4>1. need' = <<"fs">> \o <<>> \/ need' = <<"fs">> \o <<"net">>
        BY <2>7, <3>5 DEF Wrap, SpawnNeeds
      <4>2. need' \in Seq(Controls)
        <5>1. <<>> \in Seq(Controls) /\ <<"fs">> \in Seq(Controls) /\ <<"net">> \in Seq(Controls)
          BY DEF Controls
        <5>2. \A s, t \in Seq(Controls) : s \o t \in Seq(Controls)
          OBVIOUS
        <5>3. QED
          BY <4>1, <5>1, <5>2
      <4>3. spec' = NoSpec /\ op' = "wrap" /\ ~ Posix'
        BY <2>7, <3>1, <3>5 DEF Wrap
      <4>4. QuestionsKept'
        BY <4>2, <4>3 DEF QuestionsKept
      <4>5. QED
        BY <3>2, <4>4 DEF Heard
    <3>6. QED
      BY <3>3, <3>4, <3>5
  <2>8. CASE WrapPassthrough /\ UNCHANGED <<Lasting, Weather>>
    BY <2>0, <2>8, PassthroughHears
  <2>9. CASE WrapPosix /\ UNCHANGED <<Lasting, Weather>>
    BY <2>0, <2>9, PosixHears
  <2>10. CASE WrapWindows /\ UNCHANGED <<Lasting, Weather>>
    BY <2>0, <2>10, WindowsHears
  <2>11. CASE HardNext /\ UNCHANGED <<Lasting, Weather, verdict, need, adapter, report, request, spec>>
    <3>1. op' = op \/ op' \notin {"detect", "report", "wrap"}
      BY <2>11 DEF HardNext, Harden, Unsupported, RestrictSelf, AddRead, AddWrite, AddRule,
                   PlaceMade, PlaceGone
    <3>2. QED
      BY <2>11, <3>1, OthersHear
  <2>12. CASE (Fault \/ FaultPasses) /\ UNCHANGED <<Lasting, hardVars>>
    BY <2>12, OthersHear DEF Fault, FaultPasses, hostVars
  <2>13. CASE UNCHANGED vars
    BY <2>13, OthersHear DEF vars
  <2>14. QED
    BY <2>1, <2>2, <2>3, <2>4, <2>5, <2>6, <2>7, <2>8, <2>9, <2>10, <2>11, <2>12, <2>13
    DEF Next
<1>3. QED
  BY <1>1, <1>2, NativeInvariance, PTL DEF Spec

\* Whenever a process asks and whatever faults come and go, a spawn is what its
\* report says, on every platform and for any request.
THEOREM SpawnsTold == Spec => []SpawnsAsReported
<1>1. NInv /\ Heard => SpawnsAsReported
  <2> SUFFICES ASSUME Heard, report # NoReport, spec.state \notin {"none", "refused"}
               PROVE  /\ Posix => spec.wrapped = report.rlimits
                      /\ spec.confined => report.fs /\ (request.network \/ report.net)
                      /\ ~ spec.confined =>
                           report \in [by : {"passthrough"}, rlimits : {FALSE},
                                       killTree : {FALSE}, memory : {FALSE},
                                       fs : {FALSE}, net : {FALSE}]
    BY DEF SpawnsAsReported
  <2>1. CASE adapter = "passthrough"
    <3>1. report = [by |-> "passthrough", rlimits |-> FALSE, killTree |-> FALSE,
                    memory |-> FALSE, fs |-> FALSE, net |-> FALSE]
      BY <2>1 DEF Heard, ReportHeard
    <3>2. spec.confined = FALSE /\ spec.wrapped = FALSE
      BY <2>1 DEF Heard, SpawnHeard
    <3>3. report.rlimits = FALSE
      BY <3>1
    <3>4. QED
      BY <3>1, <3>2, <3>3
  <2>2. CASE adapter # "passthrough" /\ Posix
    <3>1. /\ report.rlimits = (verdict["rlimit"] = "yes")
          /\ report.fs /\ report.net
      BY <2>2 DEF Heard, ReportHeard
    <3>2. spec.confined = TRUE /\ spec.wrapped = (verdict["rlimit"] = "yes")
      BY <2>2 DEF Heard, SpawnHeard
    <3>3. QED
      BY <2>2, <3>1, <3>2
  <2>3. CASE adapter # "passthrough" /\ ~ Posix
    <3>1. /\ verdict["fs"] = "yes" => report.fs
          /\ verdict["net"] = "yes" => report.net
      BY <2>3 DEF Heard, ReportHeard
    <3>2. spec.confined = TRUE /\ verdict["fs"] = "yes"
          /\ (request.network \/ verdict["net"] = "yes")
      BY <2>3 DEF Heard, SpawnHeard
    <3>3. QED
      BY <2>3, <3>1, <3>2
  <2>4. QED
    BY <2>1, <2>2, <2>3
<1>2. QED
  BY <1>1, HeardInvariance, PTL

-----------------------------------------------------------------------------
(* Limits.                                                                 *)

\* A set of limits is not what a broken chain leaves.
LEMMA NotBroken == ASSUME NEW f \in [Limits -> Nat] PROVE f # <<>>
<1>1. "t" \in DOMAIN f
  BY DEF Limits
<1>2. DOMAIN <<>> = {}
  OBVIOUS
<1>3. QED
  BY <1>1, <1>2

\* What the entries of S leave: each limit asked for lowered, unless one has a
\* flag the shell does not know.
After(h, w, S) ==
  IF DOMAIN w \cap S \subseteq h.flags
  THEN [l \in Limits |-> IF l \in DOMAIN w \cap S THEN Smaller(w[l], h.hard[l]) ELSE h.hard[l]]
  ELSE <<>>

\* What the wrapper needs: a limit of each kind, room to fork, and integers.
Wrappable(h, w) ==
  /\ h.hard \in [Limits -> Nat] /\ h.busy \in Nat /\ h.busy < h.hard["proc"]
  /\ DOMAIN w \subseteq Limits /\ \A l \in DOMAIN w : w[l] \in Int

\* One entry adds its limit to those of the entries before it, as long as the
\* process limit is not among them.
LEMMA OneEntry ==
  ASSUME NEW h, NEW w, Wrappable(h, w), NEW S \in SUBSET Limits, NEW l \in Limits \ S, "proc" \notin S
  PROVE  Entry(h, w, After(h, w, S), l) = After(h, w, S \cup {l})
<1> DEFINE F(T) == [k \in Limits |-> IF k \in DOMAIN w \cap T THEN Smaller(w[k], h.hard[k]) ELSE h.hard[k]]
<1>1. ASSUME NEW T PROVE F(T) # <<>>
  <2>1. "t" \in DOMAIN F(T)
    BY DEF Limits
  <2>2. DOMAIN <<>> = {}
    OBVIOUS
  <2>3. QED
    BY <2>1, <2>2
<1>2. CASE ~ DOMAIN w \cap S \subseteq h.flags
  BY <1>2 DEF After, Entry
<1>3. CASE DOMAIN w \cap S \subseteq h.flags /\ l \notin DOMAIN w
  <2>1. DOMAIN w \cap S = DOMAIN w \cap (S \cup {l})
    BY <1>3
  <2>2. QED
    BY <1>3, <2>1 DEF After, Entry
<1>4. CASE DOMAIN w \cap S \subseteq h.flags /\ l \in DOMAIN w
  <2>1. After(h, w, S) = F(S)
    BY <1>4 DEF After
  <2>2. F(S)["proc"] = h.hard["proc"] /\ F(S)[l] = h.hard[l]
    BY DEF Limits
  <2>3. h.hard[l] \in Nat /\ w[l] \in Int /\ h.hard["proc"] > h.busy
    BY <1>4 DEF Wrappable, Limits
  <2>4. Smaller(w[l], h.hard[l]) <= h.hard[l]
    BY <2>3 DEF Smaller
  <2>5. Smaller(w[l], F(S)[l]) = IF w[l] < F(S)[l] THEN w[l] ELSE F(S)[l]
    BY DEF Smaller
  <2>6. Entry(h, w, F(S), l) = SetLimit(h, w, F(S), l)
    BY <1>1, <1>4 DEF Entry
  <2>7. SetLimit(h, w, F(S), l) = IF l \in h.flags THEN [F(S) EXCEPT ![l] = Smaller(w[l], h.hard[l])] ELSE <<>>
    <3> HIDE DEF F
    <3> QED
      BY <2>2, <2>3, <2>4 DEF SetLimit
  <2>8. [F(S) EXCEPT ![l] = Smaller(w[l], h.hard[l])] = F(S \cup {l})
    BY <1>4
  <2>9. QED
    BY <1>4, <2>1, <2>6, <2>7, <2>8 DEF After
<1>5. QED
  BY <1>2, <1>3, <1>4

\* The whole chain: every limit asked for is set, and it breaks only at a flag
\* the shell does not know.
LEMMA Chain ==
  ASSUME NEW h, NEW w, Wrappable(h, w)
  PROVE  RunScript(h, w) = After(h, w, Limits)
<1>0. h.hard = After(h, w, {})
  BY DEF After, Wrappable
<1>1. Entry(h, w, After(h, w, {}), "t") = After(h, w, {"t"})
  BY OneEntry DEF Limits
<1>2. Entry(h, w, After(h, w, {"t"}), "f") = After(h, w, {"t", "f"})
  <2>1. {"t"} \cup {"f"} = {"t", "f"}
    OBVIOUS
  <2>2. QED
    BY <2>1, OneEntry DEF Limits
<1>3. Entry(h, w, After(h, w, {"t", "f"}), "n") = After(h, w, {"t", "f", "n"})
  <2>1. {"t", "f"} \cup {"n"} = {"t", "f", "n"}
    OBVIOUS
  <2>2. QED
    BY <2>1, OneEntry DEF Limits
<1>4. Entry(h, w, After(h, w, {"t", "f", "n"}), "v") = After(h, w, {"t", "f", "n", "v"})
  <2>1. {"t", "f", "n"} \cup {"v"} = {"t", "f", "n", "v"}
    OBVIOUS
  <2>2. QED
    BY <2>1, OneEntry DEF Limits
<1>5. Entry(h, w, After(h, w, {"t", "f", "n", "v"}), "proc") = After(h, w, Limits)
  <2>1. {"t", "f", "n", "v"} \cup {"proc"} = Limits
    BY DEF Limits
  <2>2. QED
    BY <2>1, OneEntry DEF Limits
<1>6. Script[1] = "t" /\ Script[2] = "f" /\ Script[3] = "n" /\ Script[4] = "v" /\ Script[5] = "proc"
  BY DEF Script
<1>7. QED
  BY <1>0, <1>1, <1>2, <1>3, <1>4, <1>5, <1>6 DEF RunScript

\* The wrapper the probe ran through, and what a spawn under it is left with.
WrapperProved == verdict["rlimit"] = "yes" => RlimitProbe(host, platform = "linux")

RequestKept == op = "wrap" \/ spec.state # "none" => request \in Requests

SpawnLimited ==
  /\ spec.state \notin {"none", "refused"} => (spec.wrapped => verdict["rlimit"] = "yes")
  /\ spec.state # "broken"
  /\ spec.state = "running" /\ spec.wrapped =>
       spec.limits = After(host, Wanted(request, platform = "linux"), Limits)

LInv == host \in Hosts /\ WrapperProved /\ RequestKept /\ SpawnLimited

\* Any request can be asked of the wrapper, and so can the probe's limits.
LEMMA WantedFits ==
  ASSUME NEW h \in Hosts, NEW r \in Requests, NEW b \in BOOLEAN
  PROVE  Wrappable(h, Wanted(r, b)) /\ DOMAIN Wanted(r, b) \subseteq DOMAIN ProbeValues(b)
<1> USE RlimitAssumption, HostsAssumption, RequestsAssumption
<1>1. DOMAIN Wanted(r, b) \subseteq Limits
  BY DEF Wanted, Limits
<1>2. DOMAIN Wanted(r, b) \subseteq DOMAIN ProbeValues(b)
  BY DEF Wanted, ProbeValues, Limits
<1>3. ASSUME NEW l \in DOMAIN Wanted(r, b) PROVE Wanted(r, b)[l] \in Int
  <2>1. CpuSeconds(r.timeoutMs) \in Int
    <3>1. Seconds(r.timeoutMs) \in Int
      BY DEF Seconds
    <3>2. CpuPerWall * Seconds(r.timeoutMs) \in Int /\ MaxCpu \in Int
      BY <3>1 DEF MaxCpu
    <3>3. QED
      BY <3>2 DEF CpuSeconds, Smaller, Larger
  <2>2. FileBlocks \in Int /\ OpenFiles \in Int /\ r.memoryMb * 1024 \in Int
        /\ Headroom + Larger(1, r.maxProcesses) \in Int
    BY DEF Larger
  <2>3. QED
    BY <2>1, <2>2 DEF Wanted
<1>4. QED
  BY <1>1, <1>2, <1>3 DEF Wrappable

LEMMA ProbeFits ==
  ASSUME NEW h \in Hosts, NEW b \in BOOLEAN
  PROVE  Wrappable(h, ProbeValues(b))
<1> USE RlimitAssumption, HostsAssumption
<1>1. DOMAIN ProbeValues(b) \subseteq Limits
  BY DEF ProbeValues
<1>2. ASSUME NEW l \in DOMAIN ProbeValues(b) PROVE ProbeValues(b)[l] \in Int
  BY DEF ProbeValues, Limits
<1>3. QED
  BY <1>1, <1>2 DEF Wrappable

\* Where the probe came through the wrapper every request does: the chain has
\* no flag the probe did not try.
LEMMA ProvedRuns ==
  ASSUME NEW h \in Hosts, NEW r \in Requests, NEW b \in BOOLEAN, RlimitProbe(h, b)
  PROVE  /\ RunScript(h, Wanted(r, b)) = After(h, Wanted(r, b), Limits)
         /\ RunScript(h, Wanted(r, b)) # <<>>
         /\ \A l \in DOMAIN Wanted(r, b) :
              RunScript(h, Wanted(r, b))[l] = Smaller(Wanted(r, b)[l], h.hard[l])
<1> DEFINE w == Wanted(r, b)
           probe == ProbeValues(b)
<1>1. Wrappable(h, w) /\ DOMAIN w \subseteq DOMAIN probe
  BY WantedFits
<1>2. RunScript(h, w) = After(h, w, Limits)
  BY <1>1, Chain
<1>3. RunScript(h, probe) = After(h, probe, Limits)
  BY ProbeFits, Chain
<1>4. RunScript(h, probe) # <<>>
  BY DEF RlimitProbe
<1>5. DOMAIN probe \cap Limits \subseteq h.flags
  BY <1>3, <1>4 DEF After
<1>6. DOMAIN w \subseteq Limits
  BY <1>1 DEF Wrappable
<1> HIDE DEF w, probe
<1>7. DOMAIN w \cap Limits \subseteq h.flags
  BY <1>1, <1>5
<1>8. After(h, w, Limits) =
        [l \in Limits |-> IF l \in DOMAIN w \cap Limits THEN Smaller(w[l], h.hard[l]) ELSE h.hard[l]]
  BY <1>7 DEF After
<1>9. "t" \in DOMAIN After(h, w, Limits)
  BY <1>8 DEF Limits
<1>10. DOMAIN <<>> = {}
  OBVIOUS
<1>11. After(h, w, Limits) # <<>>
  BY <1>9, <1>10
<1>12. \A l \in DOMAIN w : After(h, w, Limits)[l] = Smaller(w[l], h.hard[l])
  BY <1>6, <1>8
<1>13. QED
  BY <1>2, <1>11, <1>12 DEF w

\* The CPU budget is no less than the timeout, up to its ceiling.
LEMMA BudgetOutlasts ==
  ASSUME NEW ms \in Int
  PROVE  /\ CpuSeconds(ms) \in Int /\ Seconds(ms) \in Int /\ MaxCpu \in Int
         /\ CpuSeconds(ms) >= Smaller(Seconds(ms), MaxCpu)
<1> USE RlimitAssumption
<1>1. Seconds(ms) \in Int /\ MaxCpu \in Nat
  BY DEF Seconds, MaxCpu
<1>2. CpuPerWall * Seconds(ms) \in Int
  BY <1>1
<1>3. CASE ms > 0
  <2>1. Seconds(ms) \in Nat
    BY <1>3 DEF Seconds
  <2>2. \A c \in Nat \ {0}, s \in Nat : c * s >= s
    OBVIOUS
  <2>3. CpuPerWall * Seconds(ms) >= Seconds(ms)
    BY <2>1, <2>2
  <2>4. QED
    BY <1>1, <1>2, <1>3, <2>3 DEF CpuSeconds, Smaller, Larger
<1>4. CASE ms <= 0
  <2>1. Seconds(ms) <= 0
    BY <1>4 DEF Seconds
  <2>2. QED
    BY <1>1, <1>4, <2>1 DEF CpuSeconds, Smaller
<1>5. QED
  BY <1>3, <1>4

\* The steps that neither ask nor wrap nor spawn.
LEMMA OthersLimit ==
  ASSUME LInv, UNCHANGED <<platform, host, verdict, request, spec>>,
         op' = "wrap" => op = "wrap"
  PROVE  LInv'
BY DEF LInv, WrapperProved, RequestKept, SpawnLimited

\* A wrap on POSIX is refused, or wrapped as the verdict has it.
LEMMA PosixWraps ==
  ASSUME WrapPosix
  PROVE  \/ spec'.state = "refused"
         \/ spec'.state = "wrapped" /\ spec'.wrapped = (verdict["rlimit"] = "yes")
<1>1. PICK c : spec' = IF verdict["rlimit"] = "yes" /\ ~ Valid(Wanted(request, adapter = "linux"))
                       THEN [state |-> "refused"]
                       ELSE [Plain EXCEPT !.wrapped = verdict["rlimit"] = "yes", !.fd = c[1]]
  BY DEF WrapPosix
<1>2. QED
  BY <1>1 DEF Plain

\* The verdict on the wrapper is the host's, and what a spawn is left with
\* under it is what it asked for.
THEOREM LimitsInvariance == Spec => []LInv
<1>1. Init => LInv
  BY DEF Init, HardInit, LInv, WrapperProved, RequestKept, SpawnLimited, NoSpec, Controls
<1>2. NInv /\ Heard /\ LInv /\ [Next]_vars => LInv'
  <2> SUFFICES ASSUME NInv, Heard, LInv, [Next]_vars PROVE LInv'
    OBVIOUS
  <2> USE DEF Lasting
  <2>1. CASE Ask /\ UNCHANGED <<Lasting, Weather, hardVars>>
    <3>1. WrapperProved'
      <4>1. verdict'["rlimit"] = "yes" => verdict["rlimit"] = "yes" \/ Acts("rlimit")
        BY <2>1 DEF Ask, NInv, VerdictsEarned, Controls
      <4>2. Acts("rlimit") => RlimitProbe(host, platform = "linux")
        BY DEF Acts
      <4>3. platform' = platform /\ host' = host
        BY <2>1
      <4>4. QED
        BY <4>1, <4>2, <4>3 DEF LInv, WrapperProved
    <3>2. verdict["rlimit"] = "yes" => verdict'["rlimit"] = "yes"
      BY <2>1, AskEarns DEF NInv, Controls
    <3>3. QED
      BY <2>1, <3>1, <3>2 DEF Ask, LInv, RequestKept, SpawnLimited
  <2>2. CASE Detect /\ UNCHANGED <<Lasting, Weather, hardVars>>
    BY <2>2, OthersLimit DEF Detect
  <2>3. CASE Detected /\ UNCHANGED <<Lasting, Weather, hardVars>>
    BY <2>3, OthersLimit DEF Detected
  <2>4. CASE Capabilities /\ UNCHANGED <<Lasting, Weather, hardVars>>
    BY <2>4, OthersLimit DEF Capabilities
  <2>5. CASE ReportDone /\ UNCHANGED <<Lasting, Weather, hardVars>>
    BY <2>5, OthersLimit DEF ReportDone
  <2>6. CASE Spawn /\ UNCHANGED <<Lasting, Weather, hardVars>>
    <3> DEFINE limits == IF spec.wrapped THEN RunScript(host, Wanted(request, adapter = "linux"))
                         ELSE host.hard
    <3>1. request \in Requests /\ host \in Hosts
      BY <2>6 DEF Spawn, LInv, RequestKept
    <3>2. /\ spec'.wrapped = spec.wrapped /\ spec'.limits = limits
          /\ spec'.state \in {"unread", "running", "broken"}
          /\ spec'.state = "broken" => limits = <<>>
      BY <2>6 DEF Spawn
    <3>3. CASE spec.wrapped
      <4>1. verdict["rlimit"] = "yes" /\ RlimitProbe(host, platform = "linux")
        BY <2>6, <3>3 DEF Spawn, LInv, SpawnLimited, WrapperProved
      <4>2. (adapter = "linux") = (platform = "linux")
        BY <2>6, <3>3 DEF Spawn, Heard, SpawnHeard, Selected, NInv, AdapterEarned
      <4>3. limits # <<>> /\ limits = After(host, Wanted(request, platform = "linux"), Limits)
        BY <3>1, <3>3, <4>1, <4>2, ProvedRuns
      <4>4. QED
        BY <2>6, <3>1, <3>2, <4>1, <4>3 DEF Spawn, LInv, WrapperProved, RequestKept, SpawnLimited
    <3>4. CASE ~ spec.wrapped
      <4>1. host.hard # <<>>
        BY <3>1, HostsAssumption, NotBroken
      <4>2. QED
        BY <2>6, <3>1, <3>2, <3>4, <4>1 DEF Spawn, LInv, WrapperProved, RequestKept, SpawnLimited
    <3>5. QED
      BY <3>3, <3>4
  <2>7. CASE (\E r \in Requests : Wrap(r)) /\ UNCHANGED <<Lasting, Weather, hardVars>>
    BY <2>7 DEF Wrap, NoSpec, LInv, WrapperProved, RequestKept, SpawnLimited
  <2>8. CASE WrapPassthrough /\ UNCHANGED <<Lasting, Weather>>
    BY <2>8 DEF WrapPassthrough, Plain, LInv, WrapperProved, RequestKept, SpawnLimited
  <2>9. CASE WrapPosix /\ UNCHANGED <<Lasting, Weather>>
    <3>1. \/ spec'.state = "refused"
          \/ spec'.state = "wrapped" /\ spec'.wrapped = (verdict["rlimit"] = "yes")
      BY <2>9, PosixWraps
    <3>2. QED
      BY <2>9, <3>1 DEF WrapPosix, LInv, WrapperProved, RequestKept, SpawnLimited
  <2>10. CASE WrapWindows /\ UNCHANGED <<Lasting, Weather>>
    BY <2>10 DEF WrapWindows, Plain, LInv, WrapperProved, RequestKept, SpawnLimited
  <2>11. CASE HardNext /\ UNCHANGED <<Lasting, Weather, verdict, need, adapter, report, request, spec>>
    <3>1. op' = "wrap" => op = "wrap"
      BY <2>11 DEF HardNext, Harden, Unsupported, RestrictSelf, AddRead, AddWrite, AddRule,
                   PlaceMade, PlaceGone
    <3>2. QED
      BY <2>11, <3>1, OthersLimit
  <2>12. CASE (Fault \/ FaultPasses) /\ UNCHANGED <<Lasting, hardVars>>
    BY <2>12, OthersLimit DEF Fault, FaultPasses, hostVars
  <2>13. CASE UNCHANGED vars
    BY <2>13, OthersLimit DEF vars
  <2>14. QED
    BY <2>1, <2>2, <2>3, <2>4, <2>5, <2>6, <2>7, <2>8, <2>9, <2>10, <2>11, <2>12, <2>13
    DEF Next
<1>3. QED
  BY <1>1, <1>2, HeardInvariance, PTL DEF Spec

\* No wrapped command is kept from running, and each runs under the lower of
\* what was asked for and what the host has, with time for its timeout.
THEOREM LimitsKept == Spec => []LimitsBind
<1>1. NInv /\ Heard /\ LInv => LimitsBind
  <2> SUFFICES ASSUME NInv, Heard, LInv PROVE LimitsBind
    OBVIOUS
  <2>1. spec.state # "broken"
    BY DEF LInv, SpawnLimited
  <2> DEFINE wanted == Wanted(request, adapter = "linux")
  <2>2. ASSUME spec.state = "running", spec.wrapped
        PROVE  /\ \A l \in DOMAIN wanted : spec.limits[l] = Smaller(wanted[l], host.hard[l])
               /\ "t" \in DOMAIN wanted =>
                    spec.limits["t"] >= Smaller(Smaller(Seconds(request.timeoutMs), MaxCpu),
                                                host.hard["t"])
    <3>1. request \in Requests /\ host \in Hosts /\ verdict["rlimit"] = "yes"
      BY <2>2 DEF LInv, RequestKept, SpawnLimited
    <3>2. (adapter = "linux") = (platform = "linux")
      BY <2>2 DEF Heard, SpawnHeard, Selected, NInv, AdapterEarned
    <3>3. RlimitProbe(host, adapter = "linux") /\ (adapter = "linux") \in BOOLEAN
      BY <3>1, <3>2 DEF LInv, WrapperProved
    <3>4. /\ RunScript(host, wanted) = After(host, wanted, Limits)
          /\ \A l \in DOMAIN wanted : RunScript(host, wanted)[l] = Smaller(wanted[l], host.hard[l])
      BY <3>1, <3>3, ProvedRuns
    <3>5. \A l \in DOMAIN wanted : spec.limits[l] = Smaller(wanted[l], host.hard[l])
      <4>1. spec.limits = After(host, wanted, Limits)
        BY <2>2, <3>2 DEF LInv, SpawnLimited
      <4> HIDE DEF wanted
      <4>2. QED
        BY <3>4, <4>1
    <3>6. ASSUME "t" \in DOMAIN wanted
          PROVE  spec.limits["t"] >= Smaller(Smaller(Seconds(request.timeoutMs), MaxCpu),
                                             host.hard["t"])
      <4>1. wanted["t"] = CpuSeconds(request.timeoutMs)
        BY <3>6 DEF Wanted
      <4>2. request.timeoutMs \in Int /\ host.hard["t"] \in Int
        BY <3>1, RequestsAssumption, HostsAssumption DEF Limits
      <4>3. spec.limits["t"] = Smaller(CpuSeconds(request.timeoutMs), host.hard["t"])
        BY <3>5, <3>6, <4>1
      <4>4. QED
        BY <4>2, <4>3, BudgetOutlasts DEF Smaller
    <3>7. QED
      BY <3>5, <3>6
  <2>3. QED
    BY <2>1, <2>2 DEF LimitsBind
<1>2. QED
  BY <1>1, NativeInvariance, HeardInvariance, LimitsInvariance, PTL

=============================================================================
